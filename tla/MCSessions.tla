----------------------------- MODULE MCSessions ------------------------------
(***************************************************************************)
(* Small instances of Sessions: up to three clients and two workers.       *)
(***************************************************************************)
EXTENDS Sessions, TLC

CONSTANTS c1, c2, c3, w1, w2

TwoClients   == {c1, c2}
ThreeClients == {c1, c2, c3}
OneWorker    == {w1}
TwoWorkers   == {w1, w2}
Nobody       == {}

\* Clients differ in nothing but their name, and so do workers.
Symmetric == Permutations(ThreeClients) \cup Permutations(TwoWorkers)

==============================================================================
