---------------------------- MODULE MCServerOps ------------------------------
(***************************************************************************)
(* Small instances of ServerOps: two or three session threads and the      *)
(* host.                                                                   *)
(***************************************************************************)
EXTENDS ServerOps, TLC

CONSTANTS s1, s2, s3

TwoSessions   == {s1, s2}
ThreeSessions == {s1, s2, s3}

\* Two events that compete for one identifier, one of another identifier;
\* reservations that overlap in a seat, one outside the event; a show and a
\* list.
MCRequests ==
    {[op |-> "create", id |-> 1, rows |-> 1, cols |-> 2],
     [op |-> "create", id |-> 2, rows |-> 2, cols |-> 1],
     [op |-> "reserve", id |-> 1, seats |-> <<<<1, 1>>, <<1, 2>>>>],
     [op |-> "reserve", id |-> 1, seats |-> <<<<1, 2>>>>],
     [op |-> "reserve", id |-> 2, seats |-> <<<<1, 2>>>>],
     [op |-> "show", id |-> 1],
     [op |-> "list"]}

\* Session threads differ in nothing but their name.
Symmetric == Permutations(ThreeSessions)

==============================================================================
