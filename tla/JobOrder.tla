------------------------------ MODULE JobOrder -------------------------------
(***************************************************************************)
(* What the threads of a process promise about the order in which they run *)
(* the operations of a jobs file: each one runs once; MaxThreads of them   *)
(* run at a time, and line l waits for line l - MaxThreads; and none       *)
(* begins before the operations above the last BARRIER have ended.         *)
(* JobThreads is shown to implement this module.                           *)
(***************************************************************************)
EXTENDS Integers, Sequences, FiniteSets

CONSTANTS Files,       \* the jobs files
          MaxThreads   \* how many operations may run at a time

VARIABLES file,     \* the jobs file
          ran,      \* ran[l]: how often the operation of line l was begun
          running   \* the lines whose operation is running

order == <<file, ran, running>>

Lines == file.lines
Operations == {l \in DOMAIN Lines :
                  Lines[l].op \in {"create", "reserve", "show", "list"}}

Init == /\ file \in Files
        /\ ran = [l \in DOMAIN Lines |-> 0]
        /\ running = {}

Ended(l) == ran[l] = 1 /\ l \notin running

BarrierBetween(k, l) == \E b \in k + 1 .. l - 1 : Lines[b].op = "barrier"

Begin(l) ==
    /\ ran[l] = 0
    /\ Cardinality(running) < MaxThreads
    /\ \A k \in Operations :
          /\ k < l
          /\ BarrierBetween(k, l) \/ k % MaxThreads = l % MaxThreads
          => Ended(k)
    /\ ran' = [ran EXCEPT ![l] = 1]
    /\ running' = running \cup {l}
    /\ UNCHANGED file

End(l) == /\ running' = running \ {l}
          /\ UNCHANGED <<file, ran>>

Next == \/ \E l \in Operations : Begin(l)
        \/ \E l \in running : End(l)

Spec == Init /\ [][Next]_order

==============================================================================
