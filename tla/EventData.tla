------------------------------ MODULE EventData ------------------------------
(***************************************************************************)
(* The data of the EMS server and the pure computations on it: what an     *)
(* event is, where a seat lives in its data array, which seats a           *)
(* reservation asks for, and how a request and an answer look.             *)
(* Source: projeto2/server/operations.c and projeto2/server/eventlist.c.   *)
(*                                                                         *)
(* A pointer to an event is the position of its node in the list, because  *)
(* nodes are only ever appended and each holds one event; 0 is NULL.       *)
(***************************************************************************)
EXTENDS Integers, Sequences

NULL == 0

(***************************************************************************)
(* Requests, as the session thread decodes them from the request pipe.     *)
(***************************************************************************)
CreateRequest  == [op : {"create"}, id : Nat, rows : Nat, cols : Nat]
ReserveRequest == [op : {"reserve"}, id : Nat, seats : Seq(Nat \X Nat) \ {<<>>}]
ShowRequest    == [op : {"show"}, id : Nat]
ListRequest    == [op : {"list"}]
Request == CreateRequest \cup ReserveRequest \cup ShowRequest \cup ListRequest

Ok       == [ret |-> 0]
Failed   == [ret |-> 1]
NoAnswer == [ret |-> -1]  \* the operation has not decided yet

(***************************************************************************)
(* Events.                                                                 *)
(***************************************************************************)
SeatIndices(rows, cols) == 0 .. rows * cols - 1

NewEvent(r) ==
    [id |-> r.id, rows |-> r.rows, cols |-> r.cols, reservations |-> 0,
     data |-> [i \in SeatIndices(r.rows, r.cols) |-> 0]]

IsEvent(e) ==
    e \in [id : Nat, rows : Nat, cols : Nat, reservations : Nat,
           data : [SeatIndices(e.rows, e.cols) -> Nat]]

SeatIndex(e, row, col) == (row - 1) * e.cols + col - 1

InBounds(e, seats) ==
    \A k \in DOMAIN seats : /\ seats[k][1] \in 1 .. e.rows
                            /\ seats[k][2] \in 1 .. e.cols

Wanted(e, seats) ==
    {SeatIndex(e, seats[k][1], seats[k][2]) : k \in DOMAIN seats}

\* Mutated form: only the first seat of the request is checked.
FirstFree(e, seats) ==
    \A k \in DOMAIN seats :
        k = 1 => e.data[SeatIndex(e, seats[k][1], seats[k][2])] = 0

Free(e, seats) == \A i \in Wanted(e, seats) : e.data[i] = 0

(***************************************************************************)
(* get_event walks the nodes from head to tail and returns the first event *)
(* with the identifier.                                                    *)
(***************************************************************************)
Nodes(list, id) == {n \in DOMAIN list : list[n].id = id}

GetEvent(list, id) ==
    IF Nodes(list, id) = {} THEN NULL
    ELSE CHOOSE n \in Nodes(list, id) : \A m \in Nodes(list, id) : n <= m

(***************************************************************************)
(* The contents of the answers to SHOW and LIST.                           *)
(***************************************************************************)
Snapshot(e) == [ret |-> 0, rows |-> e.rows, cols |-> e.cols, data |-> e.data]

Ids(list, num) == [n \in 1 .. num |-> list[n].id]

==============================================================================
