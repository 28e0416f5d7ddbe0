----------------------------- MODULE EventStore ------------------------------
(***************************************************************************)
(* What the operations of the EMS server promise to their callers: a store *)
(* of events in creation order, on which create, reserve, show and list    *)
(* each take effect in ONE step, at some moment between the call and its   *)
(* return.  There are no locks here; ServerOps and LocalOps are shown to   *)
(* implement this module.                                                  *)
(***************************************************************************)
EXTENDS EventData, FiniteSets

CONSTANTS Threads,       \* the callers
          Requests,      \* the requests a caller may issue
          None,          \* no request
          AllocMayFail,  \* whether a create may fail for lack of memory
          TwiceRefused,  \* whether naming a seat twice makes a reserve fail
          SearchRaces    \* whether a create may miss an event it races with

VARIABLES store,  \* the events, in creation order
          req,    \* req[t]: the request caller t is waiting on, or None
          res     \* res[t]: the answer, NoAnswer until the request takes effect

vars == <<store, req, res>>

Init == /\ store = <<>>
        /\ req = [t \in Threads |-> None]
        /\ res = [t \in Threads |-> NoAnswer]

Call(t) == /\ req[t] = None
           /\ \E r \in Requests : req' = [req EXCEPT ![t] = r]
           /\ UNCHANGED <<store, res>>

Pending(t, op) == /\ req[t] # None
                  /\ req[t].op = op
                  /\ res[t] = NoAnswer
                  /\ UNCHANGED req

Answer(t, a) == res' = [res EXCEPT ![t] = a]

Create(t) ==
    /\ Pending(t, "create")
    /\ \/ /\ \/ Nodes(store, req[t].id) # {}
             \/ AllocMayFail
          /\ Answer(t, Failed)
          /\ UNCHANGED store
       \/ /\ \/ Nodes(store, req[t].id) = {}
             \/ SearchRaces
          /\ Answer(t, Ok)
          /\ store' = Append(store, NewEvent(req[t]))

Possible(e, seats) ==
    /\ InBounds(e, seats)
    /\ Free(e, seats)
    /\ TwiceRefused => Cardinality(Wanted(e, seats)) = Len(seats)

\* A reservation takes all its seats or none of them.
Reserve(t) ==
    /\ Pending(t, "reserve")
    /\ LET n == GetEvent(store, req[t].id)
           seats == req[t].seats
       IN  IF n # NULL /\ Possible(store[n], seats)
           THEN LET id == store[n].reservations + 1
                IN  /\ Answer(t, Ok)
                    /\ store' = [store EXCEPT ![n].reservations = id,
                                   ![n].data = [i \in DOMAIN @ |->
                                       IF i \in Wanted(store[n], seats)
                                       THEN id ELSE @[i]]]
           ELSE Answer(t, Failed) /\ UNCHANGED store

Show(t) ==
    /\ Pending(t, "show")
    /\ LET n == GetEvent(store, req[t].id)
       IN  Answer(t, IF n = NULL THEN Failed ELSE Snapshot(store[n]))
    /\ UNCHANGED store

List(t) ==
    /\ Pending(t, "list")
    /\ Answer(t, [ret |-> 0, num |-> Len(store),
                  ids |-> Ids(store, Len(store))])
    /\ UNCHANGED store

Return(t) == /\ res[t] # NoAnswer
             /\ req' = [req EXCEPT ![t] = None]
             /\ res' = [res EXCEPT ![t] = NoAnswer]
             /\ UNCHANGED store

Next == \E t \in Threads : \/ Call(t)
                           \/ Create(t)
                           \/ Reserve(t)
                           \/ Show(t)
                           \/ List(t)
                           \/ Return(t)

Spec == Init /\ [][Next]_vars

==============================================================================
