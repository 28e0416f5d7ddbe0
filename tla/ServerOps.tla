------------------------------ MODULE ServerOps ------------------------------
(***************************************************************************)
(* The operations of the EMS server, as its threads interleave them.       *)
(* Source: projeto2/server/operations.c and projeto2/server/eventlist.c.   *)
(*                                                                         *)
(* Session threads run ems_create, ems_reserve, ems_show and               *)
(* ems_list_events on behalf of their clients; the host thread runs        *)
(* ems_show_all when SIGUSR1 was received.  The shared state is the list   *)
(* of events, guarded by a pthread rwlock, and the contents of each event, *)
(* guarded by a mutex of its own.  A step goes from one access of shared   *)
(* state to the next one.                                                  *)
(***************************************************************************)
EXTENDS EventData, FiniteSets

CONSTANTS Threads,        \* the session threads
          Host,           \* the host thread
          NoThread,       \* the owner of a lock nobody holds
          Requests,       \* the requests clients may send
          None,           \* no request
          MaxCalls,       \* bound: requests served in all
          MaxShowAlls,    \* bound: SIGUSR1 reports in all
          AllocMayFail,   \* whether malloc, calloc and mutex_init may fail
          StdoutMayFail   \* whether a write to the server's stdout may fail

All == Threads \cup {Host}

ASSUME ThreadsAssumption ==
    /\ Host \notin Threads
    /\ NoThread \notin All
ASSUME RequestsAssumption == Requests \subseteq Request /\ None \notin Request
ASSUME BoundsAssumption == MaxCalls \in Nat /\ MaxShowAlls \in Nat
ASSUME FaultsAssumption == AllocMayFail \in BOOLEAN /\ StdoutMayFail \in BOOLEAN

VARIABLES
    list,      \* the event list: its nodes, from head to tail
    mutex,     \* mutex[n]: the thread that holds the mutex of node n's event
    writer,    \* the thread that holds the list lock for writing
    readers,   \* readers[t]: how often t holds the list lock for reading
    pc,        \* where each thread is
    req,       \* the request a session thread is serving
    res,       \* its answer, once decided
    ev,        \* the local `event' of a thread, a node or NULL
    rid,       \* the local `reservation_id' of ems_reserve
    seat,      \* the next coordinate ems_reserve assigns
    num,       \* the local `num_events' of ems_list_events
    current,   \* the local `current' of ems_show_all, a node or NULL
    shown,     \* what the running ems_show_all has printed so far
    calls,     \* requests received so far
    showAlls   \* ems_show_all calls so far

shared == <<list, mutex, writer, readers>>
locals == <<req, res, ev, rid, seat, num, current, shown>>
budget == <<calls, showAlls>>
vars   == <<shared, pc, locals, budget>>

Init ==
    /\ list = <<>>
    /\ mutex = <<>>
    /\ writer = NoThread
    /\ readers = [t \in All |-> 0]
    /\ pc = [t \in All |-> "idle"]
    /\ req = [t \in Threads |-> None]
    /\ res = [t \in Threads |-> NoAnswer]
    /\ ev = [t \in All |-> NULL]
    /\ rid = [t \in Threads |-> 0]
    /\ seat = [t \in Threads |-> 1]
    /\ num = [t \in Threads |-> 0]
    /\ current = NULL
    /\ shown = <<>>
    /\ calls = 0
    /\ showAlls = 0

------------------------------------------------------------------------------
(***************************************************************************)
(* The steps the operations share: a thread moves from one place to the    *)
(* next while it takes or drops a lock, or looks an event up.              *)
(***************************************************************************)
Go(t, from, to) == pc[t] = from /\ pc' = [pc EXCEPT ![t] = to]

Answer(t, a) == res' = [res EXCEPT ![t] = a]

TakeWrite(t, from, to) ==
    /\ Go(t, from, to)
    /\ writer = NoThread
    /\ \A u \in All : readers[u] = 0
    /\ writer' = t
    /\ UNCHANGED <<list, mutex, readers, locals, budget>>

DropWrite(t, from, to) ==
    /\ Go(t, from, to)
    /\ writer' = NoThread
    /\ UNCHANGED <<list, mutex, readers, locals, budget>>

\* A pending writer does not keep readers out: PTHREAD_RWLOCK_PREFER_READER_NP
\* is the default kind of a pthread rwlock.
TakeRead(t, from, to) ==
    /\ Go(t, from, to)
    /\ writer = NoThread
    /\ readers' = [readers EXCEPT ![t] = @ + 1]
    /\ UNCHANGED <<list, mutex, writer, locals, budget>>

DropRead(t, from, to) ==
    /\ Go(t, from, to)
    /\ readers' = [readers EXCEPT ![t] = @ - 1]
    /\ UNCHANGED <<list, mutex, writer, locals, budget>>

TakeMutex(t, from, to) ==
    /\ Go(t, from, to)
    /\ mutex[ev[t]] = NoThread
    /\ mutex' = [mutex EXCEPT ![ev[t]] = t]
    /\ UNCHANGED <<list, writer, readers, locals, budget>>

\* A default mutex is released whoever holds it.
DropMutex(t, from, to) ==
    /\ Go(t, from, to)
    /\ mutex' = [mutex EXCEPT ![ev[t]] = NoThread]
    /\ UNCHANGED <<list, writer, readers, locals, budget>>

\* get_event_with_delay under the read lock, for reserve and show.
Lookup(t, from, to) ==
    /\ Go(t, from, to)
    /\ ev' = [ev EXCEPT ![t] = GetEvent(list, req[t].id)]
    /\ UNCHANGED <<shared, req, res, rid, seat, num, current, shown,
                   budget>>

\* The read lock is dropped before the pointer is tested.
Found(t, from, to) ==
    /\ ev[t] # NULL
    /\ DropRead(t, from, to)

NotFound(t, from, to) ==
    /\ ev[t] = NULL
    /\ Go(t, from, to)
    /\ readers' = [readers EXCEPT ![t] = @ - 1]
    /\ Answer(t, Failed)
    /\ UNCHANGED <<list, mutex, writer, req, ev, rid, seat, num, current, shown,
                   budget>>

------------------------------------------------------------------------------
(***************************************************************************)
(* A session thread receives a request and, when the operation has         *)
(* returned, sends the answer and waits for the next request.              *)
(***************************************************************************)
Call(t) ==
    /\ calls < MaxCalls
    /\ \E r \in Requests : /\ Go(t, "idle", r.op)
                           /\ req' = [req EXCEPT ![t] = r]
    /\ calls' = calls + 1
    /\ UNCHANGED <<shared, res, ev, rid, seat, num, current, shown, showAlls>>

Return(t) ==
    /\ Go(t, "return", "idle")
    /\ req' = [req EXCEPT ![t] = None]
    /\ res' = [res EXCEPT ![t] = NoAnswer]
    /\ ev' = [ev EXCEPT ![t] = NULL]
    /\ rid' = [rid EXCEPT ![t] = 0]
    /\ seat' = [seat EXCEPT ![t] = 1]
    /\ num' = [num EXCEPT ![t] = 0]
    /\ UNCHANGED <<shared, current, shown, budget>>

------------------------------------------------------------------------------
(***************************************************************************)
(* ems_create: everything happens under the write lock.                    *)
(***************************************************************************)
\* Mutated form: the search runs under no lock, as if it were a reader's.
CreateNoLock(t) ==
    /\ Go(t, "create", "createLookup")
    /\ UNCHANGED <<shared, locals, budget>>

\* Mutated form: a writer does not wait for the readers to leave.
CreateLockBesideReaders(t) ==
    /\ Go(t, "create", "createLookup")
    /\ writer = NoThread
    /\ writer' = t
    /\ UNCHANGED <<list, mutex, readers, locals, budget>>

CreateLock(t) == TakeWrite(t, "create", "createLookup")

CreateLookup(t) ==
    LET exists == GetEvent(list, req[t].id) # NULL
    IN  /\ Go(t, "createLookup", IF exists THEN "createUnlock"
                                           ELSE "createAppend")
        /\ IF exists THEN Answer(t, Failed) ELSE UNCHANGED res
        /\ UNCHANGED <<shared, req, ev, rid, seat, num, current, shown, budget>>

CreateNoMemory(t) ==
    /\ AllocMayFail
    /\ Go(t, "createAppend", "createUnlock")
    /\ Answer(t, Failed)
    /\ UNCHANGED <<shared, req, ev, rid, seat, num, current, shown, budget>>

CreateAppend(t) ==
    /\ Go(t, "createAppend", "createUnlock")
    /\ list' = Append(list, NewEvent(req[t]))
    /\ mutex' = Append(mutex, NoThread)
    /\ Answer(t, Ok)
    /\ UNCHANGED <<writer, readers, req, ev, rid, seat, num, current, shown,
                   budget>>

CreateUnlock(t) == DropWrite(t, "createUnlock", "return")

------------------------------------------------------------------------------
(***************************************************************************)
(* ems_reserve: the event is found under the read lock, and used after     *)
(* that lock was dropped, under the mutex of the event.                    *)
(***************************************************************************)
ReserveRdLock(t)   == TakeRead(t, "reserve", "reserveLookup")
ReserveLookup(t)   == Lookup(t, "reserveLookup", "reserveRdUnlock")
ReserveFound(t)    == Found(t, "reserveRdUnlock", "reserveMutex")
ReserveNotFound(t) == NotFound(t, "reserveRdUnlock", "return")

\* Mutated form: the seats are checked before the mutex is taken.
ReserveNoMutex(t) ==
    /\ Go(t, "reserveMutex", "reserveCheck")
    /\ UNCHANGED <<shared, locals, budget>>

ReserveMutex(t) == TakeMutex(t, "reserveMutex", "reserveCheck")

\* Mutated form: a reservation that is refused keeps the mutex.
ReserveCheckKeepsMutex(t) ==
    LET e == list[ev[t]]
        possible == InBounds(e, req[t].seats) /\ Free(e, req[t].seats)
    IN  /\ Go(t, "reserveCheck", IF possible THEN "reserveNumber" ELSE "return")
        /\ IF possible THEN UNCHANGED res ELSE Answer(t, Failed)
        /\ UNCHANGED <<shared, req, ev, rid, seat, num, current, shown, budget>>

ReserveCheck(t) ==
    LET e == list[ev[t]]
        possible == InBounds(e, req[t].seats) /\ Free(e, req[t].seats)
    IN  /\ Go(t, "reserveCheck", IF possible THEN "reserveNumber"
                                             ELSE "reserveUnlock")
        /\ IF possible THEN UNCHANGED res ELSE Answer(t, Failed)
        /\ UNCHANGED <<shared, req, ev, rid, seat, num, current, shown, budget>>

\* The answer is decided here: nothing after this point can fail.
ReserveNumber(t) ==
    /\ Go(t, "reserveNumber", "reserveAssign")
    /\ list' = [list EXCEPT ![ev[t]].reservations = @ + 1]
    /\ rid' = [rid EXCEPT ![t] = list[ev[t]].reservations + 1]
    /\ Answer(t, Ok)
    /\ UNCHANGED <<mutex, writer, readers, req, ev, seat, num, current, shown,
                   budget>>

\* One seat at a time, in the order of the request.  A request has a seat.
ReserveAssign(t) ==
    /\ Go(t, "reserveAssign", IF seat[t] < Len(req[t].seats)
                              THEN "reserveAssign" ELSE "reserveUnlock")
    /\ LET e == list[ev[t]]
           c == req[t].seats[seat[t]]
       IN  list' = [list EXCEPT ![ev[t]].data[SeatIndex(e, c[1], c[2])] =
                        rid[t]]
    /\ seat' = [seat EXCEPT ![t] = @ + 1]
    /\ UNCHANGED <<mutex, writer, readers, req, res, ev, rid, num, current,
                   shown, budget>>

ReserveUnlock(t) == DropMutex(t, "reserveUnlock", "return")

------------------------------------------------------------------------------
(***************************************************************************)
(* ems_show: as ems_reserve, the seats are copied under the mutex.  The    *)
(* answer is sent from the copy, after the mutex was dropped.              *)
(***************************************************************************)
ShowRdLock(t)   == TakeRead(t, "show", "showLookup")
ShowLookup(t)   == Lookup(t, "showLookup", "showRdUnlock")
ShowFound(t)    == Found(t, "showRdUnlock", "showMutex")
ShowNotFound(t) == NotFound(t, "showRdUnlock", "return")

\* Mutated form: the seats are copied without the mutex.
ShowNoMutex(t) ==
    /\ Go(t, "showMutex", "showCopy")
    /\ UNCHANGED <<shared, locals, budget>>

ShowMutex(t) == TakeMutex(t, "showMutex", "showCopy")

ShowCopy(t) ==
    /\ Go(t, "showCopy", "showUnlock")
    /\ Answer(t, Snapshot(list[ev[t]]))
    /\ UNCHANGED <<shared, req, ev, rid, seat, num, current, shown, budget>>

ShowUnlock(t) == DropMutex(t, "showUnlock", "return")

------------------------------------------------------------------------------
(***************************************************************************)
(* ems_list_events: the nodes are counted, the count is sent, and the      *)
(* identifiers are collected in a second walk, all under the read lock.    *)
(***************************************************************************)
ListRdLock(t) == TakeRead(t, "list", "listCount")

ListCount(t) ==
    /\ Go(t, "listCount", "listIds")
    /\ num' = [num EXCEPT ![t] = Len(list)]
    /\ UNCHANGED <<shared, req, res, ev, rid, seat, current, shown, budget>>

ListIds(t) ==
    /\ Go(t, "listIds", "listUnlock")
    /\ Answer(t, [ret |-> 0, num |-> num[t], ids |-> Ids(list, num[t])])
    /\ UNCHANGED <<shared, req, ev, rid, seat, num, current, shown, budget>>

ListRdUnlock(t) == DropRead(t, "listUnlock", "return")

------------------------------------------------------------------------------
(***************************************************************************)
(* ems_show_all: the host walks the list under the read lock and prints    *)
(* the events one by one, each under its mutex.                            *)
(***************************************************************************)
\* Mutated form: the walk runs past the tail.
NextNodePastTail(n) == IF n <= Len(list) THEN n + 1 ELSE NULL

\* Mutated form: the walk stops before the tail.
NextNodeBeforeTail(n) == IF n + 1 < Len(list) THEN n + 1 ELSE NULL

NextNode(n) == IF n < Len(list) THEN n + 1 ELSE NULL

ShowAll ==
    /\ showAlls < MaxShowAlls
    /\ Go(Host, "idle", "all")
    /\ showAlls' = showAlls + 1
    /\ shown' = <<>>
    /\ UNCHANGED <<shared, req, res, ev, rid, seat, num, current, calls>>

AllRdLock ==
    /\ Go(Host, "all", "allNode")
    /\ writer = NoThread
    /\ readers' = [readers EXCEPT ![Host] = @ + 1]
    /\ current' = IF list = <<>> THEN NULL ELSE 1
    /\ UNCHANGED <<list, mutex, writer, req, res, ev, rid, seat, num, shown,
                   budget>>

\* The event of a node is searched for by its identifier.  The branch for an
\* event that is not found leaves the list lock behind.
AllLookup ==
    /\ current # NULL
    /\ ev' = [ev EXCEPT ![Host] = GetEvent(list, list[current].id)]
    /\ Go(Host, "allNode", IF ev'[Host] = NULL THEN "idle" ELSE "allMutex")
    /\ UNCHANGED <<shared, req, res, rid, seat, num, current, shown, budget>>

AllMutex == TakeMutex(Host, "allMutex", "allPrint")

\* The identifier of the node and the seats of the event that was found for it.
AllPrint ==
    /\ Go(Host, "allPrint", "allUnlock")
    /\ shown' = Append(shown, [id |-> list[current].id,
                              data |-> list[ev[Host]].data])
    /\ UNCHANGED <<shared, req, res, ev, rid, seat, num, current, budget>>

\* Mutated form: the mutex is not released either.
AllPrintFailsKeepsMutex ==
    /\ StdoutMayFail
    /\ Go(Host, "allPrint", "idle")
    /\ UNCHANGED <<shared, locals, budget>>

\* A write fails while the seats are printed: the mutex is released, the list
\* lock is not.
AllPrintFails ==
    /\ StdoutMayFail
    /\ DropMutex(Host, "allPrint", "idle")

AllUnlock == DropMutex(Host, "allUnlock", "allNewline")

AllNewline ==
    /\ Go(Host, "allNewline", "allNode")
    /\ current' = NextNode(current)
    /\ UNCHANGED <<shared, req, res, ev, rid, seat, num, shown, budget>>

\* The write of the empty line fails: the mutex, which the host released
\* already, is released again, and the list lock is not.
AllNewlineFails ==
    /\ StdoutMayFail
    /\ DropMutex(Host, "allNewline", "idle")

AllRdUnlock ==
    /\ current = NULL
    /\ DropRead(Host, "allNode", "idle")

------------------------------------------------------------------------------
CreateStep(t) == \/ CreateLock(t)
                 \/ CreateLookup(t)
                 \/ CreateNoMemory(t)
                 \/ CreateAppend(t)
                 \/ CreateUnlock(t)

ReserveStep(t) == \/ ReserveRdLock(t)
                  \/ ReserveLookup(t)
                  \/ ReserveFound(t)
                  \/ ReserveNotFound(t)
                  \/ ReserveMutex(t)
                  \/ ReserveCheck(t)
                  \/ ReserveNumber(t)
                  \/ ReserveAssign(t)
                  \/ ReserveUnlock(t)

ShowStep(t) == \/ ShowRdLock(t)
               \/ ShowLookup(t)
               \/ ShowFound(t)
               \/ ShowNotFound(t)
               \/ ShowMutex(t)
               \/ ShowCopy(t)
               \/ ShowUnlock(t)

ListStep(t) == \/ ListRdLock(t)
               \/ ListCount(t)
               \/ ListIds(t)
               \/ ListRdUnlock(t)

\* What a session thread does on its own once it has a request.
Serve(t) == \/ CreateStep(t)
            \/ ReserveStep(t)
            \/ ShowStep(t)
            \/ ListStep(t)
            \/ Return(t)

\* What the host does on its own once ems_show_all was called.
Report == \/ AllRdLock
          \/ AllLookup
          \/ AllMutex
          \/ AllPrint
          \/ AllPrintFails
          \/ AllUnlock
          \/ AllNewline
          \/ AllNewlineFails
          \/ AllRdUnlock

\* All bounded requests were served: the server waits for more.
Quiet == /\ \A t \in All : pc[t] = "idle"
         /\ calls = MaxCalls
         /\ showAlls = MaxShowAlls
         /\ UNCHANGED vars

Next == \/ \E t \in Threads : Call(t) \/ Serve(t)
        \/ ShowAll
        \/ Report
        \/ Quiet

Spec == Init /\ [][Next]_vars

\* The scheduler runs every thread that can run.  Requests keep no fairness:
\* a client may send none.
FairSpec == /\ Spec
            /\ \A t \in Threads : WF_vars(Serve(t))
            /\ WF_vars(Report)

------------------------------------------------------------------------------
(***************************************************************************)
(* Properties.                                                             *)
(***************************************************************************)
SessionPlaces ==
    {"idle", "return", "create", "createLookup", "createAppend",
     "createUnlock", "reserve", "reserveLookup", "reserveRdUnlock",
     "reserveMutex", "reserveCheck", "reserveNumber", "reserveAssign",
     "reserveUnlock", "show", "showLookup", "showRdUnlock", "showMutex",
     "showCopy", "showUnlock", "list", "listCount", "listIds", "listUnlock"}

HostPlaces ==
    {"idle", "all", "allNode", "allMutex", "allPrint", "allUnlock",
     "allNewline"}

Pointers == DOMAIN list \cup {NULL}

\* Every variable has its type: events keep a data array of the size they were
\* created with, pointers point at nodes of the list or are NULL, and each
\* node has a mutex of its own.
TypeOK ==
    /\ \A n \in DOMAIN list : IsEvent(list[n])
    /\ mutex \in Seq(All \cup {NoThread})
    /\ Len(mutex) = Len(list)
    /\ writer \in Threads \cup {NoThread}
    /\ readers \in [All -> Nat]
    /\ pc \in [All -> SessionPlaces \cup HostPlaces]
    /\ \A t \in Threads : pc[t] \in SessionPlaces
    /\ pc[Host] \in HostPlaces
    /\ req \in [Threads -> Requests \cup {None}]
    /\ DOMAIN res = Threads
    /\ ev \in [All -> Pointers]
    /\ rid \in [Threads -> Nat]
    /\ seat \in [Threads -> Nat \ {0}]
    /\ num \in [Threads -> 0 .. Len(list)]
    /\ current \in Pointers
    /\ calls \in 0 .. MaxCalls
    /\ showAlls \in 0 .. MaxShowAlls

\* ems_create never lets two events with one identifier into the list: the
\* search and the append happen under one hold of the write lock.
UniqueIds == \A m, n \in DOMAIN list : list[m].id = list[n].id => m = n

\* d is what the seats of event e were after its first k reservations.
AfterReservations(d, e, k) ==
    d = [i \in DOMAIN e.data |-> IF e.data[i] <= k THEN e.data[i] ELSE 0]

Past(d, e) == \E k \in 0 .. e.reservations : AfterReservations(d, e, k)

\* What SHOW answers, and what ems_show_all prints of an event, is a state that
\* the event was in after some whole number of reservations: no copy catches a
\* reservation that has assigned some of its seats and not the others.
SnapshotIsHistory ==
    /\ \A t \in Threads :
         pc[t] = "return" /\ req[t].op = "show" /\ res[t] # Failed
            => Past(res[t].data, list[ev[t]])
    /\ \A n \in DOMAIN shown : Past(shown[n].data, list[n])

\* Nobody loses a reservation that was confirmed: while no thread is inside an
\* event, the numbers on its seats are exactly those of its reservations.
ReservationsAccounted ==
    \A n \in DOMAIN list :
        mutex[n] = NoThread =>
            {list[n].data[i] : i \in DOMAIN list[n].data} \ {0}
                = 1 .. list[n].reservations

\* A thread that has left its operation holds no lock, whichever return
\* statement it left by.
LocksReleased ==
    \A t \in All :
        pc[t] \in {"idle", "return"} =>
            /\ writer # t
            /\ readers[t] = 0
            /\ \A n \in DOMAIN mutex : mutex[n] # t

\* The identifiers that a report has printed when it is through are those of the
\* list, each in its place: no event is left out, printed twice or out of order,
\* although the report lets go of each event before it takes the next one.
ShowAllComplete ==
    pc[Host] = "allNode" /\ current = NULL =>
        [n \in DOMAIN shown |-> shown[n].id] = Ids(list, Len(list))

\* A seat that was reserved keeps its reservation: no later or concurrent
\* ems_reserve hands it to somebody else.
SeatsPermanent ==
    [][\A n \in DOMAIN list : \A i \in DOMAIN list[n].data :
          list[n].data[i] # 0 => list'[n].data[i] = list[n].data[i]]_vars

\* Every request a session thread has received is answered: no lock is kept by
\* a thread that will not give it up.
CallsReturn == \A t \in Threads : req[t] # None ~> req[t] = None

\* The host has left ems_show_all and still holds the list lock for reading.
ListLeft == pc[Host] = "idle" /\ readers[Host] > 0

\* Every request is answered as long as ems_show_all does not fail on the way:
\* no other return statement leaves a lock behind that somebody waits for.
CallsReturnUnlessLeft ==
    \A t \in Threads : req[t] # None ~> (req[t] = None \/ ListLeft)

\* A reserve, show or list is answered even after ems_show_all failed and kept
\* the list locked for reading: only creates wait for that lock.
ReadersReturn ==
    \A t \in Threads :
        (req[t] # None /\ req[t].op # "create") ~> req[t] = None

\* A thread that cannot go on before some other thread has moved.
Waits(t) ==
    \/ pc[t] = "create" /\ (writer # NoThread \/ \E u \in All : readers[u] # 0)
    \/ pc[t] \in {"reserve", "show", "list", "all"} /\ writer # NoThread
    \/ /\ pc[t] \in {"reserveMutex", "showMutex", "allMutex"}
       /\ mutex[ev[t]] # NoThread

\* The operations never wait for each other in a circle: when every thread that
\* is inside one waits, they are all in ems_create, and wait for the list lock
\* that a failed ems_show_all has kept.
StuckOnlyIfLeft ==
    LET busy == {t \in All : pc[t] # "idle"}
    IN  busy # {} /\ (\A t \in busy : Waits(t))
            => ListLeft /\ \A t \in busy : pc[t] = "create"

------------------------------------------------------------------------------
(***************************************************************************)
(* The inductive invariant: which locks a thread holds at each place, that *)
(* the pointer it uses there is one to a node, and what the search of      *)
(* ems_create has found.  It holds whether or not stdout fails.            *)
(***************************************************************************)
WritePlaces     == {"createLookup", "createAppend", "createUnlock"}
CreatePlaces    == {"create"} \cup WritePlaces
ReadPlaces      == {"reserveLookup", "reserveRdUnlock", "showLookup",
                    "showRdUnlock", "listCount", "listIds", "listUnlock"}
HostReadPlaces  == {"allNode", "allMutex", "allPrint", "allUnlock",
                    "allNewline"}
EventPlaces     == {"reserveMutex", "reserveCheck", "reserveNumber",
                    "reserveAssign", "reserveUnlock", "showMutex", "showCopy",
                    "showUnlock"}
HostEventPlaces == {"allMutex", "allPrint", "allUnlock", "allNewline"}

RequestInv ==
    \A t \in Threads : pc[t] \in CreatePlaces => req[t] \in CreateRequest

WriterInv ==
    /\ \A t \in Threads : writer = t <=> pc[t] \in WritePlaces
    /\ writer # NoThread => \A t \in All : readers[t] = 0

ReaderInv ==
    /\ \A t \in Threads : readers[t] = IF pc[t] \in ReadPlaces THEN 1 ELSE 0
    /\ pc[Host] \in HostReadPlaces => readers[Host] > 0

PointerInv ==
    /\ \A t \in Threads : pc[t] \in EventPlaces => ev[t] # NULL
    /\ pc[Host] \in HostEventPlaces => ev[Host] # NULL

SearchInv ==
    \A t \in Threads :
        pc[t] = "createAppend" => Nodes(list, req[t].id) = {}

\* The list lock excludes writers from each other and from readers, and no
\* event is appended but under it, after a search that found no such event.
IInv == /\ TypeOK
        /\ RequestInv
        /\ WriterInv
        /\ ReaderInv
        /\ PointerInv
        /\ SearchInv
        /\ UniqueIds

------------------------------------------------------------------------------
(***************************************************************************)
(* The second invariant: who holds the mutex of an event, and what a       *)
(* reservation knows of its seats while it does.  It holds as long as      *)
(* stdout does not fail.                                                   *)
(***************************************************************************)
ReservePlaces == {"reserve", "reserveLookup", "reserveRdUnlock", "reserveMutex",
                  "reserveCheck", "reserveNumber", "reserveAssign",
                  "reserveUnlock"}
SeatOnePlaces == {"idle"} \cup (ReservePlaces \ {"reserveAssign",
                                                 "reserveUnlock"})
TakingPlaces  == {"reserveNumber", "reserveAssign"}
MutexPlaces   == TakingPlaces \cup {"reserveCheck", "reserveUnlock", "showCopy",
                                   "showUnlock", "allPrint", "allUnlock"}

\* Whoever has a mutex is inside that event.  This half of MutexInv holds even if
\* stdout fails and ems_show_all releases a mutex that it does not have.
HoldersInv ==
    \A n \in DOMAIN mutex :
        mutex[n] # NoThread => pc[mutex[n]] \in MutexPlaces /\ ev[mutex[n]] = n

MutexInv ==
    \A t \in All : \A n \in DOMAIN mutex :
        mutex[n] = t <=> (pc[t] \in MutexPlaces /\ ev[t] = n)

HostReaderInv ==
    readers[Host] = IF pc[Host] \in HostReadPlaces THEN 1 ELSE 0

\* A seat that t is about to take is free, or t has taken it already: a request
\* may name a seat twice.
SeatsOf(t) ==
    /\ pc[t] \in ReservePlaces => req[t] \in ReserveRequest
    /\ pc[t] \in SeatOnePlaces => seat[t] = 1
    /\ pc[t] \in TakingPlaces =>
          /\ seat[t] \in DOMAIN req[t].seats
          /\ InBounds(list[ev[t]], req[t].seats)
          /\ \A i \in Wanted(list[ev[t]], req[t].seats) :
                \/ list[ev[t]].data[i] = 0
                \/ pc[t] = "reserveAssign" /\ list[ev[t]].data[i] = rid[t]

\* A thread has the mutex of its event to itself from the check of the seats to
\* the last one it takes, and none of them is taken by anybody else meanwhile.
SaleInv == /\ MutexInv
           /\ HostReaderInv
           /\ \A t \in Threads : SeatsOf(t)

------------------------------------------------------------------------------
(***************************************************************************)
(* Refinement.  A reservation takes effect when it gets its number: from   *)
(* then on the abstract store shows all its seats as taken, the ones that  *)
(* the loop has not reached yet as well.                                   *)
(***************************************************************************)
Assigning(n, i) ==
    {t \in Threads : /\ pc[t] = "reserveAssign"
                     /\ ev[t] = n
                     /\ i \in Wanted(list[n], req[t].seats)}

Store ==
    [n \in 1 .. Len(list) |->
        [list[n] EXCEPT !.data = [i \in DOMAIN @ |->
            IF Assigning(n, i) = {} THEN @[i] ELSE list[n].reservations]]]

Abstract == INSTANCE EventStore
                WITH store <- Store, TwiceRefused <- FALSE, SearchRaces <- FALSE

\* The operations, with all their locks and steps, do what EventStore promises:
\* each takes effect at one moment between its call and its return.
AbstractSpec == Abstract!Spec

------------------------------------------------------------------------------
(***************************************************************************)
(* The third invariant: why AbstractSpec and the properties of answers and *)
(* reports hold, as long as stdout does not fail.                          *)
(***************************************************************************)
ShowPlaces    == {"show", "showLookup", "showRdUnlock", "showMutex", "showCopy",
                  "showUnlock"}
ListPlaces    == {"list", "listCount", "listIds", "listUnlock"}
DecidedPlaces == {"return", "createUnlock", "reserveAssign", "reserveUnlock",
                  "showUnlock", "listUnlock"}
FoundPlaces   == {"reserveRdUnlock", "showRdUnlock"} \cup EventPlaces

\* A thread is inside the operation it was asked for, it has an answer from the
\* step on that decides it, and what it found in the list is still there.
CallOf(t) ==
    /\ pc[t] = "idle" <=> req[t] = None
    /\ pc[t] \in CreatePlaces => req[t].op = "create"
    /\ pc[t] \in ReservePlaces => req[t].op = "reserve"
    /\ pc[t] \in ShowPlaces => req[t].op = "show"
    /\ pc[t] \in ListPlaces => req[t].op = "list"
    /\ res[t] # NoAnswer <=> pc[t] \in DecidedPlaces
    /\ pc[t] \in FoundPlaces => ev[t] = GetEvent(list, req[t].id)
    /\ pc[t] = "listIds" => num[t] = Len(list)

\* The reservation under way is the last one of its event, and the seats that
\* the loop has passed carry its number.
AssignedOf(t) ==
    pc[t] = "reserveAssign" =>
        LET e == list[ev[t]]
            s == req[t].seats
        IN  /\ rid[t] = e.reservations
            /\ \A k \in DOMAIN s :
                  k < seat[t] => e.data[SeatIndex(e, s[k][1], s[k][2])] = rid[t]

\* The reservations of an event that have all their seats.
Settled(n) ==
    IF \E t \in Threads : pc[t] = "reserveAssign" /\ ev[t] = n
    THEN list[n].reservations - 1 ELSE list[n].reservations

\* d is what the seats of event n were after reservations that are settled.
SettledPast(d, n) == \E k \in 0 .. Settled(n) : AfterReservations(d, list[n], k)

CopyOf(t) ==
    pc[t] \in {"showUnlock", "return"} /\ req[t].op = "show" /\ res[t] # Failed
        => ev[t] \in DOMAIN list /\ SettledPast(res[t].data, ev[t])

ReportInv ==
    /\ Len(shown) <= Len(list)
    /\ \A n \in DOMAIN shown : /\ shown[n].id = list[n].id
                               /\ SettledPast(shown[n].data, n)
    /\ pc[Host] = "all" => shown = <<>>
    /\ pc[Host] = "allNode" =>
          Len(shown) = IF current = NULL THEN Len(list) ELSE current - 1
    /\ pc[Host] \in HostEventPlaces => current # NULL
    /\ pc[Host] \in {"allMutex", "allPrint"} =>
          Len(shown) = current - 1 /\ ev[Host] = current
    /\ pc[Host] \in {"allUnlock", "allNewline"} => Len(shown) = current

\* The numbers of the reservations that have happened are on seats.
StoreNumbered ==
    \A n \in DOMAIN list :
        {Store[n].data[i] : i \in DOMAIN list[n].data} \ {0}
            = 1 .. list[n].reservations

StoreInv == /\ SaleInv
            /\ \A t \in Threads : CallOf(t) /\ AssignedOf(t) /\ CopyOf(t)
            /\ StoreNumbered
            /\ ReportInv

==============================================================================
