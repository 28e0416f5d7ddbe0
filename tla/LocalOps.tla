------------------------------ MODULE LocalOps -------------------------------
(***************************************************************************)
(* The operations of projeto1, as the threads of one process interleave    *)
(* them.  Source: projeto1/operations.c and projeto1/eventlist.c.          *)
(*                                                                         *)
(* They differ from the server's: ems_create searches the list under its   *)
(* read lock and appends under its write lock, an event has a rwlock, a    *)
(* reservation takes its seats while it checks them and gives them back if *)
(* one is not free, and SHOW and LIST print to one output file that the    *)
(* threads share, item by item, under a mutex.                             *)
(***************************************************************************)
EXTENDS EventData, FiniteSets

CONSTANTS Threads,      \* the threads
          NoThread,     \* the owner of a lock nobody holds
          Requests,     \* the operations the threads may be asked for
          None,         \* no request
          AllocMayFail  \* whether malloc may fail

ASSUME ThreadsAssumption == IsFiniteSet(Threads) /\ NoThread \notin Threads
ASSUME RequestsAssumption == Requests \subseteq Request /\ None \notin Request
ASSUME FaultsAssumption == AllocMayFail \in BOOLEAN

VARIABLES
    list,         \* the event list: its nodes, from head to tail
    writer,       \* the thread that holds the list lock for writing
    readers,      \* how often the list lock is held for reading
    eventWriter,  \* eventWriter[n]: who holds the lock of event n for writing
    eventReaders, \* eventReaders[n]: the threads that hold it for reading
    printer,      \* the thread that holds the mutex of the output file
    out,          \* the output file: what was printed, item by item
    pc,           \* where each thread is
    req,          \* the operation it runs
    res,          \* its answer, NoAnswer until decided
    ev,           \* the local `event', a node or NULL
    rid,          \* the local `reservation_id' of ems_reserve
    i             \* the local loop counter, from 1

state  == <<list, eventWriter, eventReaders>>
locks  == <<writer, readers>>
output == <<printer, out>>
locals == <<ev, rid, i>>
ops    == <<state, locks, output, pc, req, res, locals>>

OpsInit ==
    /\ list = <<>> /\ eventWriter = <<>> /\ eventReaders = <<>>
    /\ writer = NoThread /\ readers = 0
    /\ printer = NoThread /\ out = <<>>
    /\ pc  = [t \in Threads |-> "idle"]
    /\ req = [t \in Threads |-> None]
    /\ res = [t \in Threads |-> NoAnswer]
    /\ ev  = [t \in Threads |-> NULL]
    /\ rid = [t \in Threads |-> 0]
    /\ i   = [t \in Threads |-> 1]

------------------------------------------------------------------------------
Go(t, from, to) == pc[t] = from /\ pc' = [pc EXCEPT ![t] = to] /\ UNCHANGED req

Answer(t, a) == res' = [res EXCEPT ![t] = a]

RdLock(t, from, to) ==
    /\ Go(t, from, to)
    /\ writer = NoThread
    /\ readers' = readers + 1
    /\ UNCHANGED <<state, writer, output, res, locals>>

RdUnlock(t, from, to) ==
    /\ Go(t, from, to)
    /\ readers' = readers - 1
    /\ UNCHANGED <<state, writer, output, res, locals>>

\* get_event_with_delay, under the read lock.
Lookup(t, from, to) ==
    /\ Go(t, from, to)
    /\ ev' = [ev EXCEPT ![t] = GetEvent(list, req[t].id)]
    /\ UNCHANGED <<state, locks, output, res, rid, i>>

Found(t, from, to) == ev[t] # NULL /\ RdUnlock(t, from, to)

NotFound(t, from) ==
    /\ ev[t] = NULL
    /\ Go(t, from, "return")
    /\ readers' = readers - 1
    /\ Answer(t, Failed)
    /\ UNCHANGED <<state, writer, output, locals>>

TakeOutput(t, from, to) ==
    /\ Go(t, from, to)
    /\ printer = NoThread
    /\ printer' = t
    /\ UNCHANGED <<state, locks, out, res, locals>>

DropOutput(t, from) ==
    /\ Go(t, from, "return")
    /\ printer' = NoThread
    /\ UNCHANGED <<state, locks, out, res, locals>>

PrintItem(t, item) == out' = Append(out, item) /\ i' = [i EXCEPT ![t] = @ + 1]

\* The item printed k before the end of the output.
Printed(k) == out[Len(out) - k]

Begin(t, r) ==
    /\ pc[t] = "idle"
    /\ pc'  = [pc EXCEPT ![t] = r.op]
    /\ req' = [req EXCEPT ![t] = r]
    /\ UNCHANGED <<state, locks, output, res, locals>>

Return(t) ==
    /\ pc[t] = "return"
    /\ pc'  = [pc EXCEPT ![t] = "idle"]
    /\ req' = [req EXCEPT ![t] = None]
    /\ res' = [res EXCEPT ![t] = NoAnswer]
    /\ ev'  = [ev EXCEPT ![t] = NULL]
    /\ rid' = [rid EXCEPT ![t] = 0]
    /\ i'   = [i EXCEPT ![t] = 1]
    /\ UNCHANGED <<state, locks, output>>

------------------------------------------------------------------------------
(***************************************************************************)
(* ems_create.  When the event exists, it returns without giving the read  *)
(* lock of the list back.  When it does not, the lock is let go between    *)
(* the search and the append.                                              *)
(***************************************************************************)
CreateRdLock(t) == RdLock(t, "create", "createLookup")

CreateLookup(t) ==
    LET exists == GetEvent(list, req[t].id) # NULL
    IN  /\ Go(t, "createLookup", IF exists THEN "return" ELSE "createRdUnlock")
        /\ IF exists THEN Answer(t, Failed) ELSE UNCHANGED res
        /\ UNCHANGED <<state, locks, output, locals>>

CreateRdUnlock(t) == RdUnlock(t, "createRdUnlock", "createWrLock")

\* Mutated form: the event is appended under a read lock.
CreateWrLockBesideReaders(t) ==
    /\ Go(t, "createWrLock", "createAppend")
    /\ writer = NoThread
    /\ writer' = t
    /\ UNCHANGED <<state, readers, output, res, locals>>

CreateWrLock(t) ==
    /\ Go(t, "createWrLock", "createAppend")
    /\ writer = NoThread
    /\ readers = 0
    /\ writer' = t
    /\ UNCHANGED <<state, readers, output, res, locals>>

\* No memory for the seats or for the node.
CreateNoMemory(t) ==
    /\ AllocMayFail
    /\ Go(t, "createAppend", "createUnlock")
    /\ Answer(t, Failed)
    /\ UNCHANGED <<state, locks, output, locals>>

CreateAppend(t) ==
    /\ Go(t, "createAppend", "createUnlock")
    /\ list' = Append(list, NewEvent(req[t]))
    /\ eventWriter' = Append(eventWriter, NoThread)
    /\ eventReaders' = Append(eventReaders, {})
    /\ Answer(t, Ok)
    /\ UNCHANGED <<locks, output, locals>>

CreateUnlock(t) ==
    /\ Go(t, "createUnlock", "return")
    /\ writer' = NoThread
    /\ UNCHANGED <<state, readers, output, res, locals>>

------------------------------------------------------------------------------
(***************************************************************************)
(* ems_reserve.  The number of the reservation is taken first; the loop    *)
(* takes a seat or stops at the first one that is not there or not free,   *)
(* and then the seats before it and the number are given back.  (The       *)
(* nobody-sees-it steps of giving back are one step: they are all under    *)
(* the write lock of the event.)                                           *)
(***************************************************************************)
ReserveRdLock(t)   == RdLock(t, "reserve", "reserveLookup")
ReserveLookup(t)   == Lookup(t, "reserveLookup", "reserveRdUnlock")
ReserveFound(t)    == Found(t, "reserveRdUnlock", "reserveWrLock")
ReserveNotFound(t) == NotFound(t, "reserveRdUnlock")

ReserveWrLock(t) ==
    /\ Go(t, "reserveWrLock", "reserveNumber")
    /\ eventWriter[ev[t]] = NoThread
    /\ eventReaders[ev[t]] = {}
    /\ eventWriter' = [eventWriter EXCEPT ![ev[t]] = t]
    /\ UNCHANGED <<list, eventReaders, locks, output, res, locals>>

ReserveNumber(t) ==
    /\ Go(t, "reserveNumber", "reserveSeat")
    /\ list' = [list EXCEPT ![ev[t]].reservations = @ + 1]
    /\ rid' = [rid EXCEPT ![t] = list[ev[t]].reservations + 1]
    /\ UNCHANGED <<eventWriter, eventReaders, locks, output, res, ev, i>>

Seats(t) == req[t].seats
SeatAt(t, k) == SeatIndex(list[ev[t]], Seats(t)[k][1], Seats(t)[k][2])

\* The next coordinate is a seat of the event, and nobody has it.
SeatFree(t) ==
    /\ InBounds(list[ev[t]], <<Seats(t)[i[t]]>>)
    /\ list[ev[t]].data[SeatAt(t, i[t])] = 0

ReserveSeat(t) ==
    /\ Go(t, "reserveSeat", "reserveSeat")
    /\ i[t] <= Len(Seats(t))
    /\ SeatFree(t)
    /\ list' = [list EXCEPT ![ev[t]].data[SeatAt(t, i[t])] = rid[t]]
    /\ i' = [i EXCEPT ![t] = @ + 1]
    /\ UNCHANGED <<eventWriter, eventReaders, locks, output, res, ev, rid>>

ReserveDone(t) ==
    /\ Go(t, "reserveSeat", "reserveUnlock")
    /\ i[t] > Len(Seats(t))
    /\ Answer(t, Ok)
    /\ UNCHANGED <<state, locks, output, locals>>

\* Mutated form: the loop over j starts at the seat after the first.
RollbackKeepsFirst(t) ==
    /\ Go(t, "reserveSeat", "reserveUnlock")
    /\ i[t] <= Len(Seats(t))
    /\ ~SeatFree(t)
    /\ LET taken == {SeatAt(t, k) : k \in 2 .. i[t] - 1}
       IN  list' = [list EXCEPT ![ev[t]].reservations = @ - 1,
                                ![ev[t]].data = [s \in DOMAIN @ |->
                                     IF s \in taken THEN 0 ELSE @[s]]]
    /\ Answer(t, Failed)
    /\ UNCHANGED <<eventWriter, eventReaders, locks, output, locals>>

ReserveRollback(t) ==
    /\ Go(t, "reserveSeat", "reserveUnlock")
    /\ i[t] <= Len(Seats(t))
    /\ ~SeatFree(t)
    /\ LET taken == {SeatAt(t, k) : k \in 1 .. i[t] - 1}
       IN  list' = [list EXCEPT ![ev[t]].reservations = @ - 1,
                                ![ev[t]].data = [s \in DOMAIN @ |->
                                     IF s \in taken THEN 0 ELSE @[s]]]
    /\ Answer(t, Failed)
    /\ UNCHANGED <<eventWriter, eventReaders, locks, output, locals>>

\* Mutated form: the lock of the event is kept.
ReserveKeepsLock(t) ==
    /\ Go(t, "reserveUnlock", "return")
    /\ UNCHANGED <<state, locks, output, res, locals>>

ReserveUnlock(t) ==
    /\ Go(t, "reserveUnlock", "return")
    /\ eventWriter' = [eventWriter EXCEPT ![ev[t]] = NoThread]
    /\ UNCHANGED <<list, eventReaders, locks, output, res, locals>>

------------------------------------------------------------------------------
(***************************************************************************)
(* ems_show.  The seats are printed one by one.  Its answer here is the    *)
(* text it leaves at the end of the output when it lets go of the event.   *)
(***************************************************************************)
ShowRdLock(t)   == RdLock(t, "show", "showLookup")
ShowLookup(t)   == Lookup(t, "showLookup", "showRdUnlock")
ShowFound(t)    == Found(t, "showRdUnlock", "showEventLock")
ShowNotFound(t) == NotFound(t, "showRdUnlock")

ShowEventLock(t) ==
    /\ Go(t, "showEventLock", "showOutput")
    /\ eventWriter[ev[t]] = NoThread
    /\ eventReaders' = [eventReaders EXCEPT ![ev[t]] = @ \cup {t}]
    /\ UNCHANGED <<list, eventWriter, locks, output, res, locals>>

\* Mutated form: the seats are printed without the mutex of the output.
ShowOutputUnlocked(t) ==
    /\ Go(t, "showOutput", "showSeat")
    /\ UNCHANGED <<state, locks, output, res, locals>>

ShowOutput(t) == TakeOutput(t, "showOutput", "showSeat")

ShowSeat(t) ==
    /\ Go(t, "showSeat", "showSeat")
    /\ i[t] <= list[ev[t]].rows * list[ev[t]].cols
    /\ PrintItem(t, list[ev[t]].data[i[t] - 1])
    /\ UNCHANGED <<state, locks, printer, res, ev, rid>>

ShowEventUnlock(t) ==
    LET e == list[ev[t]]
        size == e.rows * e.cols
    IN  /\ Go(t, "showSeat", "showDone")
        /\ i[t] > size
        /\ eventReaders' = [eventReaders EXCEPT ![ev[t]] = @ \ {t}]
        /\ Answer(t, [ret |-> 0, rows |-> e.rows, cols |-> e.cols,
                      data |-> [s \in SeatIndices(e.rows, e.cols) |->
                                   Printed(size - 1 - s)]])
        /\ UNCHANGED <<list, eventWriter, locks, output, locals>>

ShowDone(t) == DropOutput(t, "showDone")

------------------------------------------------------------------------------
(***************************************************************************)
(* ems_list_events.  The list stays locked while it is printed; that there *)
(* are no events is printed without the mutex of the output.  Its answer   *)
(* is what it leaves at the end of the output.                             *)
(***************************************************************************)
NoEvents == -1

ListRdLock(t) == RdLock(t, "list", "listHead")

ListEmpty(t) ==
    /\ Go(t, "listHead", "listUnlock")
    /\ list = <<>>
    /\ out' = Append(out, NoEvents)
    /\ Answer(t, [ret |-> 0, num |-> 0, ids |-> <<>>])
    /\ UNCHANGED <<state, locks, printer, locals>>

ListUnlock(t) == RdUnlock(t, "listUnlock", "return")

ListOutput(t) == list # <<>> /\ TakeOutput(t, "listHead", "listId")

ListId(t) ==
    /\ Go(t, "listId", "listId")
    /\ i[t] <= Len(list)
    /\ PrintItem(t, list[i[t]].id)
    /\ UNCHANGED <<state, locks, printer, res, ev, rid>>

ListRdUnlock(t) ==
    LET num == i[t] - 1
    IN  /\ Go(t, "listId", "listDone")
        /\ i[t] > Len(list)
        /\ readers' = readers - 1
        /\ Answer(t, [ret |-> 0, num |-> num,
                      ids |-> [n \in 1 .. num |-> Printed(num - n)]])
        /\ UNCHANGED <<state, writer, output, locals>>

ListDone(t) == DropOutput(t, "listDone")

------------------------------------------------------------------------------
CreateStep(t) == \/ CreateRdLock(t)
                 \/ CreateLookup(t)
                 \/ CreateRdUnlock(t)
                 \/ CreateWrLock(t)
                 \/ CreateNoMemory(t)
                 \/ CreateAppend(t)
                 \/ CreateUnlock(t)

ReserveStep(t) == \/ ReserveRdLock(t)
                  \/ ReserveLookup(t)
                  \/ ReserveFound(t)
                  \/ ReserveNotFound(t)
                  \/ ReserveWrLock(t)
                  \/ ReserveNumber(t)
                  \/ ReserveSeat(t)
                  \/ ReserveDone(t)
                  \/ ReserveRollback(t)
                  \/ ReserveUnlock(t)

ShowStep(t) == \/ ShowRdLock(t)
               \/ ShowLookup(t)
               \/ ShowFound(t)
               \/ ShowNotFound(t)
               \/ ShowEventLock(t)
               \/ ShowOutput(t)
               \/ ShowSeat(t)
               \/ ShowEventUnlock(t)
               \/ ShowDone(t)

ListStep(t) == \/ ListRdLock(t)
               \/ ListEmpty(t)
               \/ ListUnlock(t)
               \/ ListOutput(t)
               \/ ListId(t)
               \/ ListRdUnlock(t)
               \/ ListDone(t)

Step(t) == CreateStep(t) \/ ReserveStep(t) \/ ShowStep(t) \/ ListStep(t)

\* Any thread may be asked for any operation at any time.
OpsNext == \E t \in Threads : \/ \E r \in Requests : Begin(t, r)
                              \/ Step(t)
                              \/ Return(t)

OpsSpec == OpsInit /\ [][OpsNext]_ops

------------------------------------------------------------------------------
(***************************************************************************)
(* Properties.                                                             *)
(***************************************************************************)
ListReadPlaces   == {"createLookup", "createRdUnlock", "reserveLookup",
                     "reserveRdUnlock", "showLookup", "showRdUnlock",
                     "listHead", "listUnlock", "listId"}
ListWritePlaces  == {"createAppend", "createUnlock"}
EventWritePlaces == {"reserveNumber", "reserveSeat", "reserveUnlock"}
EventReadPlaces  == {"showOutput", "showSeat"}
OutputPlaces     == {"showSeat", "showDone", "listId", "listDone"}
EventPlaces      == EventWritePlaces \cup EventReadPlaces
                    \cup {"reserveWrLock", "showEventLock"}
Places == {"idle", "return", "create", "createWrLock", "reserve", "show",
           "list"}
          \cup ListReadPlaces \cup ListWritePlaces \cup EventPlaces
          \cup OutputPlaces

ListReaders == {t \in Threads : pc[t] \in ListReadPlaces}

\* Every variable has its type, and each event has a lock of its own.
OpsTypeOK ==
    /\ \A n \in DOMAIN list : IsEvent(list[n])
    /\ eventWriter \in [DOMAIN list -> Threads \cup {NoThread}]
    /\ eventReaders \in [DOMAIN list -> SUBSET Threads]
    /\ writer \in Threads \cup {NoThread}
    /\ readers \in Nat
    /\ printer \in Threads \cup {NoThread}
    /\ out \in Seq(Int)
    /\ pc \in [Threads -> Places]
    /\ req \in [Threads -> Requests \cup {None}]
    /\ DOMAIN res = Threads
    /\ ev \in [Threads -> DOMAIN list \cup {NULL}]
    /\ rid \in [Threads -> Nat]
    /\ i \in [Threads -> Nat \ {0}]

\* The list lock: one writer, and only while nobody reads.  Each reader holds
\* it; how often it is held beyond that is what ems_create left behind.
ListLockHeld ==
    /\ \A t \in Threads : writer = t <=> pc[t] \in ListWritePlaces
    /\ writer # NoThread => readers = 0
    /\ readers >= Cardinality(ListReaders)

\* The locks of the events and of the output are held by the threads that are
\* at work with them and by nobody else: no way out of an operation, failed or
\* not, keeps one or gives it up twice.
EventLocksHeld ==
    /\ \A t \in Threads : \A n \in DOMAIN list :
         /\ eventWriter[n] = t <=> (pc[t] \in EventWritePlaces /\ ev[t] = n)
         /\ t \in eventReaders[n] <=> (pc[t] \in EventReadPlaces /\ ev[t] = n)
         /\ eventWriter[n] # NoThread => eventReaders[n] = {}
    /\ \A t \in Threads : pc[t] \in EventPlaces => ev[t] # NULL
    /\ \A t \in Threads : printer = t <=> pc[t] \in OutputPlaces

LocksHeld == ListLockHeld /\ EventLocksHeld

\* The reservation numbers on the seats of an event.
SeatNumbers(e) == {e.data[s] : s \in DOMAIN e.data} \ {0}

\* A reservation that fails half-way leaves no trace: while nobody is inside an
\* event, the numbers on its seats are those of its reservations, all of them.
NumbersAccounted ==
    \A n \in DOMAIN list :
        eventWriter[n] = NoThread =>
            SeatNumbers(list[n]) = 1 .. list[n].reservations

\* ems_create refuses an event that already exists (operations.c:95, "Event
\* already exists").
UniqueIds == \A m, n \in DOMAIN list : list[m].id = list[n].id => m = n

\* More read locks are held than there are readers.
Leaked == readers > Cardinality(ListReaders)

\* A thread that cannot go on before some other thread has moved.
Waits(t) ==
    \/ pc[t] \in {"create", "reserve", "show", "list"} /\ writer # NoThread
    \/ pc[t] = "createWrLock" /\ (writer # NoThread \/ readers # 0)
    \/ /\ pc[t] = "reserveWrLock"
       /\ eventWriter[ev[t]] # NoThread \/ eventReaders[ev[t]] # {}
    \/ pc[t] = "showEventLock" /\ eventWriter[ev[t]] # NoThread
    \/ pc[t] = "showOutput" /\ printer # NoThread
    \/ pc[t] = "listHead" /\ list # <<>> /\ printer # NoThread

\* The list lock, the locks of the events and the mutex of the output are taken
\* in an order that has no circle: when every thread that runs an operation
\* waits, they are all in ems_create, for a read lock that an earlier one kept.
StuckOnlyIfLeaked ==
    LET busy == {t \in Threads : pc[t] # "idle"}
    IN  busy # {} /\ (\A t \in busy : Waits(t))
            => Leaked /\ \A t \in busy : pc[t] = "createWrLock"

(***************************************************************************)
(* Refinement.  Until its loop has taken the last seat, a reservation has  *)
(* not happened: the abstract store does not show its number and seats.    *)
(***************************************************************************)
Tentative(n) == {t \in Threads : pc[t] = "reserveSeat" /\ ev[t] = n}

Untaken(e) ==
    [e EXCEPT !.reservations = @ - 1,
              !.data = [s \in DOMAIN @ |->
                           IF @[s] = e.reservations THEN 0 ELSE @[s]]]

Store ==
    [n \in 1 .. Len(list) |->
        IF Tentative(n) = {} THEN list[n] ELSE Untaken(list[n])]

Abstract == INSTANCE EventStore
                WITH store <- Store, TwiceRefused <- TRUE, SearchRaces <- TRUE

\* create, reserve, show and list take effect in one step each: a reservation
\* takes all its seats or none, and what SHOW and LIST print is one block of the
\* output that is true at one moment.  (A create may miss an event that was
\* appended after its search.)
StoreSpec == Abstract!Spec

(***************************************************************************)
(* Why LocksHeld, NumbersAccounted and StoreSpec hold: the invariant that  *)
(* their proofs use.                                                       *)
(***************************************************************************)
CreatePlaces  == {"create", "createLookup", "createRdUnlock", "createWrLock"}
                 \cup ListWritePlaces
ReservePlaces == {"reserve", "reserveLookup", "reserveRdUnlock",
                  "reserveWrLock"} \cup EventWritePlaces
ShowPlaces    == {"show", "showLookup", "showRdUnlock", "showEventLock",
                  "showDone"} \cup EventReadPlaces
ListPlaces    == {"list", "listHead", "listUnlock", "listId", "listDone"}

DecidedPlaces == {"return", "createUnlock", "reserveUnlock", "showDone",
                  "listUnlock", "listDone"}
CountedPlaces == {"reserveSeat", "reserveUnlock", "showSeat", "showDone",
                  "listId", "listDone", "return"}
FoundPlaces   == {"reserveRdUnlock", "showRdUnlock"} \cup EventPlaces

\* A thread is inside the operation it was asked for, it has an answer from the
\* step on that decides it, and what it found in the list is still there.
CallInv ==
    \A t \in Threads :
        /\ pc[t] = "idle" <=> req[t] = None
        /\ pc[t] \in CreatePlaces => req[t].op = "create"
        /\ pc[t] \in ReservePlaces => req[t].op = "reserve"
        /\ pc[t] \in ShowPlaces => req[t].op = "show"
        /\ pc[t] \in ListPlaces => req[t].op = "list"
        /\ res[t] # NoAnswer <=> pc[t] \in DecidedPlaces
        /\ pc[t] \notin CountedPlaces => i[t] = 1
        /\ pc[t] \in FoundPlaces => ev[t] = GetEvent(list, req[t].id)

\* The seats before the i-th of the reservation under way are different seats of
\* the event, and they are the ones that carry its number.
Taking(t) ==
    LET e == list[ev[t]]
    IN  /\ rid[t] = e.reservations /\ rid[t] > 0
        /\ i[t] <= Len(Seats(t)) + 1
        /\ \A k \in 1 .. i[t] - 1 : /\ Seats(t)[k][1] \in 1 .. e.rows
                                   /\ Seats(t)[k][2] \in 1 .. e.cols
        /\ \A s \in DOMAIN e.data :
              e.data[s] = rid[t]
                  <=> \E k \in 1 .. i[t] - 1 : s = SeatAt(t, k)
        /\ \A j, k \in 1 .. i[t] - 1 : SeatAt(t, j) = SeatAt(t, k) => j = k

TakingInv == \A t \in Threads : pc[t] = "reserveSeat" => Taking(t)

\* The numbers of the reservations that have happened are on seats.
StoreNumbered ==
    \A n \in DOMAIN list : SeatNumbers(Store[n]) = 1 .. Store[n].reservations

\* What a thread has printed so far is at the end of the output.
ShowPrinted(t) ==
    LET n == i[t] - 1
        e == list[ev[t]]
    IN  /\ n <= Len(out)
        /\ n <= e.rows * e.cols
        /\ \A s \in 1 .. n : out[Len(out) - n + s] = e.data[s - 1]

ListPrinted(t) ==
    LET n == i[t] - 1
    IN  /\ n <= Len(out)
        /\ n <= Len(list)
        /\ \A s \in 1 .. n : out[Len(out) - n + s] = list[s].id

PrintingInv ==
    \A t \in Threads : /\ pc[t] = "showSeat" => ShowPrinted(t)
                       /\ pc[t] = "listId" => ListPrinted(t)

OpsInv == /\ OpsTypeOK
          /\ LocksHeld
          /\ CallInv
          /\ TakingInv
          /\ StoreNumbered
          /\ PrintingInv

==============================================================================
