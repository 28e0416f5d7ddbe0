-------------------------- MODULE ServerOpsProofs ----------------------------
(***************************************************************************)
(* For any number of session threads, any requests and any bounds, and     *)
(* whether or not memory and stdout fail: every state of ServerOps is      *)
(* well-typed, and no two events have the same identifier.                 *)
(*                                                                         *)
(* IInv is inductive.  Most steps only take or drop a lock, or copy        *)
(* something into a local variable; the lemmas about TakeWrite ... Found   *)
(* cover those once for all operations.  The list itself changes in three  *)
(* steps: CreateAppend, ReserveNumber and ReserveAssign.                   *)
(***************************************************************************)
EXTENDS ServerOps, EventDataProofs, SequenceTheorems

Inv == list \in Seq(Event) /\ IInv

LEMMA InitInv == Init => Inv
<1> SUFFICES ASSUME Init PROVE Inv
  OBVIOUS
<1>1. list \in Seq(Event) /\ Len(list) = 0 /\ DOMAIN list = {}
  BY DEF Init
<1>2. TypeOK
  <2>1. mutex \in Seq(All \cup {NoThread}) /\ Len(mutex) = Len(list)
    BY DEF Init
  <2> QED
    BY <1>1, <2>1, BoundsAssumption, ThreadsAssumption
    DEF Init, TypeOK, SessionPlaces, HostPlaces, Pointers, All
<1>3. /\ RequestInv
      /\ WriterInv
      /\ ReaderInv
      /\ PointerInv
      /\ SearchInv
      /\ UniqueIds
  BY <1>1, ThreadsAssumption
  DEF Init, RequestInv, WriterInv, ReaderInv, PointerInv, SearchInv, UniqueIds,
      All, CreatePlaces, WritePlaces, ReadPlaces, HostReadPlaces, EventPlaces,
      HostEventPlaces
<1> QED
  BY <1>1, <1>2, <1>3 DEF Inv, IInv

------------------------------------------------------------------------------
(***************************************************************************)
(* The steps that leave the list and the requests alone.                   *)
(***************************************************************************)
\* A writer comes in only when no reader and no other writer is there.
LEMMA CreateLockInv ==
    ASSUME Inv, NEW t \in Threads, CreateLock(t)
    PROVE  Inv'
<1> USE ThreadsAssumption
DEF CreateLock, TakeWrite, Go, locals, shared, budget, Inv, IInv
<1>1. TypeOK' /\ list' \in Seq(Event)
  BY DEF TypeOK, SessionPlaces, HostPlaces, Pointers, All
<1>2. RequestInv'
  BY DEF TypeOK, RequestInv, CreatePlaces, WritePlaces, All
<1>3. WriterInv'
  BY DEF TypeOK, WriterInv, WritePlaces, All
<1>4. ReaderInv'
  BY DEF TypeOK, ReaderInv, ReadPlaces, HostReadPlaces, All
<1>5. PointerInv' /\ SearchInv' /\ UniqueIds'
  BY DEF TypeOK, PointerInv, SearchInv, UniqueIds, EventPlaces,
         HostEventPlaces, All
<1> QED
  BY <1>1, <1>2, <1>3, <1>4, <1>5

\* The writer leaves.
LEMMA CreateUnlockInv ==
    ASSUME Inv, NEW t \in Threads, CreateUnlock(t)
    PROVE  Inv'
<1> USE ThreadsAssumption
DEF CreateUnlock, DropWrite, Go, locals, shared, budget, Inv, IInv
<1>1. TypeOK' /\ list' \in Seq(Event)
  BY DEF TypeOK, SessionPlaces, HostPlaces, Pointers, All
<1>2. RequestInv'
  BY DEF TypeOK, RequestInv, CreatePlaces, WritePlaces, All
<1>3. WriterInv'
  BY DEF TypeOK, WriterInv, WritePlaces, All
<1>4. ReaderInv'
  BY DEF TypeOK, ReaderInv, ReadPlaces, HostReadPlaces, All
<1>5. PointerInv' /\ SearchInv' /\ UniqueIds'
  BY DEF TypeOK, PointerInv, SearchInv, UniqueIds, EventPlaces,
         HostEventPlaces, All
<1> QED
  BY <1>1, <1>2, <1>3, <1>4, <1>5

\* A reader comes in only when no writer is there.
LEMMA TakeReadInv ==
    ASSUME Inv, NEW t \in Threads, NEW from, NEW to,
           <<from, to>> \in {<<"reserve", "reserveLookup">>,
                           <<"show", "showLookup">>,
                           <<"list", "listCount">>},
           TakeRead(t, from, to)
    PROVE  Inv'
<1> USE ThreadsAssumption DEF TakeRead, Go, locals, shared, budget, Inv, IInv
<1>1. TypeOK' /\ list' \in Seq(Event)
  BY SMTT(20), ZenonT(40) DEF TypeOK, SessionPlaces, HostPlaces, Pointers, All,
         ReaderInv, ReadPlaces
<1>2. RequestInv'
  BY DEF TypeOK, RequestInv, CreatePlaces, WritePlaces, All
<1>3. WriterInv'
  BY DEF TypeOK, WriterInv, WritePlaces, All
<1>4. ReaderInv'
  BY DEF TypeOK, ReaderInv, ReadPlaces, HostReadPlaces, All
<1>5. PointerInv' /\ SearchInv' /\ UniqueIds'
  BY DEF TypeOK, PointerInv, SearchInv, UniqueIds, EventPlaces,
         HostEventPlaces, All
<1> QED
  BY <1>1, <1>2, <1>3, <1>4, <1>5

\* A reader leaves; reserve and show keep their pointer, which is not NULL.
LEMMA DropReadInv ==
    ASSUME Inv, NEW t \in Threads, NEW from, NEW to,
           <<from, to>> \in {<<"reserveRdUnlock", "reserveMutex">>,
                           <<"showRdUnlock", "showMutex">>,
                           <<"listUnlock", "return">>},
           DropRead(t, from, to),
           to # "return" => ev[t] # NULL
    PROVE  Inv'
<1> USE ThreadsAssumption DEF DropRead, Go, locals, shared, budget, Inv, IInv
<1>1. TypeOK' /\ list' \in Seq(Event)
  BY SMTT(20), ZenonT(40) DEF TypeOK, SessionPlaces, HostPlaces, Pointers, All,
         ReaderInv, ReadPlaces
<1>2. RequestInv'
  BY DEF TypeOK, RequestInv, CreatePlaces, WritePlaces, All
<1>3. WriterInv'
  BY SMTT(20), ZenonT(40) DEF TypeOK, WriterInv, WritePlaces, All,
         ReaderInv, ReadPlaces, HostReadPlaces
<1>4. ReaderInv'
  BY SMTT(20), ZenonT(40) DEF TypeOK, ReaderInv, ReadPlaces, HostReadPlaces, All
<1>5. PointerInv' /\ SearchInv' /\ UniqueIds'
  BY DEF TypeOK, PointerInv, SearchInv, UniqueIds, EventPlaces,
         HostEventPlaces, All
<1> QED
  BY <1>1, <1>2, <1>3, <1>4, <1>5

\* A reader leaves without an event.
LEMMA NotFoundInv ==
    ASSUME Inv, NEW t \in Threads, NEW from, NEW to,
           <<from, to>> \in {<<"reserveRdUnlock", "return">>,
                           <<"showRdUnlock", "return">>},
           NotFound(t, from, to)
    PROVE  Inv'
<1> USE ThreadsAssumption
DEF NotFound, Answer, Go, locals, shared, budget, Inv, IInv
<1>1. TypeOK' /\ list' \in Seq(Event)
  BY SMTT(20), ZenonT(40) DEF TypeOK, SessionPlaces, HostPlaces, Pointers, All,
         ReaderInv, ReadPlaces
<1>2. RequestInv'
  BY DEF TypeOK, RequestInv, CreatePlaces, WritePlaces, All
<1>3. WriterInv'
  BY SMTT(20), ZenonT(40) DEF TypeOK, WriterInv, WritePlaces, All,
         ReaderInv, ReadPlaces, HostReadPlaces
<1>4. ReaderInv'
  BY SMTT(20), ZenonT(40) DEF TypeOK, ReaderInv, ReadPlaces, HostReadPlaces, All
<1>5. PointerInv' /\ SearchInv' /\ UniqueIds'
  BY DEF TypeOK, PointerInv, SearchInv, UniqueIds, EventPlaces,
         HostEventPlaces, All
<1> QED
  BY <1>1, <1>2, <1>3, <1>4, <1>5

\* The pointer that get_event returns is a node or NULL.
LEMMA LookupInv ==
    ASSUME Inv, NEW t \in Threads, NEW from, NEW to,
           <<from, to>> \in {<<"reserveLookup", "reserveRdUnlock">>,
                           <<"showLookup", "showRdUnlock">>},
           Lookup(t, from, to)
    PROVE  Inv'
<1> USE ThreadsAssumption DEF Lookup, Go, locals, shared, budget, Inv, IInv
<1>0. GetEvent(list, req[t].id) \in DOMAIN list \cup {NULL}
  <2>1. DOMAIN list \subseteq Nat \ {0}
    BY LenProperties
  <2> QED
    BY <2>1, GetEventFinds
<1>1. TypeOK' /\ list' \in Seq(Event)
  BY <1>0 DEF TypeOK, SessionPlaces, HostPlaces, Pointers, All
<1>2. RequestInv'
  BY <1>0 DEF TypeOK, RequestInv, CreatePlaces, WritePlaces, All
<1>3. WriterInv'
  BY <1>0 DEF TypeOK, WriterInv, WritePlaces, All
<1>4. ReaderInv'
  BY <1>0 DEF TypeOK, ReaderInv, ReadPlaces, HostReadPlaces, All
<1>5. PointerInv' /\ SearchInv' /\ UniqueIds'
  BY <1>0 DEF TypeOK, PointerInv, SearchInv, UniqueIds, EventPlaces,
         HostEventPlaces, All
<1> QED
  BY <1>1, <1>2, <1>3, <1>4, <1>5

\* The mutexes play no part in the invariant.
LEMMA TakeMutexInv ==
    ASSUME Inv, NEW t \in Threads, NEW from, NEW to,
           <<from, to>> \in {<<"reserveMutex", "reserveCheck">>,
                           <<"showMutex", "showCopy">>},
           TakeMutex(t, from, to)
    PROVE  Inv'
<1> USE ThreadsAssumption DEF TakeMutex, Go, locals, shared, budget, Inv, IInv
<1>1. TypeOK' /\ list' \in Seq(Event)
  BY SMTT(20), ZenonT(40) DEF TypeOK, SessionPlaces, HostPlaces, Pointers, All,
         PointerInv, EventPlaces
<1>2. RequestInv'
  BY DEF TypeOK, RequestInv, CreatePlaces, WritePlaces, All
<1>3. WriterInv'
  BY DEF TypeOK, WriterInv, WritePlaces, All
<1>4. ReaderInv'
  BY DEF TypeOK, ReaderInv, ReadPlaces, HostReadPlaces, All
<1>5. PointerInv' /\ SearchInv' /\ UniqueIds'
  BY DEF TypeOK, PointerInv, SearchInv, UniqueIds, EventPlaces,
         HostEventPlaces, All
<1> QED
  BY <1>1, <1>2, <1>3, <1>4, <1>5

\* Nor does releasing one.
LEMMA DropMutexInv ==
    ASSUME Inv, NEW t \in Threads, NEW from, NEW to,
           <<from, to>> \in {<<"reserveUnlock", "return">>,
                           <<"showUnlock", "return">>},
           DropMutex(t, from, to)
    PROVE  Inv'
<1> USE ThreadsAssumption DEF DropMutex, Go, locals, shared, budget, Inv, IInv
<1>1. TypeOK' /\ list' \in Seq(Event)
  BY SMTT(20), ZenonT(40) DEF TypeOK, SessionPlaces, HostPlaces, Pointers, All,
         PointerInv, EventPlaces
<1>2. RequestInv'
  BY DEF TypeOK, RequestInv, CreatePlaces, WritePlaces, All
<1>3. WriterInv'
  BY DEF TypeOK, WriterInv, WritePlaces, All
<1>4. ReaderInv'
  BY DEF TypeOK, ReaderInv, ReadPlaces, HostReadPlaces, All
<1>5. PointerInv' /\ SearchInv' /\ UniqueIds'
  BY DEF TypeOK, PointerInv, SearchInv, UniqueIds, EventPlaces,
         HostEventPlaces, All
<1> QED
  BY <1>1, <1>2, <1>3, <1>4, <1>5

------------------------------------------------------------------------------
(***************************************************************************)
(* The other steps of a session thread.                                    *)
(***************************************************************************)
\* A request starts at the place named by its operation.
LEMMA CallInv ==
    ASSUME Inv, NEW t \in Threads, Call(t)
    PROVE  Inv'
<1> USE ThreadsAssumption DEF Call, Go, locals, shared, budget, Inv, IInv
<1>1. TypeOK' /\ list' \in Seq(Event)
  BY RequestsAssumption, BoundsAssumption, SMTT(20), ZenonT(40)
  DEF TypeOK, SessionPlaces, HostPlaces, Pointers, All,
         Request, CreateRequest, ReserveRequest, ShowRequest, ListRequest
<1>2. RequestInv'
  BY RequestsAssumption, BoundsAssumption, SMTT(20), ZenonT(40)
  DEF TypeOK, RequestInv, CreatePlaces, WritePlaces, All,
         Request, CreateRequest, ReserveRequest, ShowRequest, ListRequest
<1>3. WriterInv'
  BY RequestsAssumption, BoundsAssumption
  DEF TypeOK, WriterInv, WritePlaces, All,
         Request, CreateRequest, ReserveRequest, ShowRequest, ListRequest
<1>4. ReaderInv'
  BY RequestsAssumption, BoundsAssumption, SMTT(20), ZenonT(40)
  DEF TypeOK, ReaderInv, ReadPlaces, HostReadPlaces, All,
         Request, CreateRequest, ReserveRequest, ShowRequest, ListRequest
<1>5. PointerInv' /\ SearchInv' /\ UniqueIds'
  BY RequestsAssumption, BoundsAssumption, SMTT(20), ZenonT(40)
  DEF TypeOK, PointerInv, SearchInv, UniqueIds, EventPlaces, HostEventPlaces,
         All,
         Request, CreateRequest, ReserveRequest, ShowRequest, ListRequest
<1> QED
  BY <1>1, <1>2, <1>3, <1>4, <1>5

\* A thread that returns has let go of everything.
LEMMA ReturnInv ==
    ASSUME Inv, NEW t \in Threads, Return(t)
    PROVE  Inv'
<1> USE ThreadsAssumption DEF Return, Go, locals, shared, budget, Inv, IInv
<1>1. TypeOK' /\ list' \in Seq(Event)
  BY SMTT(20), ZenonT(40) DEF TypeOK, SessionPlaces, HostPlaces, Pointers, All
<1>2. RequestInv'
  BY DEF TypeOK, RequestInv, CreatePlaces, WritePlaces, All
<1>3. WriterInv'
  BY DEF TypeOK, WriterInv, WritePlaces, All
<1>4. ReaderInv'
  BY DEF TypeOK, ReaderInv, ReadPlaces, HostReadPlaces, All
<1>5. PointerInv' /\ SearchInv' /\ UniqueIds'
  BY DEF TypeOK, PointerInv, SearchInv, UniqueIds, EventPlaces,
         HostEventPlaces, All
<1> QED
  BY <1>1, <1>2, <1>3, <1>4, <1>5

\* ems_create goes on to append only when the search has found nothing.
LEMMA CreateLookupInv ==
    ASSUME Inv, NEW t \in Threads, CreateLookup(t)
    PROVE  Inv'
<1> USE ThreadsAssumption
DEF CreateLookup, Answer, Go, locals, shared, budget, Inv, IInv
<1>0. DOMAIN list \subseteq Nat \ {0}
  BY LenProperties
<1>a. GetEvent(list, req[t].id) = NULL <=> Nodes(list, req[t].id) = {}
  BY <1>0, GetEventFinds
<1>1. TypeOK' /\ list' \in Seq(Event)
  BY <1>a DEF TypeOK, SessionPlaces, HostPlaces, Pointers, All
<1>2. RequestInv'
  BY <1>a DEF TypeOK, RequestInv, CreatePlaces, WritePlaces, All
<1>3. WriterInv'
  BY <1>a DEF TypeOK, WriterInv, WritePlaces, All
<1>4. ReaderInv'
  BY <1>a DEF TypeOK, ReaderInv, ReadPlaces, HostReadPlaces, All
<1>5. PointerInv' /\ SearchInv' /\ UniqueIds'
  BY <1>a DEF TypeOK, PointerInv, SearchInv, UniqueIds, EventPlaces,
         HostEventPlaces, All
<1> QED
  BY <1>1, <1>2, <1>3, <1>4, <1>5

\* A create that fails leaves the list as it is.
LEMMA CreateNoMemoryInv ==
    ASSUME Inv, NEW t \in Threads, CreateNoMemory(t)
    PROVE  Inv'
<1> USE ThreadsAssumption
DEF CreateNoMemory, Answer, Go, locals, shared, budget, Inv, IInv
<1>1. TypeOK' /\ list' \in Seq(Event)
  BY DEF TypeOK, SessionPlaces, HostPlaces, Pointers, All
<1>2. RequestInv'
  BY DEF TypeOK, RequestInv, CreatePlaces, WritePlaces, All
<1>3. WriterInv'
  BY DEF TypeOK, WriterInv, WritePlaces, All
<1>4. ReaderInv'
  BY DEF TypeOK, ReaderInv, ReadPlaces, HostReadPlaces, All
<1>5. PointerInv' /\ SearchInv' /\ UniqueIds'
  BY DEF TypeOK, PointerInv, SearchInv, UniqueIds, EventPlaces,
         HostEventPlaces, All
<1> QED
  BY <1>1, <1>2, <1>3, <1>4, <1>5

\* The new event is of the right type, its identifier is not in the list, and no
\* other thread is in the middle of a create.
LEMMA CreateAppendInv ==
    ASSUME Inv, NEW t \in Threads, CreateAppend(t)
    PROVE  Inv'
<1> USE ThreadsAssumption DEF CreateAppend, Answer, Go, budget, Inv, IInv
<1> DEFINE e == NewEvent(req[t])
<1>1. IsEvent(e) /\ e \in Event /\ e.id = req[t].id
  <2>1. req[t] \in CreateRequest
    BY DEF RequestInv, CreatePlaces, WritePlaces
  <2> QED
    BY <2>1, NewEventIsEvent, IsEventIsEvent DEF NewEvent
<1> HIDE DEF e
<1>2. /\ list' = Append(list, e)
      /\ list' \in Seq(Event)
      /\ Len(list') = Len(list) + 1
      /\ \A n \in DOMAIN list : list'[n] = list[n]
      /\ list'[Len(list) + 1] = e
      /\ DOMAIN list' = DOMAIN list \cup {Len(list) + 1}
  BY <1>1, LenProperties, AppendProperties DEF e
<1>3. TypeOK'
  <2>1. \A n \in DOMAIN list' : IsEvent(list'[n])
    BY <1>1, <1>2 DEF TypeOK
  <2>2. mutex' \in Seq(All \cup {NoThread}) /\ Len(mutex') = Len(list')
    BY <1>2 DEF TypeOK
  <2>3. Pointers \subseteq Pointers' /\ 0 .. Len(list) \subseteq 0 .. Len(list')
    BY <1>2 DEF Pointers, TypeOK
  <2>4. /\ ev' \in [All -> Pointers'] /\ current' \in Pointers'
        /\ num' \in [Threads -> 0 .. Len(list')]
    BY <2>3 DEF TypeOK
  <2> QED
    BY <1>2, <2>1, <2>2, <2>4 DEF TypeOK, SessionPlaces, HostPlaces, All
<1>4. RequestInv' /\ WriterInv' /\ ReaderInv' /\ PointerInv'
  BY DEF TypeOK, All, RequestInv, WriterInv, ReaderInv, PointerInv,
         CreatePlaces, WritePlaces, ReadPlaces, HostReadPlaces, EventPlaces,
                HostEventPlaces
<1>5. SearchInv'
  BY DEF TypeOK, All, SearchInv, WriterInv, WritePlaces
<1>6. UniqueIds'
  <2>1. \A n \in DOMAIN list : list[n].id # req[t].id
    BY DEF SearchInv, Nodes
  <2> QED
    BY <1>1, <1>2, <2>1 DEF UniqueIds
<1> QED
  BY <1>2, <1>3, <1>4, <1>5, <1>6

\* Checking the seats changes nothing.
LEMMA ReserveCheckInv ==
    ASSUME Inv, NEW t \in Threads, ReserveCheck(t)
    PROVE  Inv'
<1> USE ThreadsAssumption
DEF ReserveCheck, Answer, Go, locals, shared, budget, Inv, IInv
<1>1. TypeOK' /\ list' \in Seq(Event)
  BY DEF TypeOK, SessionPlaces, HostPlaces, Pointers, All
<1>2. RequestInv'
  BY DEF TypeOK, RequestInv, CreatePlaces, WritePlaces, All
<1>3. WriterInv'
  BY DEF TypeOK, WriterInv, WritePlaces, All
<1>4. ReaderInv'
  BY DEF TypeOK, ReaderInv, ReadPlaces, HostReadPlaces, All
<1>5. PointerInv' /\ SearchInv' /\ UniqueIds'
  BY DEF TypeOK, PointerInv, SearchInv, UniqueIds, EventPlaces,
         HostEventPlaces, All
<1> QED
  BY <1>1, <1>2, <1>3, <1>4, <1>5

\* A reservation number changes no identifier and no seat.
LEMMA ReserveNumberInv ==
    ASSUME Inv, NEW t \in Threads, ReserveNumber(t)
    PROVE  Inv'
<1> USE ThreadsAssumption DEF ReserveNumber, Go, budget, Inv, IInv
<1>0. ev[t] \in DOMAIN list /\ DOMAIN list = 1 .. Len(list)
  BY LenProperties DEF TypeOK, PointerInv, EventPlaces, Pointers, All
<1> DEFINE n == ev[t]
           e == [list[n] EXCEPT !.reservations = @ + 1]
<1>1. /\ list' = [list EXCEPT ![n] = e]
      /\ IsEvent(e) /\ e \in Event /\ e.id = list[n].id
  <2>1. IsEvent(list[n])
    BY <1>0 DEF TypeOK
  <2>2. IsEvent(e) /\ e.id = list[n].id
    BY <2>1, NumberedIsEvent
  <2> QED
    BY <2>2, IsEventIsEvent
<1> HIDE DEF e
<1>2. /\ list' \in Seq(Event)
      /\ Len(list') = Len(list)
      /\ DOMAIN list' = DOMAIN list
      /\ \A m \in DOMAIN list : list'[m] = IF m = n THEN e ELSE list[m]
  BY <1>0, <1>1, ExceptSeq, LenProperties
<1>3. TypeOK'
  <2>1. \A m \in DOMAIN list' : IsEvent(list'[m])
    BY <1>0, <1>1, <1>2 DEF TypeOK
  <2>2. list[n].reservations \in Nat
    BY <1>0 DEF TypeOK, IsEvent
  <2>3. rid' \in [Threads -> Nat] /\ seat' \in [Threads -> Nat \ {0}]
    <3>1. rid \in [Threads -> Nat] /\ seat \in [Threads -> Nat \ {0}]
      BY DEF TypeOK
    <3> QED
      BY <2>2, <3>1
  <2> QED
    BY <1>2, <2>1, <2>3
    DEF TypeOK, Answer, SessionPlaces, HostPlaces, Pointers, All
<1>4. RequestInv' /\ WriterInv' /\ ReaderInv' /\ PointerInv'
  BY DEF TypeOK, All, RequestInv, WriterInv, ReaderInv, PointerInv,
         CreatePlaces, WritePlaces, ReadPlaces, HostReadPlaces, EventPlaces,
                HostEventPlaces
<1>5. \A m \in DOMAIN list : list'[m].id = list[m].id
  BY <1>1, <1>2
<1>6. SearchInv'
  <2>1. \A u \in Threads : pc'[u] = "createAppend" => pc[u] = "createAppend"
    BY DEF TypeOK, All
  <2>2. \A id : Nodes(list', id) = Nodes(list, id)
    BY <1>2, <1>5 DEF Nodes
  <2> QED
    BY <2>1, <2>2 DEF SearchInv
<1>7. UniqueIds'
  BY <1>2, <1>5 DEF UniqueIds
<1> QED
  BY <1>2, <1>3, <1>4, <1>6, <1>7

\* A seat that is assigned changes no identifier and no dimension.
LEMMA ReserveAssignInv ==
    ASSUME Inv, NEW t \in Threads, ReserveAssign(t)
    PROVE  Inv'
<1> USE ThreadsAssumption DEF ReserveAssign, Go, budget, Inv, IInv
<1>0. ev[t] \in DOMAIN list /\ DOMAIN list = 1 .. Len(list)
  BY LenProperties DEF TypeOK, PointerInv, EventPlaces, Pointers, All
<1> DEFINE n == ev[t]
           e == [list[n] EXCEPT !.data[SeatIndex(list[n],
                  req[t].seats[seat[t]][1],
                                          req[t].seats[seat[t]][2])] = rid[t]]
<1>1. /\ list' = [list EXCEPT ![n] = e]
      /\ IsEvent(e) /\ e \in Event /\ e.id = list[n].id
  <2>1. IsEvent(list[n]) /\ rid[t] \in Nat
    BY <1>0 DEF TypeOK
  <2>2. IsEvent(e) /\ e.id = list[n].id
    BY <2>1, AssignedIsEvent, SMTT(20), ZenonT(40)
  <2> QED
    BY <2>2, IsEventIsEvent
<1> HIDE DEF e
<1>2. /\ list' \in Seq(Event)
      /\ Len(list') = Len(list)
      /\ DOMAIN list' = DOMAIN list
      /\ \A m \in DOMAIN list : list'[m] = IF m = n THEN e ELSE list[m]
  BY <1>0, <1>1, ExceptSeq, LenProperties
<1>3. TypeOK'
  <2>1. \A m \in DOMAIN list' : IsEvent(list'[m])
    BY <1>0, <1>1, <1>2 DEF TypeOK
  <2>2. list[n].reservations \in Nat
    BY <1>0 DEF TypeOK, IsEvent
  <2>3. rid' \in [Threads -> Nat] /\ seat' \in [Threads -> Nat \ {0}]
    <3>1. rid \in [Threads -> Nat] /\ seat \in [Threads -> Nat \ {0}]
      BY DEF TypeOK
    <3> QED
      BY <2>2, <3>1
  <2> QED
    BY <1>2, <2>1, <2>3
    DEF TypeOK, Answer, SessionPlaces, HostPlaces, Pointers, All
<1>4. RequestInv' /\ WriterInv' /\ ReaderInv' /\ PointerInv'
  BY DEF TypeOK, All, RequestInv, WriterInv, ReaderInv, PointerInv,
         CreatePlaces, WritePlaces, ReadPlaces, HostReadPlaces, EventPlaces,
                HostEventPlaces
<1>5. \A m \in DOMAIN list : list'[m].id = list[m].id
  BY <1>1, <1>2
<1>6. SearchInv'
  <2>1. \A u \in Threads : pc'[u] = "createAppend" => pc[u] = "createAppend"
    BY DEF TypeOK, All
  <2>2. \A id : Nodes(list', id) = Nodes(list, id)
    BY <1>2, <1>5 DEF Nodes
  <2> QED
    BY <2>1, <2>2 DEF SearchInv
<1>7. UniqueIds'
  BY <1>2, <1>5 DEF UniqueIds
<1> QED
  BY <1>2, <1>3, <1>4, <1>6, <1>7

\* Copying the seats changes nothing that is shared.
LEMMA ShowCopyInv ==
    ASSUME Inv, NEW t \in Threads, ShowCopy(t)
    PROVE  Inv'
<1> USE ThreadsAssumption
DEF ShowCopy, Answer, Go, locals, shared, budget, Inv, IInv
<1>1. TypeOK' /\ list' \in Seq(Event)
  BY DEF TypeOK, SessionPlaces, HostPlaces, Pointers, All
<1>2. RequestInv'
  BY DEF TypeOK, RequestInv, CreatePlaces, WritePlaces, All
<1>3. WriterInv'
  BY DEF TypeOK, WriterInv, WritePlaces, All
<1>4. ReaderInv'
  BY DEF TypeOK, ReaderInv, ReadPlaces, HostReadPlaces, All
<1>5. PointerInv' /\ SearchInv' /\ UniqueIds'
  BY DEF TypeOK, PointerInv, SearchInv, UniqueIds, EventPlaces,
         HostEventPlaces, All
<1> QED
  BY <1>1, <1>2, <1>3, <1>4, <1>5

\* The count is the length of the list.
LEMMA ListCountInv ==
    ASSUME Inv, NEW t \in Threads, ListCount(t)
    PROVE  Inv'
<1> USE ThreadsAssumption DEF ListCount, Go, locals, shared, budget, Inv, IInv
<1>1. TypeOK' /\ list' \in Seq(Event)
  BY LenProperties, SMTT(20), ZenonT(40) DEF TypeOK, SessionPlaces, HostPlaces, Pointers, All
<1>2. RequestInv'
  BY LenProperties DEF TypeOK, RequestInv, CreatePlaces, WritePlaces, All
<1>3. WriterInv'
  BY LenProperties DEF TypeOK, WriterInv, WritePlaces, All
<1>4. ReaderInv'
  BY LenProperties DEF TypeOK, ReaderInv, ReadPlaces, HostReadPlaces, All
<1>5. PointerInv' /\ SearchInv' /\ UniqueIds'
  BY LenProperties DEF TypeOK, PointerInv, SearchInv, UniqueIds, EventPlaces,
         HostEventPlaces, All
<1> QED
  BY <1>1, <1>2, <1>3, <1>4, <1>5

\* Nor does copying the identifiers.
LEMMA ListIdsInv ==
    ASSUME Inv, NEW t \in Threads, ListIds(t)
    PROVE  Inv'
<1> USE ThreadsAssumption
DEF ListIds, Answer, Go, locals, shared, budget, Inv, IInv
<1>1. TypeOK' /\ list' \in Seq(Event)
  BY DEF TypeOK, SessionPlaces, HostPlaces, Pointers, All
<1>2. RequestInv'
  BY DEF TypeOK, RequestInv, CreatePlaces, WritePlaces, All
<1>3. WriterInv'
  BY DEF TypeOK, WriterInv, WritePlaces, All
<1>4. ReaderInv'
  BY DEF TypeOK, ReaderInv, ReadPlaces, HostReadPlaces, All
<1>5. PointerInv' /\ SearchInv' /\ UniqueIds'
  BY DEF TypeOK, PointerInv, SearchInv, UniqueIds, EventPlaces,
         HostEventPlaces, All
<1> QED
  BY <1>1, <1>2, <1>3, <1>4, <1>5

------------------------------------------------------------------------------
(***************************************************************************)
(* The steps of the host.                                                  *)
(***************************************************************************)
\* A report starts with nothing printed.
LEMMA ShowAllInv ==
    ASSUME Inv, ShowAll
    PROVE  Inv'
<1> USE ThreadsAssumption DEF ShowAll, Go, locals, shared, budget, Inv, IInv
<1>1. TypeOK' /\ list' \in Seq(Event)
  BY BoundsAssumption DEF TypeOK, SessionPlaces, HostPlaces, Pointers, All
<1>2. RequestInv'
  BY BoundsAssumption DEF TypeOK, RequestInv, CreatePlaces, WritePlaces, All
<1>3. WriterInv'
  BY BoundsAssumption DEF TypeOK, WriterInv, WritePlaces, All
<1>4. ReaderInv'
  BY BoundsAssumption DEF TypeOK, ReaderInv, ReadPlaces, HostReadPlaces, All
<1>5. PointerInv' /\ SearchInv' /\ UniqueIds'
  BY BoundsAssumption
  DEF TypeOK, PointerInv, SearchInv, UniqueIds, EventPlaces, HostEventPlaces,
         All
<1> QED
  BY <1>1, <1>2, <1>3, <1>4, <1>5

\* The host comes in only when no writer is there, and starts at the head.
LEMMA AllRdLockInv ==
    ASSUME Inv, AllRdLock
    PROVE  Inv'
<1> USE ThreadsAssumption DEF AllRdLock, Go, locals, shared, budget, Inv, IInv
<1>0. DOMAIN list = 1 .. Len(list) /\ Len(list) \in Nat
  BY LenProperties
<1>1. TypeOK' /\ list' \in Seq(Event)
  BY <1>0 DEF TypeOK, SessionPlaces, HostPlaces, Pointers, All
<1>2. RequestInv'
  BY <1>0 DEF TypeOK, RequestInv, CreatePlaces, WritePlaces, All
<1>3. WriterInv'
  BY <1>0 DEF TypeOK, WriterInv, WritePlaces, All
<1>4. ReaderInv'
  BY <1>0 DEF TypeOK, ReaderInv, ReadPlaces, HostReadPlaces, All
<1>5. PointerInv' /\ SearchInv' /\ UniqueIds'
  BY <1>0 DEF TypeOK, PointerInv, SearchInv, UniqueIds, EventPlaces,
         HostEventPlaces, All
<1> QED
  BY <1>1, <1>2, <1>3, <1>4, <1>5

\* The pointer that get_event returns is a node or NULL.
LEMMA AllLookupInv ==
    ASSUME Inv, AllLookup
    PROVE  Inv'
<1> USE ThreadsAssumption DEF AllLookup, Go, locals, shared, budget, Inv, IInv
<1>0. DOMAIN list = 1 .. Len(list) /\ Len(list) \in Nat
  BY LenProperties
<1>9. GetEvent(list, list[current].id) \in DOMAIN list \cup {NULL}
  BY <1>0, GetEventFinds
<1>1. TypeOK' /\ list' \in Seq(Event)
  BY <1>9 DEF TypeOK, SessionPlaces, HostPlaces, Pointers, All
<1>2. RequestInv'
  BY <1>9 DEF TypeOK, RequestInv, CreatePlaces, WritePlaces, All
<1>3. WriterInv'
  BY <1>9 DEF TypeOK, WriterInv, WritePlaces, All
<1>4. ReaderInv'
  BY <1>9 DEF TypeOK, ReaderInv, ReadPlaces, HostReadPlaces, All
<1>5. PointerInv' /\ SearchInv' /\ UniqueIds'
  BY <1>9 DEF TypeOK, PointerInv, SearchInv, UniqueIds, EventPlaces,
         HostEventPlaces, All
<1> QED
  BY <1>1, <1>2, <1>3, <1>4, <1>5

\* The mutexes play no part in the invariant, not even one released twice.
LEMMA HostTakeMutexInv ==
    ASSUME Inv, AllMutex
    PROVE  Inv'
<1> USE ThreadsAssumption
DEF AllMutex, TakeMutex, Go, locals, shared, budget, Inv, IInv
<1>1. TypeOK' /\ list' \in Seq(Event)
  BY SMTT(20), ZenonT(40) DEF TypeOK, SessionPlaces, HostPlaces, Pointers, All,
         PointerInv, HostEventPlaces
<1>2. RequestInv'
  BY DEF TypeOK, RequestInv, CreatePlaces, WritePlaces, All
<1>3. WriterInv'
  BY DEF TypeOK, WriterInv, WritePlaces, All
<1>4. ReaderInv'
  BY DEF TypeOK, ReaderInv, ReadPlaces, HostReadPlaces, All
<1>5. PointerInv' /\ SearchInv' /\ UniqueIds'
  BY DEF TypeOK, PointerInv, SearchInv, UniqueIds, EventPlaces,
         HostEventPlaces, All
<1> QED
  BY <1>1, <1>2, <1>3, <1>4, <1>5

\* The report ends early when the empty line after an event cannot be written.
LEMMA HostDropMutexInv ==
    ASSUME Inv, NEW from, NEW to,
           <<from, to>> \in {<<"allPrint", "idle">>,
                           <<"allUnlock", "allNewline">>,
                           <<"allNewline", "idle">>},
           DropMutex(Host, from, to)
    PROVE  Inv'
<1> USE ThreadsAssumption DEF DropMutex, Go, locals, shared, budget, Inv, IInv
<1>1. TypeOK' /\ list' \in Seq(Event)
  BY SMTT(20), ZenonT(40) DEF TypeOK, SessionPlaces, HostPlaces, Pointers, All,
         PointerInv, HostEventPlaces
<1>2. RequestInv'
  BY DEF TypeOK, RequestInv, CreatePlaces, WritePlaces, All
<1>3. WriterInv'
  BY DEF TypeOK, WriterInv, WritePlaces, All
<1>4. ReaderInv'
  BY DEF TypeOK, ReaderInv, ReadPlaces, HostReadPlaces, All
<1>5. PointerInv' /\ SearchInv' /\ UniqueIds'
  BY DEF TypeOK, PointerInv, SearchInv, UniqueIds, EventPlaces,
         HostEventPlaces, All
<1> QED
  BY <1>1, <1>2, <1>3, <1>4, <1>5

\* Printing an event changes nothing that is shared.
LEMMA AllPrintInv ==
    ASSUME Inv, AllPrint
    PROVE  Inv'
<1> USE ThreadsAssumption DEF AllPrint, Go, locals, shared, budget, Inv, IInv
<1>1. TypeOK' /\ list' \in Seq(Event)
  BY DEF TypeOK, SessionPlaces, HostPlaces, Pointers, All
<1>2. RequestInv'
  BY DEF TypeOK, RequestInv, CreatePlaces, WritePlaces, All
<1>3. WriterInv'
  BY DEF TypeOK, WriterInv, WritePlaces, All
<1>4. ReaderInv'
  BY DEF TypeOK, ReaderInv, ReadPlaces, HostReadPlaces, All
<1>5. PointerInv' /\ SearchInv' /\ UniqueIds'
  BY DEF TypeOK, PointerInv, SearchInv, UniqueIds, EventPlaces,
         HostEventPlaces, All
<1> QED
  BY <1>1, <1>2, <1>3, <1>4, <1>5

\* The next node is one of the list, or NULL at its tail.
LEMMA AllNewlineInv ==
    ASSUME Inv, AllNewline
    PROVE  Inv'
<1> USE ThreadsAssumption
DEF AllNewline, NextNode, NULL, Go, locals, shared, budget, Inv, IInv
<1>0. DOMAIN list = 1 .. Len(list) /\ Len(list) \in Nat
  BY LenProperties
<1>1. TypeOK' /\ list' \in Seq(Event)
  BY <1>0, SMTT(20), ZenonT(40) DEF TypeOK, SessionPlaces, HostPlaces, Pointers, All
<1>2. RequestInv'
  BY <1>0 DEF TypeOK, RequestInv, CreatePlaces, WritePlaces, All
<1>3. WriterInv'
  BY <1>0 DEF TypeOK, WriterInv, WritePlaces, All
<1>4. ReaderInv'
  BY <1>0 DEF TypeOK, ReaderInv, ReadPlaces, HostReadPlaces, All
<1>5. PointerInv' /\ SearchInv' /\ UniqueIds'
  BY <1>0 DEF TypeOK, PointerInv, SearchInv, UniqueIds, EventPlaces,
         HostEventPlaces, All
<1> QED
  BY <1>1, <1>2, <1>3, <1>4, <1>5

\* The host leaves.
LEMMA AllRdUnlockInv ==
    ASSUME Inv, AllRdUnlock
    PROVE  Inv'
<1> USE ThreadsAssumption
DEF AllRdUnlock, DropRead, Go, locals, shared, budget, Inv, IInv
<1>1. TypeOK' /\ list' \in Seq(Event)
  BY SMTT(20), ZenonT(40) DEF TypeOK, SessionPlaces, HostPlaces, Pointers, All,
         ReaderInv, HostReadPlaces
<1>2. RequestInv'
  BY DEF TypeOK, RequestInv, CreatePlaces, WritePlaces, All
<1>3. WriterInv'
  BY DEF TypeOK, WriterInv, WritePlaces, All,
         ReaderInv, HostReadPlaces
<1>4. ReaderInv'
  BY DEF TypeOK, ReaderInv, ReadPlaces, HostReadPlaces, All
<1>5. PointerInv' /\ SearchInv' /\ UniqueIds'
  BY DEF TypeOK, PointerInv, SearchInv, UniqueIds, EventPlaces,
         HostEventPlaces, All
<1> QED
  BY <1>1, <1>2, <1>3, <1>4, <1>5

------------------------------------------------------------------------------
(***************************************************************************)
(* Every step preserves the invariant.                                     *)
(***************************************************************************)
LEMMA ServeInv ==
    ASSUME Inv, NEW t \in Threads, Serve(t)
    PROVE  Inv'
<1>1. CASE CreateStep(t)
  BY <1>1, CreateLockInv, CreateLookupInv, CreateNoMemoryInv, CreateAppendInv,
     CreateUnlockInv DEF CreateStep
<1>2. CASE ReserveStep(t)
  <2>1. CASE ReserveRdLock(t)
    BY <2>1, TakeReadInv DEF ReserveRdLock
  <2>2. CASE ReserveLookup(t)
    BY <2>2, LookupInv DEF ReserveLookup
  <2>3. CASE ReserveFound(t)
    BY <2>3, DropReadInv DEF ReserveFound, Found
  <2>4. CASE ReserveNotFound(t)
    BY <2>4, NotFoundInv DEF ReserveNotFound
  <2>5. CASE ReserveMutex(t)
    BY <2>5, TakeMutexInv DEF ReserveMutex
  <2>6. CASE ReserveUnlock(t)
    BY <2>6, DropMutexInv DEF ReserveUnlock
  <2> QED
    BY <1>2, <2>1, <2>2, <2>3, <2>4, <2>5, <2>6, ReserveCheckInv,
       ReserveNumberInv, ReserveAssignInv DEF ReserveStep
<1>3. CASE ShowStep(t)
  <2>1. CASE ShowRdLock(t)
    BY <2>1, TakeReadInv DEF ShowRdLock
  <2>2. CASE ShowLookup(t)
    BY <2>2, LookupInv DEF ShowLookup
  <2>3. CASE ShowFound(t)
    BY <2>3, DropReadInv DEF ShowFound, Found
  <2>4. CASE ShowNotFound(t)
    BY <2>4, NotFoundInv DEF ShowNotFound
  <2>5. CASE ShowMutex(t)
    BY <2>5, TakeMutexInv DEF ShowMutex
  <2>6. CASE ShowUnlock(t)
    BY <2>6, DropMutexInv DEF ShowUnlock
  <2> QED
    BY <1>3, <2>1, <2>2, <2>3, <2>4, <2>5, <2>6, ShowCopyInv DEF ShowStep
<1>4. CASE ListStep(t)
  <2>1. CASE ListRdLock(t)
    BY <2>1, TakeReadInv DEF ListRdLock
  <2>2. CASE ListRdUnlock(t)
    BY <2>2, DropReadInv DEF ListRdUnlock
  <2> QED
    BY <1>4, <2>1, <2>2, ListCountInv, ListIdsInv DEF ListStep
<1> QED
  BY <1>1, <1>2, <1>3, <1>4, ReturnInv DEF Serve

LEMMA ReportStepInv ==
    ASSUME Inv, Report
    PROVE  Inv'
<1>1. CASE AllPrintFails
  BY <1>1, HostDropMutexInv DEF AllPrintFails
<1>2. CASE AllUnlock
  BY <1>2, HostDropMutexInv DEF AllUnlock
<1>3. CASE AllNewlineFails
  BY <1>3, HostDropMutexInv DEF AllNewlineFails
<1> QED
  BY <1>1, <1>2, <1>3, AllRdLockInv, AllLookupInv, HostTakeMutexInv,
     AllPrintInv, AllNewlineInv, AllRdUnlockInv DEF Report

LEMMA NextInv == Inv /\ [Next]_vars => Inv'
<1> SUFFICES ASSUME Inv, [Next]_vars PROVE Inv'
  OBVIOUS
<1>1. CASE UNCHANGED vars
  BY <1>1
  DEF vars, shared, locals, budget, Inv, IInv, TypeOK, Pointers, RequestInv,
      WriterInv, ReaderInv, PointerInv, SearchInv, UniqueIds, Nodes
<1>2. CASE Next
  <2>1. ASSUME NEW t \in Threads, Call(t) \/ Serve(t)
        PROVE  Inv'
    BY <2>1, CallInv, ServeInv
  <2> QED
    BY <1>1, <1>2, <2>1, ShowAllInv, ReportStepInv DEF Next, Quiet
<1> QED
  BY <1>1, <1>2

\* The invariant that ServerOps states for TLC is one of every behaviour.
THEOREM Invariance == Spec => []IInv
<1>1. Inv => IInv
  BY DEF Inv
<1> QED
  BY InitInv, NextInv, <1>1, PTL DEF Spec

\* Type correctness: pointers point at nodes, lock counts are never negative,
\* every event keeps a data array of its size.
THEOREM TypeCorrect == Spec => []TypeOK
<1>1. IInv => TypeOK
  BY DEF IInv
<1> QED
  BY Invariance, <1>1, PTL

\* ems_create never lets a second event with the same identifier in, however
\* many clients create it at the same time.
THEOREM IdsAreUnique == Spec => []UniqueIds
<1>1. IInv => UniqueIds
  BY DEF IInv
<1> QED
  BY Invariance, <1>1, PTL

------------------------------------------------------------------------------
(***************************************************************************)
(* Whatever fails: the threads inside the operations never wait for each   *)
(* other in a circle.  HoldersInv is inductive relative to IInv: a thread  *)
(* that has a mutex is at a place where it does not wait.                  *)
(***************************************************************************)
LEMMA HoldersFrame ==
    ASSUME Inv, HoldersInv, NEW t \in All, NEW from, NEW to, Go(t, from, to),
           from \in MutexPlaces => to \in MutexPlaces,
           mutex' = mutex,
           \A u \in All : pc[u] \in MutexPlaces => ev'[u] = ev[u]
    PROVE  HoldersInv'
<1>1. pc \in [All -> SessionPlaces \cup HostPlaces]
  BY DEF Inv, IInv, TypeOK
<1>2. \A u \in All : pc[u] \in MutexPlaces => pc'[u] \in MutexPlaces
  BY <1>1 DEF Go
<1>3. \A n \in DOMAIN mutex : mutex[n] \in All \cup {NoThread}
  BY ElementOfSeq, LenProperties DEF Inv, IInv, TypeOK
<1> QED
  BY <1>2, <1>3 DEF HoldersInv

LEMMA TakeMutexHolders ==
    ASSUME Inv, HoldersInv, NEW t \in All, NEW from, NEW to,
           from \notin MutexPlaces, to \in MutexPlaces, TakeMutex(t, from, to)
    PROVE  HoldersInv'
<1>1. /\ pc \in [All -> SessionPlaces \cup HostPlaces]
      /\ pc[t] = from /\ pc' = [pc EXCEPT ![t] = to] /\ ev' = ev
      /\ mutex' = [mutex EXCEPT ![ev[t]] = t]
  BY DEF Inv, IInv, TypeOK, TakeMutex, Go, locals
<1> SUFFICES ASSUME NEW n \in DOMAIN mutex, mutex'[n] # NoThread
             PROVE  pc'[mutex'[n]] \in MutexPlaces /\ ev[mutex'[n]] = n
  BY <1>1 DEF HoldersInv
<1>2. CASE n = ev[t]
  BY <1>1, <1>2
<1>3. CASE n # ev[t]
  <2>1. mutex'[n] = mutex[n] /\ pc[mutex[n]] \in MutexPlaces /\ ev[mutex[n]] = n
    BY <1>1, <1>3 DEF HoldersInv
  <2> QED
    BY <1>1, <1>3, <2>1
<1> QED
  BY <1>2, <1>3

\* A thread that leaves an event leaves its mutex free, be it its own or not.
LEMMA DropMutexHolders ==
    ASSUME Inv, HoldersInv, NEW t \in All, NEW from, NEW to,
           DropMutex(t, from, to)
    PROVE  HoldersInv'
<1>1. /\ pc \in [All -> SessionPlaces \cup HostPlaces]
      /\ pc[t] = from /\ pc' = [pc EXCEPT ![t] = to] /\ ev' = ev
      /\ mutex' = [mutex EXCEPT ![ev[t]] = NoThread]
  BY DEF Inv, IInv, TypeOK, DropMutex, Go, locals
<1> SUFFICES ASSUME NEW n \in DOMAIN mutex, mutex'[n] # NoThread
             PROVE  pc'[mutex'[n]] \in MutexPlaces /\ ev[mutex'[n]] = n
  BY <1>1 DEF HoldersInv
<1>2. n # ev[t] /\ mutex'[n] = mutex[n]
  BY <1>1
<1>3. pc[mutex[n]] \in MutexPlaces /\ ev[mutex[n]] = n
  BY <1>2 DEF HoldersInv
<1> QED
  BY <1>1, <1>2, <1>3

LEMMA CreateAppendHolders ==
    ASSUME Inv, HoldersInv, NEW t \in Threads, CreateAppend(t)
    PROVE  HoldersInv'
<1>1. /\ pc \in [All -> SessionPlaces \cup HostPlaces] /\ t \in All
      /\ pc[t] = "createAppend" /\ pc' = [pc EXCEPT ![t] = "createUnlock"]
      /\ ev' = ev /\ mutex' = Append(mutex, NoThread)
      /\ mutex \in Seq(All \cup {NoThread})
  BY DEF Inv, IInv, TypeOK, CreateAppend, Go, All
<1>2. \A n \in DOMAIN mutex' :
         mutex'[n] # NoThread => n \in DOMAIN mutex /\ mutex'[n] = mutex[n]
  BY <1>1, LenProperties, AppendProperties
<1>3. pc[t] \notin MutexPlaces
  BY <1>1 DEF MutexPlaces, TakingPlaces
<1> QED
  BY <1>1, <1>2, <1>3 DEF HoldersInv

\* The steps of a session thread that touch no mutex.
LEMMA PlainHolders ==
    ASSUME Inv, HoldersInv, NEW t \in Threads, NEW from, NEW to,
           from \in MutexPlaces => to \in MutexPlaces,
           \/ TakeWrite(t, from, to)
           \/ DropWrite(t, from, to)
           \/ TakeRead(t, from, to)
           \/ DropRead(t, from, to)
           \/ Found(t, from, to)
           \/ NotFound(t, from, to)
           \/ Lookup(t, from, to) /\ from \notin MutexPlaces
           \/ Go(t, from, to) /\ mutex' = mutex /\ ev' = ev
    PROVE  HoldersInv'
<1>1. Go(t, from, to) /\ mutex' = mutex /\ t \in All
  BY DEF TakeWrite, DropWrite, TakeRead, DropRead, Found, NotFound, Lookup,
         shared, All
<1>2. ASSUME NEW u \in All, pc[u] \in MutexPlaces PROVE ev'[u] = ev[u]
  <2>1. ev \in [All -> Pointers]
    BY DEF Inv, IInv, TypeOK
  <2> QED
    BY <1>2, <2>1
    DEF TakeWrite, DropWrite, TakeRead, DropRead, Found, NotFound, Lookup,
        locals, Go
<1> QED
  BY <1>1, <1>2, HoldersFrame

LEMMA ServeHolders ==
    ASSUME Inv, HoldersInv, NEW t \in Threads, Serve(t)
    PROVE  HoldersInv'
<1> USE DEF MutexPlaces, TakingPlaces
<1>1. CASE CreateStep(t)
  <2>1. CASE CreateLock(t) \/ CreateUnlock(t)
    BY <2>1, PlainHolders DEF CreateLock, CreateUnlock
  <2>2. CASE CreateLookup(t)
    BY <2>2, PlainHolders DEF CreateLookup, shared
  <2>3. CASE CreateNoMemory(t)
    BY <2>3, PlainHolders DEF CreateNoMemory, shared
  <2> QED
    BY <1>1, <2>1, <2>2, <2>3, CreateAppendHolders DEF CreateStep
<1>2. CASE ReserveStep(t)
  <2>1. CASE ReserveRdLock(t) \/ ReserveLookup(t) \/ ReserveFound(t)
               \/ ReserveNotFound(t)
    BY <2>1, PlainHolders
    DEF ReserveRdLock, ReserveLookup, ReserveFound, ReserveNotFound
  <2>2. CASE ReserveMutex(t)
    BY <2>2, TakeMutexHolders DEF ReserveMutex, All
  <2>3. CASE ReserveCheck(t)
    BY <2>3, PlainHolders DEF ReserveCheck, shared
  <2>4. CASE ReserveNumber(t)
    BY <2>4, PlainHolders DEF ReserveNumber
  <2>5. CASE ReserveAssign(t)
    BY <2>5, PlainHolders DEF ReserveAssign
  <2>6. CASE ReserveUnlock(t)
    BY <2>6, DropMutexHolders DEF ReserveUnlock, All
  <2> QED
    BY <1>2, <2>1, <2>2, <2>3, <2>4, <2>5, <2>6 DEF ReserveStep
<1>3. CASE ShowStep(t)
  <2>1. CASE ShowRdLock(t) \/ ShowLookup(t) \/ ShowFound(t)
               \/ ShowNotFound(t)
    BY <2>1, PlainHolders
    DEF ShowRdLock, ShowLookup, ShowFound, ShowNotFound
  <2>2. CASE ShowMutex(t)
    BY <2>2, TakeMutexHolders DEF ShowMutex, All
  <2>3. CASE ShowCopy(t)
    BY <2>3, PlainHolders DEF ShowCopy, shared
  <2>4. CASE ShowUnlock(t)
    BY <2>4, DropMutexHolders DEF ShowUnlock, All
  <2> QED
    BY <1>3, <2>1, <2>2, <2>3, <2>4 DEF ShowStep
<1>4. CASE ListStep(t)
  <2>1. CASE ListRdLock(t) \/ ListRdUnlock(t)
    BY <2>1, PlainHolders DEF ListRdLock, ListRdUnlock
  <2>2. CASE ListCount(t) \/ ListIds(t)
    BY <2>2, PlainHolders DEF ListCount, ListIds, shared
  <2> QED
    BY <1>4, <2>1, <2>2 DEF ListStep
<1>5. CASE Return(t)
  <2>1. /\ Go(t, "return", "idle") /\ mutex' = mutex /\ t \in All
        /\ pc[t] = "return" /\ ev' = [ev EXCEPT ![t] = NULL]
        /\ ev \in [All -> Pointers]
    BY <1>5 DEF Return, Go, shared, All, Inv, IInv, TypeOK
  <2> QED
    BY <2>1, HoldersFrame
<1> QED
  BY <1>1, <1>2, <1>3, <1>4, <1>5 DEF Serve

LEMMA ReportHolders ==
    ASSUME Inv, HoldersInv, Report
    PROVE  HoldersInv'
<1> USE DEF MutexPlaces, TakingPlaces
<1>0. Host \in All /\ ev \in [All -> Pointers]
  BY DEF All, Inv, IInv, TypeOK
<1>1. CASE AllRdLock
  BY <1>0, <1>1, HoldersFrame DEF AllRdLock
<1>2. CASE AllLookup
  <2>1. /\ Go(Host, "allNode", pc'[Host]) /\ pc[Host] = "allNode"
        /\ mutex' = mutex /\ \A u \in All \ {Host} : ev'[u] = ev[u]
    BY <1>0, <1>2 DEF AllLookup, Go, shared, Inv, IInv, TypeOK
  <2> QED
    BY <1>0, <2>1, HoldersFrame
<1>3. CASE AllMutex
  BY <1>0, <1>3, TakeMutexHolders DEF AllMutex
<1>4. CASE AllPrint
  BY <1>0, <1>4, HoldersFrame DEF AllPrint, shared
<1>5. CASE AllPrintFails \/ AllUnlock \/ AllNewlineFails
  BY <1>0, <1>5, DropMutexHolders DEF AllPrintFails, AllUnlock, AllNewlineFails
<1>6. CASE AllNewline
  BY <1>0, <1>6, HoldersFrame DEF AllNewline, shared
<1>7. CASE AllRdUnlock
  BY <1>0, <1>7, HoldersFrame DEF AllRdUnlock, DropRead, locals
<1> QED
  BY <1>1, <1>2, <1>3, <1>4, <1>5, <1>6, <1>7 DEF Report

LEMMA NextHolders == Inv /\ HoldersInv /\ [Next]_vars => HoldersInv'
<1> SUFFICES ASSUME Inv, HoldersInv, [Next]_vars PROVE HoldersInv'
  OBVIOUS
<1>1. CASE UNCHANGED vars
  BY <1>1 DEF vars, shared, locals, HoldersInv
<1>2. ASSUME NEW t \in Threads, Call(t) PROVE HoldersInv'
  <2>1. PICK r \in Requests : Go(t, "idle", r.op)
    BY <1>2 DEF Call
  <2> QED
    BY <1>2, <2>1, PlainHolders DEF Call, shared, MutexPlaces, TakingPlaces
<1>3. CASE ShowAll
  BY <1>3, HoldersFrame DEF ShowAll, shared, All, MutexPlaces, TakingPlaces
<1> QED
  BY <1>1, <1>2, <1>3, ServeHolders, ReportHolders DEF Next, Quiet

\* What a thread waits for is never held by a thread that waits as well, but for
\* the list lock that a failed ems_show_all has kept.
LEMMA WaitsForMovers == IInv /\ HoldersInv => StuckOnlyIfLeft
<1> DEFINE busy == {t \in All : pc[t] # "idle"}
<1> SUFFICES ASSUME IInv, HoldersInv, busy # {}, \A t \in busy : Waits(t)
             PROVE  ListLeft /\ \A t \in busy : pc[t] = "create"
  BY DEF StuckOnlyIfLeft
<1>1. /\ writer \in Threads \cup {NoThread} /\ readers \in [All -> Nat]
      /\ NoThread \notin All /\ Host \notin Threads
      /\ mutex \in Seq(All \cup {NoThread})
      /\ ev \in [All -> Pointers] /\ Len(mutex) = Len(list)
  BY ThreadsAssumption DEF IInv, TypeOK
<1>2. \A t \in All : pc[t] \notin WritePlaces /\ pc[t] \notin MutexPlaces
                  /\ pc[t] \notin ReadPlaces
                  /\ pc[t] \notin HostReadPlaces \ {"allMutex"}
  BY DEF Waits, WritePlaces, MutexPlaces, TakingPlaces, ReadPlaces,
         HostReadPlaces
<1>3. writer = NoThread
  BY <1>1, <1>2 DEF IInv, WriterInv, All
<1>4. \A n \in DOMAIN mutex : mutex[n] = NoThread
  <2>1. \A n \in DOMAIN mutex : mutex[n] \in All \cup {NoThread}
    BY <1>1, ElementOfSeq, LenProperties
  <2> QED
    BY <1>2, <2>1 DEF HoldersInv
<1>5. \A t \in busy : pc[t] \notin {"reserveMutex", "showMutex", "allMutex"}
  <2> SUFFICES ASSUME NEW t \in All,
                      pc[t] \in {"reserveMutex", "showMutex", "allMutex"}
               PROVE  mutex[ev[t]] = NoThread
    BY DEF Waits
  <2>1. ev[t] # NULL
    BY DEF IInv, TypeOK, PointerInv, EventPlaces, HostEventPlaces, All,
           SessionPlaces, HostPlaces
  <2>2. ev[t] \in DOMAIN mutex
    BY <1>1, <2>1, LenProperties DEF Pointers
  <2> QED
    BY <1>4, <2>2
<1>6. \A t \in busy : pc[t] = "create" /\ \E u \in All : readers[u] # 0
  BY <1>3, <1>5 DEF Waits
<1>7. pc[Host] = "idle"
  <2>1. pc[Host] # "create"
    BY DEF IInv, TypeOK, HostPlaces
  <2> QED
    BY <1>6, <2>1 DEF All
<1>8. \A u \in Threads : readers[u] = 0
  BY <1>2 DEF IInv, ReaderInv, All
<1>9. readers[Host] > 0
  <2>1. PICK u \in All : readers[u] # 0
    BY <1>6
  <2> QED
    BY <1>1, <1>8, <2>1 DEF All
<1> QED
  BY <1>6, <1>7, <1>9 DEF ListLeft

LEMMA HoldersInvariant == Spec => []HoldersInv
<1>1. Init => HoldersInv
  BY DEF Init, HoldersInv
<1> QED
  BY InitInv, NextInv, <1>1, NextHolders, PTL DEF Spec

\* The operations never come to a stop by waiting for each other, however many
\* threads there are and whatever fails; only creates stop, and only after a
\* failed ems_show_all kept the list.
THEOREM StuckOnlyByReport == Spec => []StuckOnlyIfLeft
  BY Invariance, HoldersInvariant, WaitsForMovers, PTL

------------------------------------------------------------------------------
(***************************************************************************)
(* As long as writes to stdout do not fail: a thread has the mutex of its  *)
(* event to itself, no seat is handed out twice, and a thread that has     *)
(* left its operation holds no lock.                                       *)
(*                                                                         *)
(* SaleInv is inductive relative to IInv.  Two frame lemmas say when a     *)
(* step of one thread leaves the mutexes, and what the other threads know  *)
(* of their seats, as they were.                                           *)
(***************************************************************************)

SeatsInv == \A t \in Threads : SeatsOf(t)

\* A thread that moves between places on the same side of a mutex, and keeps
\* its pointer while it holds one, disturbs nobody's mutex.
LEMMA MutexFrame ==
    ASSUME Inv, MutexInv, NEW t \in All, NEW from, NEW to, Go(t, from, to),
           from \in MutexPlaces <=> to \in MutexPlaces,
           mutex' = mutex,
           \A u \in All : pc[u] \in MutexPlaces => ev'[u] = ev[u]
    PROVE  MutexInv'
<1>1. pc \in [All -> SessionPlaces \cup HostPlaces]
  BY DEF Inv, IInv, TypeOK
<1>2. \A u \in All : pc'[u] \in MutexPlaces <=> pc[u] \in MutexPlaces
  BY <1>1 DEF Go
<1> QED
  BY <1>2 DEF MutexInv

\* A step of t leaves alone what another thread knows of its seats, unless it
\* changes the event that the other thread is taking seats of.
LEMMA SeatsFrame ==
    ASSUME Inv, SeatsInv, NEW t \in All, NEW from, NEW to, Go(t, from, to),
           \A u \in Threads \ {t} :
              /\ req'[u] = req[u] /\ rid'[u] = rid[u] /\ seat'[u] = seat[u]
              /\ pc[u] \in TakingPlaces => /\ ev'[u] = ev[u]
                                           /\ list'[ev[u]] = list[ev[u]]
    PROVE  \A u \in Threads \ {t} : SeatsOf(u)'
<1>1. pc \in [All -> SessionPlaces \cup HostPlaces]
  BY DEF Inv, IInv, TypeOK
<1> SUFFICES ASSUME NEW u \in Threads \ {t} PROVE SeatsOf(u)'
  OBVIOUS
<1>2. pc'[u] = pc[u]
  BY <1>1 DEF Go, All
<1>3. SeatsOf(u)
  BY DEF SeatsInv
<1>4. pc[u] \in TakingPlaces => ev'[u] = ev[u] /\ list'[ev'[u]] = list[ev[u]]
  OBVIOUS
<1>5. req'[u] = req[u] /\ rid'[u] = rid[u] /\ seat'[u] = seat[u]
  OBVIOUS
<1> QED
  BY <1>2, <1>3, <1>4, <1>5 DEF SeatsOf, InBounds, Wanted, SeatIndex

\* The steps of a session thread that neither change the list nor touch a
\* mutex: they take or drop the list lock, or set a local variable.
LEMMA PlainStepSale ==
    ASSUME Inv, SaleInv, NEW t \in Threads, NEW from, NEW to, Go(t, from, to),
           from \in MutexPlaces <=> to \in MutexPlaces,
           to \in ReservePlaces => from \in ReservePlaces,
           to \in SeatOnePlaces => from \in SeatOnePlaces,
           to \notin TakingPlaces,
           UNCHANGED <<list, mutex, req, rid, seat>>,
           readers'[Host] = readers[Host],
           \A u \in All : u # t \/ from \in MutexPlaces => ev'[u] = ev[u]
    PROVE  SaleInv'
<1>1. t \in All /\ t # Host /\ Host \in All
  BY ThreadsAssumption DEF All
<1>2. pc \in [All -> SessionPlaces \cup HostPlaces] /\ pc[t] = from
  BY DEF Inv, IInv, TypeOK, Go
<1>3. MutexInv'
  BY <1>1, <1>2, MutexFrame DEF SaleInv
<1>4. HostReaderInv'
  BY <1>1, <1>2 DEF SaleInv, HostReaderInv, Go
<1>5. \A u \in Threads \ {t} : SeatsOf(u)'
  BY <1>1, SeatsFrame DEF SaleInv, SeatsInv, All
<1>6. SeatsOf(t)'
  BY <1>1, <1>2 DEF SaleInv, SeatsOf, Go
<1> QED
  BY <1>3, <1>4, <1>5, <1>6 DEF SaleInv

------------------------------------------------------------------------------
(***************************************************************************)
(* Mutexes.                                                                *)
(***************************************************************************)
\* The mutex that t takes was free, so no other thread is at a place where it
\* would hold it.
LEMMA TakeMutexSale ==
    ASSUME Inv, SaleInv, NEW t \in All, NEW from, NEW to,
           <<from, to>> \in {<<"reserveMutex", "reserveCheck">>,
                             <<"showMutex", "showCopy">>,
                             <<"allMutex", "allPrint">>},
           TakeMutex(t, from, to)
    PROVE  SaleInv'
<1>1. /\ pc \in [All -> SessionPlaces \cup HostPlaces]
      /\ pc[t] = from /\ pc' = [pc EXCEPT ![t] = to]
      /\ ev' = ev /\ list' = list /\ readers' = readers
      /\ req' = req /\ rid' = rid /\ seat' = seat
      /\ mutex[ev[t]] = NoThread /\ mutex' = [mutex EXCEPT ![ev[t]] = t]
  BY DEF Inv, IInv, TypeOK, TakeMutex, Go, locals
<1>2. from \notin MutexPlaces /\ to \in MutexPlaces
  BY DEF MutexPlaces, TakingPlaces
<1>3. DOMAIN mutex' = DOMAIN mutex
  BY <1>1
<1>4. MutexInv'
  <2> SUFFICES ASSUME NEW u \in All, NEW n \in DOMAIN mutex
               PROVE  mutex'[n] = u <=> (pc'[u] \in MutexPlaces /\ ev[u] = n)
    BY <1>1, <1>3 DEF MutexInv
  <2>1. mutex[n] = u <=> (pc[u] \in MutexPlaces /\ ev[u] = n)
    BY DEF SaleInv, MutexInv
  <2>2. CASE n = ev[t]
    BY <1>1, <1>2, <2>1, <2>2, ThreadsAssumption
  <2>3. CASE n # ev[t]
    BY <1>1, <1>2, <2>1, <2>3
  <2> QED
    BY <2>2, <2>3
<1>5. HostReaderInv'
  BY <1>1 DEF SaleInv, HostReaderInv, HostReadPlaces, All
<1>6. \A u \in Threads \ {t} : SeatsOf(u)'
  BY <1>1, SeatsFrame DEF SaleInv, SeatsInv, Go
<1>7. t \in Threads => SeatsOf(t)'
  BY <1>1 DEF SaleInv, SeatsOf, ReservePlaces, SeatOnePlaces, TakingPlaces
<1> QED
  BY <1>4, <1>5, <1>6, <1>7 DEF SaleInv

\* A thread releases the mutex it holds, and no other.
LEMMA DropMutexSale ==
    ASSUME Inv, SaleInv, NEW t \in All, NEW from, NEW to,
           <<from, to>> \in {<<"reserveUnlock", "return">>,
                             <<"showUnlock", "return">>,
                             <<"allUnlock", "allNewline">>},
           DropMutex(t, from, to)
    PROVE  SaleInv'
<1>1. /\ pc \in [All -> SessionPlaces \cup HostPlaces]
      /\ pc[t] = from /\ pc' = [pc EXCEPT ![t] = to]
      /\ ev' = ev /\ list' = list /\ readers' = readers
      /\ req' = req /\ rid' = rid /\ seat' = seat
      /\ mutex' = [mutex EXCEPT ![ev[t]] = NoThread]
  BY DEF Inv, IInv, TypeOK, DropMutex, Go, locals
<1>2. from \in MutexPlaces /\ to \notin MutexPlaces
  BY DEF MutexPlaces, TakingPlaces
<1>3. DOMAIN mutex' = DOMAIN mutex
  BY <1>1
<1>4. MutexInv'
  <2> SUFFICES ASSUME NEW u \in All, NEW n \in DOMAIN mutex
               PROVE  mutex'[n] = u <=> (pc'[u] \in MutexPlaces /\ ev[u] = n)
    BY <1>1, <1>3 DEF MutexInv
  <2>1. \A v \in All : mutex[n] = v <=> (pc[v] \in MutexPlaces /\ ev[v] = n)
    BY DEF SaleInv, MutexInv
  <2>2. CASE n = ev[t]
    <3>1. mutex[n] = t
      BY <1>1, <1>2, <2>1, <2>2
    <3> QED
      BY <1>1, <1>2, <2>1, <2>2, <3>1, ThreadsAssumption
  <2>3. CASE n # ev[t]
    BY <1>1, <1>2, <2>1, <2>3
  <2> QED
    BY <2>2, <2>3
<1>5. HostReaderInv'
  BY <1>1 DEF SaleInv, HostReaderInv, HostReadPlaces, All
<1>6. \A u \in Threads \ {t} : SeatsOf(u)'
  BY <1>1, SeatsFrame DEF SaleInv, SeatsInv, Go
<1>7. t \in Threads => SeatsOf(t)'
  BY <1>1 DEF SaleInv, SeatsOf, ReservePlaces, SeatOnePlaces, TakingPlaces
<1> QED
  BY <1>4, <1>5, <1>6, <1>7 DEF SaleInv

------------------------------------------------------------------------------
(***************************************************************************)
(* The steps of a session thread.                                          *)
(***************************************************************************)
\* A request to reserve is one that names a seat, and starts with its first.
LEMMA CallSale ==
    ASSUME Inv, SaleInv, NEW t \in Threads, Call(t)
    PROVE  SaleInv'
<1>1. PICK r \in Requests : Go(t, "idle", r.op) /\ req' = [req EXCEPT ![t] = r]
  BY DEF Call
<1>2. /\ t \in All /\ t # Host /\ Host \in All
      /\ pc \in [All -> SessionPlaces \cup HostPlaces] /\ pc[t] = "idle"
      /\ req \in [Threads -> Requests \cup {None}]
      /\ UNCHANGED <<list, mutex, readers, ev, rid, seat>>
  BY <1>1, ThreadsAssumption DEF Call, Inv, IInv, TypeOK, Go, All, shared
<1>3. /\ r.op \in {"create", "reserve", "show", "list"}
      /\ r.op = "reserve" => r \in ReserveRequest
  BY RequestsAssumption
  DEF Request, CreateRequest, ReserveRequest, ShowRequest, ListRequest
<1>4. MutexInv'
  BY <1>1, <1>2, <1>3, MutexFrame DEF SaleInv, MutexPlaces, TakingPlaces
<1>5. HostReaderInv'
  BY <1>1, <1>2 DEF SaleInv, HostReaderInv, Go
<1>6. \A u \in Threads \ {t} : SeatsOf(u)'
  BY <1>1, <1>2, SeatsFrame DEF SaleInv, SeatsInv
<1>7. SeatsOf(t)'
  BY <1>1, <1>2, <1>3
  DEF SaleInv, SeatsOf, Go, ReservePlaces, SeatOnePlaces, TakingPlaces
<1> QED
  BY <1>4, <1>5, <1>6, <1>7 DEF SaleInv

\* The next request starts with its first seat again.
LEMMA ReturnSale ==
    ASSUME Inv, SaleInv, NEW t \in Threads, Return(t)
    PROVE  SaleInv'
<1>1. /\ t \in All /\ t # Host /\ Host \in All /\ Go(t, "return", "idle")
      /\ pc \in [All -> SessionPlaces \cup HostPlaces] /\ pc[t] = "return"
      /\ req' = [req EXCEPT ![t] = None] /\ ev' = [ev EXCEPT ![t] = NULL]
      /\ rid' = [rid EXCEPT ![t] = 0] /\ seat' = [seat EXCEPT ![t] = 1]
      /\ req \in [Threads -> Requests \cup {None}] /\ ev \in [All -> Pointers]
      /\ rid \in [Threads -> Nat] /\ seat \in [Threads -> Nat \ {0}]
      /\ UNCHANGED <<list, mutex, readers>>
  BY ThreadsAssumption DEF Return, Inv, IInv, TypeOK, Go, All, shared
<1>2. MutexInv'
  BY <1>1, MutexFrame DEF SaleInv, MutexPlaces, TakingPlaces
<1>3. HostReaderInv'
  BY <1>1 DEF SaleInv, HostReaderInv, Go
<1>4. \A u \in Threads \ {t} : SeatsOf(u)'
  BY <1>1, SeatsFrame DEF SaleInv, SeatsInv, All
<1>5. SeatsOf(t)'
  BY <1>1 DEF SeatsOf, Go, ReservePlaces, SeatOnePlaces, TakingPlaces
<1> QED
  BY <1>2, <1>3, <1>4, <1>5 DEF SaleInv

\* The new event has a mutex that nobody holds, and nobody points at it yet.
LEMMA CreateAppendSale ==
    ASSUME Inv, SaleInv, NEW t \in Threads, CreateAppend(t)
    PROVE  SaleInv'
<1>1. /\ t \in All /\ t # Host /\ Host \in All
      /\ Go(t, "createAppend", "createUnlock")
      /\ pc \in [All -> SessionPlaces \cup HostPlaces]
      /\ pc[t] = "createAppend" /\ pc' = [pc EXCEPT ![t] = "createUnlock"]
      /\ ev \in [All -> Pointers]
      /\ UNCHANGED <<req, rid, seat, ev, readers>>
  BY ThreadsAssumption DEF CreateAppend, Inv, IInv, TypeOK, Go, All
<1>2. /\ DOMAIN list = 1 .. Len(list) /\ Len(list) \in Nat
      /\ \A n \in DOMAIN list : list'[n] = list[n]
  BY LenProperties, AppendProperties DEF CreateAppend, Inv
<1>3. /\ mutex \in Seq(All \cup {NoThread}) /\ Len(mutex) = Len(list)
      /\ mutex' = Append(mutex, NoThread)
  BY DEF CreateAppend, Inv, IInv, TypeOK
<1>4. /\ DOMAIN mutex = 1 .. Len(list)
      /\ DOMAIN mutex' = 1 .. Len(list) + 1
      /\ \A n \in DOMAIN mutex : mutex'[n] = mutex[n]
      /\ mutex'[Len(list) + 1] = NoThread
  BY <1>2, <1>3, LenProperties, AppendProperties
<1>5. MutexInv'
  <2> SUFFICES ASSUME NEW u \in All, NEW n \in DOMAIN mutex'
               PROVE  mutex'[n] = u <=> (pc'[u] \in MutexPlaces /\ ev[u] = n)
    BY <1>1 DEF MutexInv
  <2>1. pc'[u] \in MutexPlaces <=> pc[u] \in MutexPlaces
    BY <1>1 DEF MutexPlaces, TakingPlaces
  <2>2. CASE n \in DOMAIN mutex
    BY <1>4, <2>1, <2>2 DEF SaleInv, MutexInv
  <2>3. CASE n = Len(list) + 1
    <3>1. ev[u] # n
      BY <1>1, <1>2, <2>3 DEF Pointers, NULL
    <3> QED
      BY <1>4, <2>3, <3>1, ThreadsAssumption
  <2> QED
    BY <1>2, <1>4, <2>2, <2>3
<1>6. HostReaderInv'
  BY <1>1 DEF SaleInv, HostReaderInv
<1>7. \A u \in Threads \ {t} : SeatsOf(u)'
  <2>1. \A u \in Threads : pc[u] \in TakingPlaces => ev[u] \in DOMAIN list
    BY <1>1 DEF Inv, IInv, PointerInv, Pointers, TakingPlaces, EventPlaces, All
  <2> QED
    BY <1>1, <1>2, <2>1, SeatsFrame DEF SaleInv, SeatsInv
<1>8. SeatsOf(t)'
  BY <1>1 DEF SeatsOf, ReservePlaces, SeatOnePlaces, TakingPlaces
<1> QED
  BY <1>5, <1>6, <1>7, <1>8 DEF SaleInv

\* The reservation goes on only when its seats are in the event and free.
LEMMA ReserveCheckSale ==
    ASSUME Inv, SaleInv, NEW t \in Threads, ReserveCheck(t)
    PROVE  SaleInv'
<1> DEFINE possible == /\ InBounds(list[ev[t]], req[t].seats)
                       /\ Free(list[ev[t]], req[t].seats)
           to == IF possible THEN "reserveNumber" ELSE "reserveUnlock"
<1>1. /\ t \in All /\ t # Host /\ Host \in All
      /\ Go(t, "reserveCheck", to)
      /\ pc \in [All -> SessionPlaces \cup HostPlaces]
      /\ pc[t] = "reserveCheck" /\ pc' = [pc EXCEPT ![t] = to]
      /\ UNCHANGED <<list, mutex, readers, req, rid, seat, ev>>
  BY ThreadsAssumption DEF ReserveCheck, Inv, IInv, TypeOK, Go, All, shared
<1>2. MutexInv'
  BY <1>1, MutexFrame DEF SaleInv, MutexPlaces, TakingPlaces
<1>3. HostReaderInv'
  BY <1>1 DEF SaleInv, HostReaderInv
<1>4. \A u \in Threads \ {t} : SeatsOf(u)'
  BY <1>1, SeatsFrame DEF SaleInv, SeatsInv
<1>5. SeatsOf(t)'
  <2>1. req[t] \in ReserveRequest /\ seat[t] = 1
    BY <1>1 DEF SaleInv, SeatsOf, ReservePlaces, SeatOnePlaces
  <2>2. 1 \in DOMAIN req[t].seats
    BY <2>1 DEF ReserveRequest
  <2>3. pc'[t] = "reserveNumber" => possible
    BY <1>1
  <2>4. pc'[t] \in {"reserveNumber", "reserveUnlock"}
    BY <1>1
  <2> HIDE DEF possible, to
  <2>5. possible => \A i \in Wanted(list[ev[t]], req[t].seats) :
                       list[ev[t]].data[i] = 0
    BY DEF possible, Free
  <2>6. possible => InBounds(list[ev[t]], req[t].seats)
    BY DEF possible
  <2> QED
    BY <1>1, <2>1, <2>2, <2>3, <2>4, <2>5, <2>6
    DEF SeatsOf, ReservePlaces, SeatOnePlaces, TakingPlaces
<1> QED
  BY <1>2, <1>3, <1>4, <1>5 DEF SaleInv

\* No other thread that takes seats is at the same event: it would hold the
\* mutex that t holds.
LEMMA AloneAtEvent ==
    ASSUME Inv, SaleInv, NEW t \in Threads, pc[t] \in TakingPlaces
    PROVE  /\ ev[t] \in DOMAIN list
           /\ \A u \in Threads \ {t} : pc[u] \in TakingPlaces => ev[u] # ev[t]
<1>1. ev[t] \in DOMAIN list /\ DOMAIN list = DOMAIN mutex /\ t \in All
  BY LenProperties
  DEF Inv, IInv, TypeOK, PointerInv, Pointers, TakingPlaces, EventPlaces, All
<1>2. mutex[ev[t]] = t
  BY <1>1 DEF SaleInv, MutexInv, MutexPlaces
<1>3. ASSUME NEW u \in Threads \ {t}, pc[u] \in TakingPlaces, ev[u] = ev[t]
      PROVE  FALSE
  BY <1>1, <1>2, <1>3 DEF SaleInv, MutexInv, MutexPlaces, All
<1> QED
  BY <1>1, <1>3

\* Counting a reservation changes no seat.
LEMMA ReserveNumberSale ==
    ASSUME Inv, SaleInv, NEW t \in Threads, ReserveNumber(t)
    PROVE  /\ SaleInv'
           /\ \A n \in DOMAIN list : list'[n].data = list[n].data
<1>1. /\ t \in All /\ t # Host /\ Host \in All
      /\ Go(t, "reserveNumber", "reserveAssign")
      /\ pc \in [All -> SessionPlaces \cup HostPlaces]
      /\ pc[t] = "reserveNumber" /\ pc' = [pc EXCEPT ![t] = "reserveAssign"]
      /\ UNCHANGED <<mutex, readers, req, seat, ev>>
      /\ rid \in [Threads -> Nat] /\ \E v : rid' = [rid EXCEPT ![t] = v]
  BY ThreadsAssumption DEF ReserveNumber, Inv, IInv, TypeOK, Go, All
<1> DEFINE e == list[ev[t]]
           f == [e EXCEPT !.reservations = @ + 1]
<1>2. /\ ev[t] \in DOMAIN list
      /\ \A u \in Threads \ {t} : pc[u] \in TakingPlaces => ev[u] # ev[t]
  BY <1>1, AloneAtEvent DEF TakingPlaces
<1>3. IsEvent(e)
  BY <1>2 DEF Inv, IInv, TypeOK
<1>4. f.data = e.data /\ f.rows = e.rows /\ f.cols = e.cols
  BY <1>3 DEF IsEvent
<1>5. list' = [list EXCEPT ![ev[t]] = f]
  BY DEF ReserveNumber
<1> HIDE DEF f
<1>6. list'[ev[t]] = f /\ \A n \in DOMAIN list \ {ev[t]} : list'[n] = list[n]
  BY <1>2, <1>5 DEF Inv
<1>7. MutexInv'
  BY <1>1, MutexFrame DEF SaleInv, MutexPlaces, TakingPlaces
<1>8. HostReaderInv'
  BY <1>1 DEF SaleInv, HostReaderInv
<1>9. \A u \in Threads \ {t} : SeatsOf(u)'
  <2>1. \A u \in Threads : pc[u] \in TakingPlaces => ev[u] \in DOMAIN list
    BY AloneAtEvent
  <2> QED
    BY <1>1, <1>2, <1>6, <2>1, SeatsFrame DEF SaleInv, SeatsInv
<1>10. SeatsOf(t)'
  <2>1. /\ req[t] \in ReserveRequest /\ seat[t] \in DOMAIN req[t].seats
        /\ InBounds(e, req[t].seats)
        /\ \A i \in Wanted(e, req[t].seats) : e.data[i] = 0
    BY <1>1 DEF SaleInv, SeatsOf, ReservePlaces, TakingPlaces
  <2>2. /\ InBounds(f, req[t].seats)
        /\ Wanted(f, req[t].seats) = Wanted(e, req[t].seats)
    BY <1>4, <2>1 DEF InBounds, Wanted, SeatIndex
  <2> HIDE DEF e
  <2> QED
    BY <1>1, <1>4, <1>6, <2>1, <2>2
    DEF SeatsOf, SeatOnePlaces, ReservePlaces, TakingPlaces
<1> QED
  BY <1>4, <1>6, <1>7, <1>8, <1>9, <1>10 DEF SaleInv

\* The seat that is assigned is free, or has the number of this reservation
\* already: nobody else's seat changes.
LEMMA ReserveAssignSale ==
    ASSUME Inv, SaleInv, NEW t \in Threads, ReserveAssign(t)
    PROVE  /\ SaleInv'
           /\ \A n \in DOMAIN list : \A i \in DOMAIN list[n].data :
                 list[n].data[i] # 0 => list'[n].data[i] = list[n].data[i]
<1> DEFINE to == IF seat[t] < Len(req[t].seats) THEN "reserveAssign"
                                                ELSE "reserveUnlock"
           e == list[ev[t]]
           c == req[t].seats[seat[t]]
           idx == SeatIndex(e, c[1], c[2])
           f == [e EXCEPT !.data[idx] = rid[t]]
<1>1. /\ t \in All /\ t # Host /\ Host \in All
      /\ Go(t, "reserveAssign", to)
      /\ to \in {"reserveAssign", "reserveUnlock"}
      /\ pc \in [All -> SessionPlaces \cup HostPlaces]
      /\ pc[t] = "reserveAssign" /\ pc' = [pc EXCEPT ![t] = to]
      /\ UNCHANGED <<mutex, readers, req, rid, ev>>
      /\ seat \in [Threads -> Nat \ {0}]
      /\ seat' = [seat EXCEPT ![t] = seat[t] + 1]
  BY ThreadsAssumption DEF ReserveAssign, Inv, IInv, TypeOK, Go, All
<1>2. /\ ev[t] \in DOMAIN list
      /\ \A u \in Threads \ {t} : pc[u] \in TakingPlaces => ev[u] # ev[t]
  BY <1>1, AloneAtEvent DEF TakingPlaces
<1>3. IsEvent(e)
  BY <1>2 DEF Inv, IInv, TypeOK
<1>4. /\ req[t] \in ReserveRequest /\ seat[t] \in DOMAIN req[t].seats
      /\ InBounds(e, req[t].seats)
      /\ \A i \in Wanted(e, req[t].seats) : e.data[i] = 0 \/ e.data[i] = rid[t]
  BY <1>1 DEF SaleInv, SeatsOf, ReservePlaces, TakingPlaces
<1>5. idx \in DOMAIN e.data /\ idx \in Wanted(e, req[t].seats)
  <2>1. c[1] \in 1 .. e.rows /\ c[2] \in 1 .. e.cols
    BY <1>4 DEF InBounds
  <2>2. e.rows \in Nat /\ e.cols \in Nat
        /\ DOMAIN e.data = SeatIndices(e.rows, e.cols)
    BY <1>3 DEF IsEvent
  <2> HIDE DEF e
  <2>3. idx \in DOMAIN e.data
    BY <2>1, <2>2, SeatIndexInRange
  <2> QED
    BY <1>4, <2>3 DEF Wanted
<1>6. /\ f.rows = e.rows /\ f.cols = e.cols
      /\ DOMAIN f.data = DOMAIN e.data
      /\ \A i \in DOMAIN e.data : f.data[i] = IF i = idx THEN rid[t]
                                              ELSE e.data[i]
  BY <1>3 DEF IsEvent
<1>7. list' = [list EXCEPT ![ev[t]] = f]
  BY DEF ReserveAssign
<1> HIDE DEF f, idx
<1>8. list'[ev[t]] = f /\ \A n \in DOMAIN list \ {ev[t]} : list'[n] = list[n]
  BY <1>2, <1>7 DEF Inv
<1>9. MutexInv'
  BY <1>1, MutexFrame DEF SaleInv, MutexPlaces, TakingPlaces
<1>10. HostReaderInv'
  BY <1>1 DEF SaleInv, HostReaderInv
<1>11. \A u \in Threads \ {t} : SeatsOf(u)'
  <2>1. \A u \in Threads : pc[u] \in TakingPlaces => ev[u] \in DOMAIN list
    BY AloneAtEvent
  <2> QED
    BY <1>1, <1>2, <1>8, <2>1, SeatsFrame DEF SaleInv, SeatsInv
<1>12. SeatsOf(t)'
  <2>1. /\ InBounds(f, req[t].seats)
        /\ Wanted(f, req[t].seats) = Wanted(e, req[t].seats)
    BY <1>4, <1>6 DEF InBounds, Wanted, SeatIndex
  <2>2. pc'[t] = "reserveAssign" => seat'[t] \in DOMAIN req[t].seats
    <3>1. req[t].seats \in Seq(Nat \X Nat)
      BY <1>4 DEF ReserveRequest
    <3>2. seat[t] \in Nat \ {0}
      BY <1>1
    <3> QED
      BY <1>1, <3>1, <3>2, LenProperties
  <2>3. \A i \in Wanted(e, req[t].seats) : i \in DOMAIN e.data
    <3>1. /\ e.rows \in Nat /\ e.cols \in Nat
          /\ DOMAIN e.data = SeatIndices(e.rows, e.cols)
      BY <1>3 DEF IsEvent
    <3> HIDE DEF e
    <3> QED
      BY <1>4, <3>1, SeatIndexInRange DEF Wanted, InBounds
  <2>4. \A i \in Wanted(f, req[t].seats) : f.data[i] = 0 \/ f.data[i] = rid[t]
    BY <1>4, <1>6, <2>1, <2>3
  <2> HIDE DEF e, to
  <2> QED
    BY <1>1, <1>4, <1>8, <2>1, <2>2, <2>4
    DEF SeatsOf, SeatOnePlaces, ReservePlaces, TakingPlaces
<1>13. ASSUME NEW n \in DOMAIN list, NEW i \in DOMAIN list[n].data,
              list[n].data[i] # 0
       PROVE  list'[n].data[i] = list[n].data[i]
  BY <1>4, <1>5, <1>6, <1>8, <1>13
<1> QED
  BY <1>9, <1>10, <1>11, <1>12, <1>13 DEF SaleInv

------------------------------------------------------------------------------
(***************************************************************************)
(* The steps of the host.                                                  *)
(***************************************************************************)
\* The steps of the host that touch no mutex.
LEMMA HostStepSale ==
    ASSUME Inv, SaleInv, NEW from, NEW to, Go(Host, from, to),
           from \in MutexPlaces <=> to \in MutexPlaces,
           UNCHANGED <<list, mutex, req, rid, seat>>,
           \A u \in All : u # Host \/ from \in MutexPlaces => ev'[u] = ev[u],
           readers'[Host] = IF to \in HostReadPlaces THEN 1 ELSE 0
    PROVE  SaleInv'
<1>1. /\ Host \in All /\ Host \notin Threads
      /\ pc \in [All -> SessionPlaces \cup HostPlaces] /\ pc[Host] = from
      /\ pc' = [pc EXCEPT ![Host] = to]
  BY ThreadsAssumption DEF All, Inv, IInv, TypeOK, Go
<1>2. MutexInv'
  BY <1>1, MutexFrame DEF SaleInv
<1>3. HostReaderInv'
  BY <1>1 DEF HostReaderInv
<1>4. \A u \in Threads : SeatsOf(u)'
  <2>1. \A u \in Threads \ {Host} : SeatsOf(u)'
    BY <1>1, SeatsFrame DEF SaleInv, SeatsInv, All
  <2> QED
    BY <1>1, <2>1
<1> QED
  BY <1>2, <1>3, <1>4 DEF SaleInv

\* The search of ems_show_all never misses: the event is that of a node.
LEMMA AllLookupFinds ==
    ASSUME Inv, AllLookup
    PROVE  ev'[Host] # NULL
<1>1. current \in DOMAIN list /\ DOMAIN list \subseteq Nat \ {0}
  BY LenProperties DEF Inv, IInv, TypeOK, Pointers, AllLookup
<1>2. current \in Nodes(list, list[current].id)
  BY <1>1 DEF Nodes
<1>3. GetEvent(list, list[current].id) # NULL
  BY <1>1, <1>2, GetEventFinds
<1>4. ev \in [All -> Pointers] /\ Host \in All
  BY DEF Inv, IInv, TypeOK, All
<1> QED
  BY <1>3, <1>4 DEF AllLookup

LEMMA ReportSale ==
    ASSUME Inv, SaleInv, ~ StdoutMayFail, Report
    PROVE  SaleInv' /\ list' = list
<1>0. /\ Host \in All /\ readers \in [All -> Nat] /\ ev \in [All -> Pointers]
      /\ readers[Host] = IF pc[Host] \in HostReadPlaces THEN 1 ELSE 0
  BY DEF Inv, IInv, TypeOK, All, SaleInv, HostReaderInv
<1>1. CASE AllRdLock
  <2>1. /\ readers'[Host] = 1 /\ Go(Host, "all", "allNode")
        /\ UNCHANGED <<list, mutex, req, rid, seat, ev>>
    BY <1>0, <1>1 DEF AllRdLock, Go, HostReadPlaces
  <2> QED
    BY <2>1, HostStepSale DEF MutexPlaces, TakingPlaces, HostReadPlaces
<1>2. CASE AllLookup
  <2>1. /\ readers'[Host] = 1 /\ Go(Host, "allNode", "allMutex")
        /\ UNCHANGED <<list, mutex, req, rid, seat>>
        /\ \A u \in All \ {Host} : ev'[u] = ev[u]
    BY <1>0, <1>2, AllLookupFinds DEF AllLookup, Go, shared, HostReadPlaces
  <2> QED
    BY <2>1, HostStepSale DEF MutexPlaces, TakingPlaces, HostReadPlaces
<1>3. CASE AllMutex
  <2>1. SaleInv'
    BY <1>0, <1>3, TakeMutexSale DEF AllMutex
  <2> QED
    BY <1>3, <2>1 DEF AllMutex, TakeMutex
<1>4. CASE AllPrint
  <2>1. /\ readers'[Host] = 1 /\ Go(Host, "allPrint", "allUnlock")
        /\ UNCHANGED <<list, mutex, req, rid, seat, ev>>
    BY <1>0, <1>4 DEF AllPrint, Go, shared, HostReadPlaces
  <2> QED
    BY <2>1, HostStepSale DEF MutexPlaces, TakingPlaces, HostReadPlaces
<1>5. CASE AllUnlock
  <2>1. SaleInv'
    BY <1>0, <1>5, DropMutexSale DEF AllUnlock
  <2> QED
    BY <1>5, <2>1 DEF AllUnlock, DropMutex
<1>6. CASE AllNewline
  <2>1. /\ readers'[Host] = 1 /\ Go(Host, "allNewline", "allNode")
        /\ UNCHANGED <<list, mutex, req, rid, seat, ev>>
    BY <1>0, <1>6 DEF AllNewline, Go, shared, HostReadPlaces
  <2> QED
    BY <2>1, HostStepSale DEF MutexPlaces, TakingPlaces, HostReadPlaces
<1>7. CASE AllRdUnlock
  <2>1. /\ readers'[Host] = 0 /\ Go(Host, "allNode", "idle")
        /\ UNCHANGED <<list, mutex, req, rid, seat, ev>>
    BY <1>0, <1>7 DEF AllRdUnlock, DropRead, Go, locals, HostReadPlaces
  <2> QED
    BY <2>1, HostStepSale DEF MutexPlaces, TakingPlaces, HostReadPlaces
<1> QED
  BY <1>1, <1>2, <1>3, <1>4, <1>5, <1>6, <1>7
  DEF Report, AllPrintFails, AllNewlineFails

------------------------------------------------------------------------------
(***************************************************************************)
(* Every step preserves the invariant, and no step takes a seat away.      *)
(***************************************************************************)
SeatsKept == \A n \in DOMAIN list : \A i \in DOMAIN list[n].data :
                list[n].data[i] # 0 => list'[n].data[i] = list[n].data[i]

LEMMA InitSale == Init => SaleInv
<1> SUFFICES ASSUME Init PROVE SaleInv
  OBVIOUS
<1>1. MutexInv
  BY DEF Init, MutexInv
<1>2. HostReaderInv
  BY DEF Init, HostReaderInv, HostReadPlaces, All
<1>3. ASSUME NEW t \in Threads PROVE SeatsOf(t)
  BY <1>3 DEF Init, SeatsOf, ReservePlaces, SeatOnePlaces, TakingPlaces, All
<1> QED
  BY <1>1, <1>2, <1>3 DEF SaleInv

\* The steps that take or drop the list lock, and the searches.
LEMMA ListLockSale ==
    ASSUME Inv, SaleInv, NEW t \in Threads, NEW from, NEW to,
           from \notin MutexPlaces, to \notin MutexPlaces,
           to \in ReservePlaces => from \in ReservePlaces,
           to \in SeatOnePlaces => from \in SeatOnePlaces,
           \/ TakeWrite(t, from, to)
           \/ DropWrite(t, from, to)
           \/ TakeRead(t, from, to)
           \/ Found(t, from, to)
           \/ DropRead(t, from, to)
           \/ NotFound(t, from, to)
           \/ Lookup(t, from, to)
    PROVE  SaleInv' /\ list' = list
<1>1. /\ readers \in [All -> Nat] /\ ev \in [All -> Pointers]
      /\ Host \in All /\ t \in All /\ t # Host
      /\ to \notin TakingPlaces
  BY ThreadsAssumption DEF Inv, IInv, TypeOK, All, MutexPlaces
<1>2. /\ Go(t, from, to)
      /\ UNCHANGED <<list, mutex, req, rid, seat>>
      /\ readers'[Host] = readers[Host]
      /\ \A u \in All : u # t => ev'[u] = ev[u]
  BY <1>1
  DEF TakeWrite, DropWrite, TakeRead, Found, DropRead, NotFound, Lookup, locals,
      shared
<1> QED
  BY <1>1, <1>2, PlainStepSale

LEMMA ServeSale ==
    ASSUME Inv, SaleInv, NEW t \in Threads, Serve(t)
    PROVE  SaleInv' /\ SeatsKept
<1>0. ASSUME list' = list PROVE SeatsKept
  BY <1>0 DEF SeatsKept
<1>1. CASE CreateStep(t)
  <2>1. CASE CreateLock(t) \/ CreateUnlock(t)
    BY <1>0, <2>1, ListLockSale
    DEF CreateLock, CreateUnlock, MutexPlaces, TakingPlaces, ReservePlaces,
        SeatOnePlaces
  <2>2. CASE CreateLookup(t) \/ CreateNoMemory(t)
    <3>1. PICK from \in {"createLookup", "createAppend"},
               to \in {"createUnlock", "createAppend"} : Go(t, from, to)
      BY <2>2 DEF CreateLookup, CreateNoMemory
    <3>2. UNCHANGED <<list, mutex, readers, req, ev, rid, seat>>
      BY <2>2 DEF CreateLookup, CreateNoMemory, shared
    <3> QED
      BY <1>0, <3>1, <3>2, PlainStepSale
      DEF MutexPlaces, TakingPlaces, ReservePlaces, SeatOnePlaces
  <2>3. CASE CreateAppend(t)
    <3>1. \A n \in DOMAIN list : list'[n] = list[n]
      BY <2>3, LenProperties, AppendProperties DEF CreateAppend, Inv
    <3> QED
      BY <2>3, <3>1, CreateAppendSale DEF SeatsKept
  <2> QED
    BY <1>1, <2>1, <2>2, <2>3 DEF CreateStep
<1>2. CASE ReserveStep(t)
  <2>1. CASE ReserveRdLock(t) \/ ReserveLookup(t) \/ ReserveFound(t)
               \/ ReserveNotFound(t)
    BY <1>0, <2>1, ListLockSale
    DEF ReserveRdLock, ReserveLookup, ReserveFound, ReserveNotFound,
        MutexPlaces, TakingPlaces, ReservePlaces, SeatOnePlaces
  <2>2. CASE ReserveMutex(t)
    <3>1. SaleInv'
      BY <2>2, TakeMutexSale DEF ReserveMutex, All
    <3> QED
      BY <1>0, <2>2, <3>1 DEF ReserveMutex, TakeMutex
  <2>3. CASE ReserveCheck(t)
    BY <1>0, <2>3, ReserveCheckSale DEF ReserveCheck, shared
  <2>4. CASE ReserveNumber(t)
    BY <2>4, ReserveNumberSale DEF SeatsKept
  <2>5. CASE ReserveAssign(t)
    BY <2>5, ReserveAssignSale DEF SeatsKept
  <2>6. CASE ReserveUnlock(t)
    <3>1. SaleInv'
      BY <2>6, DropMutexSale DEF ReserveUnlock, All
    <3> QED
      BY <1>0, <2>6, <3>1 DEF ReserveUnlock, DropMutex
  <2> QED
    BY <1>2, <2>1, <2>2, <2>3, <2>4, <2>5, <2>6 DEF ReserveStep
<1>3. CASE ShowStep(t)
  <2>1. CASE ShowRdLock(t) \/ ShowLookup(t) \/ ShowFound(t)
               \/ ShowNotFound(t)
    BY <1>0, <2>1, ListLockSale
    DEF ShowRdLock, ShowLookup, ShowFound, ShowNotFound,
        MutexPlaces, TakingPlaces, ReservePlaces, SeatOnePlaces
  <2>2. CASE ShowMutex(t)
    <3>1. SaleInv'
      BY <2>2, TakeMutexSale DEF ShowMutex, All
    <3> QED
      BY <1>0, <2>2, <3>1 DEF ShowMutex, TakeMutex
  <2>3. CASE ShowCopy(t)
    <3>1. /\ Go(t, "showCopy", "showUnlock")
          /\ UNCHANGED <<list, mutex, readers, req, ev, rid, seat>>
      BY <2>3 DEF ShowCopy, shared
    <3> QED
      BY <1>0, <3>1, PlainStepSale
      DEF MutexPlaces, TakingPlaces, ReservePlaces, SeatOnePlaces
  <2>4. CASE ShowUnlock(t)
    <3>1. SaleInv'
      BY <2>4, DropMutexSale DEF ShowUnlock, All
    <3> QED
      BY <1>0, <2>4, <3>1 DEF ShowUnlock, DropMutex
  <2> QED
    BY <1>3, <2>1, <2>2, <2>3, <2>4 DEF ShowStep
<1>4. CASE ListStep(t)
  <2>1. CASE ListRdLock(t) \/ ListRdUnlock(t)
    BY <1>0, <2>1, ListLockSale
    DEF ListRdLock, ListRdUnlock, MutexPlaces, TakingPlaces, ReservePlaces,
        SeatOnePlaces
  <2>2. CASE ListCount(t) \/ ListIds(t)
    <3>1. PICK from \in {"listCount", "listIds"},
               to \in {"listIds", "listUnlock"} : Go(t, from, to)
      BY <2>2 DEF ListCount, ListIds
    <3>2. UNCHANGED <<list, mutex, readers, req, ev, rid, seat>>
      BY <2>2 DEF ListCount, ListIds, shared
    <3> QED
      BY <1>0, <3>1, <3>2, PlainStepSale
      DEF MutexPlaces, TakingPlaces, ReservePlaces, SeatOnePlaces
  <2> QED
    BY <1>4, <2>1, <2>2 DEF ListStep
<1>5. CASE Return(t)
  BY <1>0, <1>5, ReturnSale DEF Return, shared
<1> QED
  BY <1>1, <1>2, <1>3, <1>4, <1>5 DEF Serve

LEMMA NextSale ==
    ASSUME Inv, SaleInv, ~ StdoutMayFail, [Next]_vars
    PROVE  SaleInv' /\ SeatsKept
<1>0. ASSUME list' = list PROVE SeatsKept
  BY <1>0 DEF SeatsKept
<1>1. CASE UNCHANGED vars
  BY <1>0, <1>1
  DEF vars, shared, locals, SaleInv, MutexInv, HostReaderInv, SeatsOf
<1>2. CASE Next
  <2>1. ASSUME NEW t \in Threads, Call(t)
        PROVE  SaleInv' /\ SeatsKept
    BY <1>0, <2>1, CallSale DEF Call, shared
  <2>2. ASSUME NEW t \in Threads, Serve(t)
        PROVE  SaleInv' /\ SeatsKept
    BY <2>2, ServeSale
  <2>3. CASE ShowAll
    <3>1. /\ Go(Host, "idle", "all") /\ Host \in All
          /\ UNCHANGED <<list, mutex, readers, req, ev, rid, seat>>
      BY <2>3 DEF ShowAll, shared, All
    <3>2. readers[Host] = 0
      BY <3>1 DEF SaleInv, HostReaderInv, HostReadPlaces, Go
    <3> QED
      BY <1>0, <3>1, <3>2, HostStepSale
      DEF MutexPlaces, TakingPlaces, HostReadPlaces
  <2>4. CASE Report
    BY <1>0, <2>4, ReportSale
  <2> QED
    BY <1>1, <1>2, <2>1, <2>2, <2>3, <2>4 DEF Next, Quiet
<1> QED
  BY <1>1, <1>2

\* A thread has the mutex of its event to itself from the check of its seats to
\* the last one it takes, and they are free until it takes them.
THEOREM SaleInvariance ==
    ASSUME ~ StdoutMayFail
    PROVE  Spec => []SaleInv
<1>1. Inv /\ SaleInv /\ [Next]_vars => SaleInv'
  BY NextSale
<1> QED
  BY InitInv, NextInv, InitSale, <1>1, PTL DEF Spec

\* ems_reserve never hands a reserved seat to somebody else, however many
\* clients ask for it at the same time.
THEOREM SeatsNeverResold ==
    ASSUME ~ StdoutMayFail
    PROVE  Spec => SeatsPermanent
<1>1. Inv /\ SaleInv /\ [Next]_vars => SaleInv' /\ [SeatsKept]_vars
  BY NextSale
<1> QED
  BY InitInv, NextInv, InitSale, <1>1, PTL
  DEF Spec, SeatsPermanent, SeatsKept

\* Whichever return statement a thread leaves its operation by, it holds no
\* lock then.
THEOREM AllLocksReleased ==
    ASSUME ~ StdoutMayFail
    PROVE  Spec => []LocksReleased
<1>1. IInv /\ SaleInv => LocksReleased
  <2> SUFFICES ASSUME IInv, SaleInv, NEW t \in All, pc[t] \in {"idle", "return"}
               PROVE  /\ writer # t
                      /\ readers[t] = 0
                      /\ \A n \in DOMAIN mutex : mutex[n] # t
    BY DEF LocksReleased
  <2>1. writer # t
    BY ThreadsAssumption DEF IInv, TypeOK, WriterInv, WritePlaces, All
  <2>2. readers[t] = 0
    BY DEF IInv, ReaderInv, ReadPlaces, SaleInv, HostReaderInv, HostReadPlaces,
           All
  <2>3. \A n \in DOMAIN mutex : mutex[n] # t
    BY DEF SaleInv, MutexInv, MutexPlaces, TakingPlaces
  <2> QED
    BY <2>1, <2>2, <2>3
<1> QED
  BY Invariance, SaleInvariance, <1>1, PTL

==============================================================================
