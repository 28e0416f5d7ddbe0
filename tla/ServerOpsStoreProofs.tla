------------------------ MODULE ServerOpsStoreProofs --------------------------
(***************************************************************************)
(* As long as writes to stdout do not fail, and for any number of session  *)
(* threads, any requests and any bounds: the operations of ServerOps do    *)
(* what EventStore promises, every reservation is accounted for, and       *)
(* neither SHOW nor a report shows one half done.                          *)
(*                                                                         *)
(* StoreInv is inductive relative to IInv and SaleInv.  Most steps keep    *)
(* the list and the seats that are being assigned (KeepInv); the store     *)
(* changes in CreateAppend and ReserveNumber only, and ReserveAssign       *)
(* changes the list but not the store.                                     *)
(***************************************************************************)
EXTENDS ServerOpsProofs

\* What a report prints of an event.
Copies == [id : Nat, data : {e.data : e \in Event}]

AllInv == Inv /\ StoreInv /\ shown \in Seq(Copies)

------------------------------------------------------------------------------
(***************************************************************************)
(* The store that the refinement mapping shows.                            *)
(***************************************************************************)
LEMMA Typed ==
    ASSUME Inv
    PROVE  /\ DOMAIN list = 1 .. Len(list) /\ Len(list) \in Nat
           /\ \A n \in DOMAIN list : IsEvent(list[n])
           /\ pc \in [All -> SessionPlaces \cup HostPlaces]
           /\ req \in [Threads -> Requests \cup {None}]
           /\ ev \in [All -> DOMAIN list \cup {NULL}]
           /\ DOMAIN res = Threads
           /\ Threads \subseteq All /\ Host \in All /\ Host \notin Threads
BY LenProperties, ThreadsAssumption DEF Inv, IInv, TypeOK, Pointers, All

LEMMA StoreFields ==
    ASSUME Inv
    PROVE  /\ DOMAIN Store = DOMAIN list
           /\ \A n \in DOMAIN list :
                /\ Store[n] = [list[n] EXCEPT !.data = Store[n].data]
                /\ Store[n].id = list[n].id
                /\ Store[n].rows = list[n].rows
                /\ Store[n].cols = list[n].cols
                /\ Store[n].reservations = list[n].reservations
                /\ Store[n].data =
                      [i \in DOMAIN list[n].data |->
                          IF Assigning(n, i) = {} THEN list[n].data[i]
                          ELSE list[n].reservations]
<1>1. DOMAIN list = 1 .. Len(list) /\ \A n \in DOMAIN list : IsEvent(list[n])
  BY Typed
<1>2. DOMAIN Store = DOMAIN list
  BY <1>1 DEF Store
<1>3. ASSUME NEW n \in DOMAIN list
      PROVE  /\ Store[n] = [list[n] EXCEPT !.data = Store[n].data]
             /\ Store[n].id = list[n].id
             /\ Store[n].rows = list[n].rows
             /\ Store[n].cols = list[n].cols
             /\ Store[n].reservations = list[n].reservations
             /\ Store[n].data =
                   [i \in DOMAIN list[n].data |->
                       IF Assigning(n, i) = {} THEN list[n].data[i]
                       ELSE list[n].reservations]
  <2> DEFINE d == [i \in DOMAIN list[n].data |->
                      IF Assigning(n, i) = {} THEN list[n].data[i]
                      ELSE list[n].reservations]
  <2>1. Store[n] = [list[n] EXCEPT !.data = d]
    BY <1>1 DEF Store
  <2>2. IsEvent(list[n])
    BY <1>1
  <2> HIDE DEF d
  <2>3. /\ Store[n].id = list[n].id
        /\ Store[n].rows = list[n].rows
        /\ Store[n].cols = list[n].cols
        /\ Store[n].reservations = list[n].reservations
        /\ Store[n].data = d
    BY <2>1, <2>2 DEF IsEvent
  <2> QED
    BY <2>1, <2>3 DEF d
<1> QED
  BY <1>2, <1>3

\* Nobody else is assigning seats of the event that t is assigning seats of.
LEMMA AssigningOne ==
    ASSUME Inv, SaleInv, NEW t \in Threads, pc[t] = "reserveAssign", NEW i
    PROVE  Assigning(ev[t], i) =
               IF i \in Wanted(list[ev[t]], req[t].seats) THEN {t} ELSE {}
BY AloneAtEvent DEF Assigning, TakingPlaces

LEMMA AssigningNone ==
    ASSUME NEW n, \A u \in Threads : pc[u] = "reserveAssign" => ev[u] # n
    PROVE  /\ \A i : Assigning(n, i) = {}
           /\ Settled(n) = list[n].reservations
BY DEF Assigning, Settled

\* Where nobody assigns seats, the store shows what is in the list.
LEMMA ShownAsIs ==
    ASSUME Inv, NEW n \in DOMAIN list,
           \A u \in Threads : pc[u] = "reserveAssign" => ev[u] # n
    PROVE  Store[n] = list[n]
<1>1. /\ Store[n] = [list[n] EXCEPT !.data = Store[n].data]
      /\ Store[n].data = [i \in DOMAIN list[n].data |-> list[n].data[i]]
  BY StoreFields, AssigningNone
<1>2. IsEvent(list[n])
  BY Typed
<1>3. Store[n].data = list[n].data
  BY <1>1, <1>2 DEF IsEvent
<1> QED
  BY <1>1, <1>2, <1>3 DEF IsEvent

\* A step that keeps the list and those who assign seats keeps the store.
LEMMA StoreSame ==
    ASSUME list' = list,
           \A u \in Threads :
              /\ pc'[u] = "reserveAssign" <=> pc[u] = "reserveAssign"
              /\ pc[u] = "reserveAssign" => ev'[u] = ev[u] /\ req'[u] = req[u]
    PROVE  Store' = Store /\ \A n : Settled(n)' = Settled(n)
<1>1. \A n, i : Assigning(n, i)' = Assigning(n, i)
  BY DEF Assigning
<1>2. \A n : Settled(n)' = Settled(n)
  BY DEF Settled
<1> QED
  BY <1>1, <1>2 DEF Store
------------------------------------------------------------------------------
(***************************************************************************)
(* The steps that keep the list and the seats that are being assigned.     *)
(***************************************************************************)
Elsewhere(u) ==
    /\ pc'[u] = pc[u] /\ req'[u] = req[u] /\ res'[u] = res[u]
    /\ ev'[u] = ev[u] /\ rid'[u] = rid[u] /\ seat'[u] = seat[u]
    /\ num'[u] = num[u]

\* What a thread knows that does not move.
LEMMA OthersKept ==
    ASSUME NEW u \in Threads, Elsewhere(u), list' = list,
           \A n : Settled(n)' = Settled(n),
           CallOf(u), AssignedOf(u), CopyOf(u)
    PROVE  CallOf(u)' /\ AssignedOf(u)' /\ CopyOf(u)'
<1>1. CallOf(u)'
  BY DEF CallOf, Elsewhere
<1>2. AssignedOf(u)'
  BY DEF AssignedOf, Elsewhere
<1>3. CopyOf(u)'
  <2>1. \A d, n : SettledPast(d, n)' = SettledPast(d, n)
    BY DEF SettledPast, AfterReservations
  <2> QED
    BY <2>1 DEF CopyOf, Elsewhere
<1> QED
  BY <1>1, <1>2, <1>3

LEMMA ReportKept ==
    ASSUME ReportInv, list' = list, \A n : Settled(n)' = Settled(n),
           UNCHANGED <<shown, current>>,
           pc'[Host] = pc[Host], ev'[Host] = ev[Host]
    PROVE  ReportInv'
<1>1. \A d, n : SettledPast(d, n)' = SettledPast(d, n)
  BY DEF SettledPast, AfterReservations
<1> QED
  BY <1>1 DEF ReportInv

LEMMA KeepInv ==
    ASSUME AllInv, SaleInv', NEW t \in Threads, NEW from, NEW to,
           Go(t, from, to), from # "reserveAssign", to # "reserveAssign",
           \A u \in Threads \ {t} : Elsewhere(u),
           UNCHANGED <<list, shown, current>>, ev'[Host] = ev[Host],
           CallOf(t)', CopyOf(t)'
    PROVE  StoreInv' /\ Store' = Store
<1>1. /\ pc \in [All -> SessionPlaces \cup HostPlaces] /\ t \in All
      /\ Host \in All /\ Host # t
  BY Typed DEF AllInv
<1>2. pc[t] = from /\ pc'[t] = to /\ pc'[Host] = pc[Host]
  BY <1>1 DEF Go
<1>3. Store' = Store /\ \A n : Settled(n)' = Settled(n)
  BY <1>2, StoreSame DEF Elsewhere
<1>4. \A u \in Threads \ {t} : CallOf(u)' /\ AssignedOf(u)' /\ CopyOf(u)'
  BY <1>3, OthersKept DEF AllInv, StoreInv
<1>5. AssignedOf(t)'
  BY <1>2 DEF AssignedOf
<1>6. ReportInv'
  BY <1>2, <1>3, ReportKept DEF AllInv, StoreInv
<1>7. StoreNumbered'
  BY <1>3 DEF AllInv, StoreInv, StoreNumbered
<1> QED
  BY <1>3, <1>4, <1>5, <1>6, <1>7 DEF StoreInv

\* The host keeps what the session threads know.
LEMMA HostKeepInv ==
    ASSUME AllInv, SaleInv', NEW from, NEW to, Go(Host, from, to),
           UNCHANGED <<list, req, res, rid, seat, num>>,
           \A u \in Threads : ev'[u] = ev[u],
           (\A n : Settled(n)' = Settled(n)) => ReportInv'
    PROVE  StoreInv' /\ Store' = Store
<1>1. /\ pc \in [All -> SessionPlaces \cup HostPlaces]
      /\ Threads \subseteq All /\ Host \notin Threads
  BY Typed DEF AllInv
<1>2. \A u \in Threads : Elsewhere(u)
  BY <1>1 DEF Go, Elsewhere
<1>3. Store' = Store /\ \A n : Settled(n)' = Settled(n)
  BY <1>2, StoreSame DEF Elsewhere
<1>4. \A u \in Threads : CallOf(u)' /\ AssignedOf(u)' /\ CopyOf(u)'
  BY <1>2, <1>3, OthersKept DEF AllInv, StoreInv
<1>5. StoreNumbered'
  BY <1>3 DEF AllInv, StoreInv, StoreNumbered
<1> QED
  BY <1>3, <1>4, <1>5 DEF StoreInv
------------------------------------------------------------------------------
(***************************************************************************)
(* The steps of a session thread.                                          *)
(***************************************************************************)
\* A step inside an operation keeps the operation at its places, decides its
\* answer when it comes to a place behind the decision, and has found its event
\* when it comes to a place where that is used.
LEMMA InsideInv ==
    ASSUME AllInv, SaleInv', NEW t \in Threads, NEW from, NEW to,
           Go(t, from, to), from \notin {"idle", "reserveAssign"},
           to \notin {"idle", "reserveAssign"},
           UNCHANGED <<list, req, rid, seat, shown, current>>,
           \A u \in All \ {t} : ev'[u] = ev[u],
           \A u \in Threads \ {t} : res'[u] = res[u] /\ num'[u] = num[u],
           to \in CreatePlaces => from \in CreatePlaces,
           to \in ReservePlaces => from \in ReservePlaces,
           to \in ShowPlaces => from \in ShowPlaces,
           to \in ListPlaces => from \in ListPlaces,
           res'[t] # NoAnswer <=> to \in DecidedPlaces,
           to \in FoundPlaces => ev'[t] = GetEvent(list, req[t].id),
           to = "listIds" => num'[t] = Len(list),
           CopyOf(t)'
    PROVE  StoreInv' /\ Store' = Store
<1>1. /\ pc \in [All -> SessionPlaces \cup HostPlaces] /\ Threads \subseteq All
      /\ Host \in All /\ Host # t
  BY Typed DEF AllInv
<1>2. pc[t] = from /\ pc'[t] = to /\ \A u \in Threads \ {t} : pc'[u] = pc[u]
  BY <1>1 DEF Go
<1>3. CallOf(t)
  BY DEF AllInv, StoreInv
<1>4. CallOf(t)'
  BY <1>2, <1>3 DEF CallOf
<1>5. \A u \in Threads \ {t} : Elsewhere(u)
  BY <1>1, <1>2 DEF Elsewhere
<1> QED
  BY <1>1, <1>4, <1>5, KeepInv

\* Steps ahead of the decision.
LEMMA UndecidedInv ==
    ASSUME AllInv, SaleInv', NEW t \in Threads, NEW from, NEW to,
           Go(t, from, to), from \notin DecidedPlaces \cup {"idle"},
           to \notin DecidedPlaces \cup {"idle"},
           UNCHANGED <<list, req, res, rid, seat, shown, current>>,
           \A u \in All \ {t} : ev'[u] = ev[u],
           \A u \in Threads \ {t} : num'[u] = num[u],
           to \in CreatePlaces => from \in CreatePlaces,
           to \in ReservePlaces => from \in ReservePlaces,
           to \in ShowPlaces => from \in ShowPlaces,
           to \in ListPlaces => from \in ListPlaces,
           to \in FoundPlaces => ev'[t] = GetEvent(list, req[t].id),
           to = "listIds" => num'[t] = Len(list)
    PROVE  StoreInv' /\ Store' = Store
<1>1. /\ pc \in [All -> SessionPlaces \cup HostPlaces] /\ t \in All
      /\ pc[t] = from /\ pc'[t] = to
  BY Typed DEF AllInv, Go
<1>2. res[t] = NoAnswer
  BY <1>1 DEF AllInv, StoreInv, CallOf
<1>3. CopyOf(t)'
  BY <1>1 DEF CopyOf, DecidedPlaces
<1>4. from # "reserveAssign" /\ to # "reserveAssign"
  BY DEF DecidedPlaces
<1> QED
  BY <1>2, <1>3, <1>4, InsideInv

\* The step that decides an answer, but for the one of a reservation.
LEMMA DecideInv ==
    ASSUME AllInv, SaleInv', NEW t \in Threads, NEW from, NEW to, NEW a,
           Go(t, from, to), Answer(t, a), a # NoAnswer,
           <<from, to>> \in {<<"createLookup", "createUnlock">>,
                             <<"createAppend", "createUnlock">>,
                             <<"reserveRdUnlock", "return">>,
                             <<"reserveCheck", "reserveUnlock">>,
                             <<"showRdUnlock", "return">>,
                             <<"showCopy", "showUnlock">>,
                             <<"listIds", "listUnlock">>},
           UNCHANGED <<list, req, ev, rid, seat, num, shown, current>>,
           CopyOf(t)'
    PROVE  StoreInv' /\ Store' = Store
<1>1. /\ pc \in [All -> SessionPlaces \cup HostPlaces] /\ t \in All
      /\ pc[t] = from /\ pc'[t] = to /\ DOMAIN res = Threads
  BY Typed DEF AllInv, Go
<1>2. res'[t] = a /\ \A u \in Threads \ {t} : res'[u] = res[u]
  BY <1>1 DEF Answer
<1>3. /\ to \in CreatePlaces => from \in CreatePlaces
      /\ to \in ReservePlaces => from \in ReservePlaces
      /\ to \in ShowPlaces => from \in ShowPlaces
      /\ to \in ListPlaces => from \in ListPlaces
      /\ to \in DecidedPlaces /\ to # "listIds"
      /\ to \in FoundPlaces => from \in FoundPlaces
  BY DEF CreatePlaces, WritePlaces, ReservePlaces, ShowPlaces, ListPlaces,
         DecidedPlaces, FoundPlaces, EventPlaces
<1>4. to \in FoundPlaces => ev'[t] = GetEvent(list, req[t].id)
  BY <1>1, <1>3 DEF AllInv, StoreInv, CallOf
<1> QED
  BY <1>2, <1>3, <1>4, InsideInv

\* The steps behind the decision.
LEMMA DecidedInv ==
    ASSUME AllInv, SaleInv', NEW t \in Threads, NEW from, Go(t, from, "return"),
           from \in {"createUnlock", "reserveUnlock", "showUnlock",
                     "listUnlock"},
           UNCHANGED <<list, req, res, ev, rid, seat, num, shown, current>>
    PROVE  StoreInv' /\ Store' = Store
<1>1. /\ pc \in [All -> SessionPlaces \cup HostPlaces] /\ t \in All
      /\ Threads \subseteq All
      /\ pc[t] = from /\ pc'[t] = "return"
      /\ \A u \in Threads \ {t} : pc'[u] = pc[u]
  BY Typed DEF AllInv, Go
<1>2. CallOf(t) /\ CopyOf(t)
  BY DEF AllInv, StoreInv
<1>3. res'[t] # NoAnswer
  BY <1>1, <1>2 DEF CallOf, DecidedPlaces
<1>4. CopyOf(t)'
  <2>1. \A n : Settled(n)' = Settled(n)
    BY <1>1, StoreSame
  <2>2. \A d, n : SettledPast(d, n)' = SettledPast(d, n)
    BY <2>1 DEF SettledPast, AfterReservations
  <2>3. from # "showUnlock" => req[t].op # "show"
    BY <1>1, <1>2 DEF CallOf, CreatePlaces, WritePlaces, ReservePlaces,
                      ListPlaces
  <2> QED
    BY <1>1, <1>2, <2>2, <2>3 DEF CopyOf
<1> QED
  BY <1>3, <1>4, InsideInv
  DEF CreatePlaces, WritePlaces, ReservePlaces, ShowPlaces, ListPlaces,
      DecidedPlaces, FoundPlaces, EventPlaces

LEMMA CallStore ==
    ASSUME AllInv, SaleInv', NEW t \in Threads, Call(t)
    PROVE  StoreInv' /\ Store' = Store
<1>1. /\ pc \in [All -> SessionPlaces \cup HostPlaces] /\ t \in All
      /\ req \in [Threads -> Requests \cup {None}]
      /\ Threads \subseteq All /\ Host \in All /\ Host # t
  BY Typed DEF AllInv
<1>2. PICK r \in Requests : Go(t, "idle", r.op) /\ req' = [req EXCEPT ![t] = r]
  BY DEF Call
<1>3. UNCHANGED <<list, res, ev, rid, seat, num, current, shown>>
  BY DEF Call, shared
<1>4. r # None /\ r.op \in {"create", "reserve", "show", "list"}
  BY RequestsAssumption
  DEF Request, CreateRequest, ReserveRequest, ShowRequest, ListRequest
<1>5. /\ pc[t] = "idle" /\ pc'[t] = r.op /\ req'[t] = r
      /\ \A u \in Threads \ {t} : Elsewhere(u)
  BY <1>1, <1>2, <1>3 DEF Go, Elsewhere
<1>6. res[t] = NoAnswer
  BY <1>5 DEF AllInv, StoreInv, CallOf, DecidedPlaces
<1>7. CallOf(t)'
  BY <1>3, <1>4, <1>5, <1>6
  DEF CallOf, CreatePlaces, WritePlaces, ReservePlaces, ShowPlaces, ListPlaces,
      DecidedPlaces, FoundPlaces, EventPlaces
<1>8. CopyOf(t)'
  BY <1>4, <1>5 DEF CopyOf
<1> QED
  BY <1>2, <1>3, <1>4, <1>5, <1>7, <1>8, KeepInv

LEMMA ReturnStore ==
    ASSUME AllInv, SaleInv', NEW t \in Threads, Return(t)
    PROVE  StoreInv' /\ Store' = Store
<1>1. /\ pc \in [All -> SessionPlaces \cup HostPlaces] /\ t \in All
      /\ req \in [Threads -> Requests \cup {None}]
      /\ ev \in [All -> DOMAIN list \cup {NULL}] /\ DOMAIN res = Threads
      /\ rid \in [Threads -> Nat] /\ seat \in [Threads -> Nat \ {0}]
      /\ DOMAIN num = Threads
      /\ Threads \subseteq All /\ Host \in All /\ Host # t
  BY Typed DEF AllInv, Inv, IInv, TypeOK
<1>2. /\ pc[t] = "return" /\ pc'[t] = "idle"
      /\ req' = [req EXCEPT ![t] = None]
      /\ res' = [res EXCEPT ![t] = NoAnswer]
      /\ ev' = [ev EXCEPT ![t] = NULL]
      /\ rid' = [rid EXCEPT ![t] = 0]
      /\ seat' = [seat EXCEPT ![t] = 1]
      /\ num' = [num EXCEPT ![t] = 0]
      /\ UNCHANGED <<list, current, shown>>
      /\ Go(t, "return", "idle")
  BY <1>1 DEF Return, Go, shared
<1>3. \A u \in Threads \ {t} : Elsewhere(u)
  BY <1>1, <1>2 DEF Elsewhere, Go
<1>4. req'[t] = None /\ res'[t] = NoAnswer /\ ev'[Host] = ev[Host]
  BY <1>1, <1>2
<1>5. CallOf(t)'
  BY <1>2, <1>4
  DEF CallOf, CreatePlaces, WritePlaces, ReservePlaces, ShowPlaces, ListPlaces,
      DecidedPlaces, FoundPlaces, EventPlaces
<1>6. CopyOf(t)'
  BY <1>2 DEF CopyOf
<1> QED
  BY <1>2, <1>3, <1>4, <1>5, <1>6, KeepInv

\* The seats that SHOW copies are those of the settled reservations: while it
\* holds the mutex of the event, nobody assigns seats of it.
LEMMA NobodyAssigns ==
    ASSUME Inv, SaleInv, NEW t \in All, NEW n \in DOMAIN list,
           mutex[n] = t \/ mutex[n] = NoThread,
           t \in Threads => pc[t] # "reserveAssign"
    PROVE  \A u \in Threads : pc[u] = "reserveAssign" => ev[u] # n
<1>1. n \in DOMAIN mutex
  BY LenProperties DEF Inv, IInv, TypeOK
<1>2. Threads \subseteq All /\ NoThread \notin All
  BY ThreadsAssumption DEF All
<1> QED
  BY <1>1, <1>2 DEF SaleInv, MutexInv, MutexPlaces, TakingPlaces

LEMMA WholeCopy ==
    ASSUME AllInv, NEW n \in DOMAIN list,
           \A u \in Threads : pc[u] = "reserveAssign" => ev[u] # n
    PROVE  SettledPast(list[n].data, n)
<1>1. IsEvent(list[n])
  BY Typed DEF AllInv
<1>2. Store[n] = list[n] /\ Settled(n) = list[n].reservations
  BY ShownAsIs, AssigningNone DEF AllInv
<1> DEFINE e == list[n]
<1>3. {e.data[i] : i \in DOMAIN e.data} \ {0} = 1 .. e.reservations
  BY <1>2 DEF AllInv, StoreInv, StoreNumbered
<1>4. \A i \in DOMAIN e.data : e.data[i] <= e.reservations
  <2> SUFFICES ASSUME NEW i \in DOMAIN e.data
               PROVE  e.data[i] <= e.reservations
    OBVIOUS
  <2>1. e.data[i] = 0 \/ e.data[i] \in 1 .. e.reservations
    BY <1>3
  <2>2. e.reservations \in Nat
    BY <1>1, EventFields
  <2> QED
    BY <2>1, <2>2
<1>5. e.data = [i \in DOMAIN e.data |-> e.data[i]] /\ e.reservations \in Nat
  BY <1>1, EventFields
<1>6. AfterReservations(e.data, e, e.reservations)
  BY <1>4, <1>5 DEF AfterReservations
<1>7. e.reservations \in 0 .. Settled(n)
  BY <1>2, <1>5
<1> QED
  BY <1>6, <1>7 DEF SettledPast
------------------------------------------------------------------------------
(***************************************************************************)
(* ems_create appends to the list, and to the store.                       *)
(***************************************************************************)
LEMMA CreateAppendStore ==
    ASSUME AllInv, SaleInv', NEW t \in Threads, CreateAppend(t)
    PROVE  StoreInv' /\ Store' = Append(Store, NewEvent(req[t]))
<1> DEFINE e == NewEvent(req[t])
           l == Len(list)
<1>1. /\ pc[t] = "createAppend" /\ pc'[t] = "createUnlock"
      /\ \A u \in All \ {t} : pc'[u] = pc[u]
      /\ list' = Append(list, e)
      /\ res'[t] = Ok
      /\ \A u \in Threads \ {t} : res'[u] = res[u]
      /\ UNCHANGED <<req, ev, rid, seat, num, current, shown>>
      /\ t \in All /\ Threads \subseteq All /\ Host \in All \ {t}
      /\ pc \in [All -> SessionPlaces \cup HostPlaces]
  BY Typed DEF AllInv, CreateAppend, Go, Answer
<1>2. e \in Event /\ IsEvent(e) /\ e.reservations = 0
      /\ \A i \in DOMAIN e.data : e.data[i] = 0
  <2>1. req[t] \in CreateRequest
    BY <1>1 DEF AllInv, Inv, IInv, RequestInv, CreatePlaces, WritePlaces
  <2>2. IsEvent(e) /\ e \in Event
    BY <2>1, NewEventIsEvent, IsEventIsEvent
  <2>3. /\ e.reservations = 0
        /\ e.data = [i \in SeatIndices(req[t].rows, req[t].cols) |-> 0]
    BY DEF NewEvent
  <2> QED
    BY <2>2, <2>3
<1> HIDE DEF e
<1>3. /\ l \in Nat /\ DOMAIN list = 1 .. l
      /\ Len(list') = l + 1 /\ DOMAIN list' = 1 .. l + 1
      /\ \A n \in DOMAIN list : list'[n] = list[n]
      /\ list'[l + 1] = e
      /\ list \in Seq(Event)
  BY <1>1, <1>2, LenProperties, AppendProperties DEF AllInv, Inv
<1> HIDE DEF l
\* The write lock keeps everybody else out of the list.
<1>4. /\ \A u \in Threads : pc[u] \notin ReadPlaces
      /\ pc[Host] \notin HostReadPlaces
  <2>1. writer = t /\ writer # NoThread
    BY <1>1, ThreadsAssumption DEF AllInv, Inv, IInv, WriterInv, WritePlaces
  <2>2. \A u \in All : readers[u] = 0
    BY <2>1 DEF AllInv, Inv, IInv, WriterInv
  <2> QED
    BY <1>1, <2>2 DEF AllInv, Inv, IInv, ReaderInv
<1>5. \A u \in Threads : pc[u] = "reserveAssign" => ev[u] \in DOMAIN list
  BY AloneAtEvent DEF AllInv, StoreInv, TakingPlaces
<1>6. \A u \in Threads : pc'[u] = "reserveAssign" <=> pc[u] = "reserveAssign"
  BY <1>1
<1>7. \A n \in DOMAIN list : Settled(n)' = Settled(n)
  BY <1>1, <1>3, <1>6 DEF Settled
<1>8. \A n \in DOMAIN list : \A d : SettledPast(d, n)' = SettledPast(d, n)
  BY <1>3, <1>7 DEF SettledPast, AfterReservations
<1>9. \A n \in DOMAIN list : Store'[n] = Store[n]
  <2> SUFFICES ASSUME NEW n \in DOMAIN list
               PROVE  Store'[n] = Store[n]
    OBVIOUS
  <2>1. list'[n] = list[n] /\ n \in 1 .. Len(list) /\ n \in 1 .. Len(list')
    BY <1>3 DEF l
  <2>2. \A i : Assigning(n, i)' = Assigning(n, i)
    BY <1>1, <1>6, <2>1 DEF Assigning
  <2> QED
    BY <2>1, <2>2 DEF Store
<1>10. Store'[l + 1] = e
  <2>1. l + 1 \in 1 .. Len(list')
    BY <1>3
  <2>2. \A n : n \notin DOMAIN list => \A i : Assigning(n, i)' = {}
    BY <1>1, <1>5, <1>6 DEF Assigning
  <2>3. l + 1 \notin DOMAIN list
    BY <1>3
  <2> DEFINE d == [i \in DOMAIN e.data |-> e.data[i]]
  <2>4. Store'[l + 1] = [e EXCEPT !.data = d]
    <3>1. \A n \in 1 .. Len(list') : n \notin DOMAIN list =>
             Store'[n] = [list'[n] EXCEPT !.data = [i \in DOMAIN @ |-> @[i]]]
      BY <2>2 DEF Store
    <3> QED
      BY <1>3, <2>1, <2>3, <3>1
  <2>5. d = e.data
    BY <1>2, EventFields
  <2> HIDE DEF d
  <2>6. [e EXCEPT !.data = e.data] = e
    BY <1>2 DEF IsEvent
  <2> QED
    BY <2>4, <2>5, <2>6
<1>11. Store' = Append(Store, e)
  <2>1. Store' = [n \in 1 .. l + 1 |-> Store'[n]]
    BY <1>3 DEF Store
  <2>2. Store = [n \in 1 .. l |-> Store[n]]
    BY DEF Store, l
  <2> DEFINE S == {Store'[n] : n \in 1 .. l + 1}
             a == Append(Store, e)
  <2>3. Store \in [1 .. l -> S] /\ e \in S
    BY <1>3, <1>9, <1>10, <2>2
  <2> HIDE DEF S, a
  <2>4. a \in [1 .. l + 1 -> S]
    BY <1>3, <2>3, FunctionAppended DEF a
  <2>5. a[l + 1] = e
    BY <1>3, <2>3, FunctionAppended DEF a
  <2>6. \A n \in 1 .. l : a[n] = Store[n]
    BY <1>3, <2>3, FunctionAppended DEF a
  <2>7. \A n \in 1 .. l + 1 : a[n] = Store'[n]
    BY <1>3, <1>9, <1>10, <2>5, <2>6
  <2> QED
    BY <2>1, <2>4, <2>7 DEF a
<1>12. ASSUME NEW u \in Threads
       PROVE  CallOf(u)' /\ AssignedOf(u)' /\ CopyOf(u)'
  <2>1. CallOf(u) /\ AssignedOf(u) /\ CopyOf(u)
    BY DEF AllInv, StoreInv
  <2>2. CASE u = t
    <3>1. CallOf(t)'
      BY <1>1, <2>1, <2>2
      DEF CallOf, CreatePlaces, WritePlaces, ReservePlaces, ShowPlaces,
          ListPlaces, DecidedPlaces, FoundPlaces, EventPlaces, Ok, NoAnswer
    <3> QED
      BY <1>1, <2>2, <3>1 DEF AssignedOf, CopyOf
  <2>3. CASE u # t
    <3>1. pc'[u] = pc[u] /\ res'[u] = res[u]
      BY <1>1, <2>3
    <3>2. pc[u] \in FoundPlaces => GetEvent(list', req[u].id) = ev[u]
      <4> SUFFICES ASSUME pc[u] \in FoundPlaces
                   PROVE  GetEvent(list', req[u].id) = ev[u]
        OBVIOUS
      <4>1. pc[u] \in EventPlaces
        BY <1>4 DEF FoundPlaces, ReadPlaces
      <4>2. ev[u] # NULL /\ ev[u] = GetEvent(list, req[u].id)
        BY <2>1, <4>1 DEF CallOf, AllInv, Inv, IInv, PointerInv
      <4> QED
        BY <1>1, <1>2, <1>3, <4>2, GetEventAppended
    <3>3. CallOf(u)'
      BY <1>1, <1>4, <2>1, <3>1, <3>2 DEF CallOf, ReadPlaces
    <3>4. AssignedOf(u)'
      BY <1>1, <1>3, <1>5, <2>1, <3>1, SMTT(20), ZenonT(40) DEF AssignedOf
    <3>5. CopyOf(u)'
      BY <1>1, <1>3, <1>8, <2>1, <3>1 DEF CopyOf
    <3> QED
      BY <3>3, <3>4, <3>5
  <2> QED
    BY <2>2, <2>3
<1>13. StoreNumbered'
  <2> SUFFICES ASSUME NEW n \in DOMAIN list'
               PROVE  {Store'[n].data[i] : i \in DOMAIN list'[n].data} \ {0}
                          = 1 .. list'[n].reservations
    BY DEF StoreNumbered
  <2>1. CASE n \in DOMAIN list
    BY <1>3, <1>9, <2>1 DEF AllInv, StoreInv, StoreNumbered
  <2>2. CASE n = l + 1
    BY <1>2, <1>3, <1>10, <2>2
  <2> QED
    BY <1>3, <2>1, <2>2
<1>14. ReportInv'
  <2>1. /\ Len(shown) \in Nat /\ DOMAIN shown = 1 .. Len(shown)
        /\ Len(shown) <= l
        /\ \A n \in DOMAIN shown : /\ shown[n].id = list[n].id
                                   /\ SettledPast(shown[n].data, n)
        /\ pc[Host] = "all" => shown = <<>>
    BY LenProperties DEF AllInv, StoreInv, ReportInv, l
  <2>2. \A n \in DOMAIN shown : n \in DOMAIN list
    BY <1>3, <2>1
  <2>3. Len(shown) <= l + 1
    BY <1>3, <2>1
  <2>4. pc'[Host] = pc[Host] /\ pc[Host] \notin HostReadPlaces
    BY <1>1, <1>4
  <2> QED
    BY <1>1, <1>3, <1>8, <2>1, <2>2, <2>3, <2>4
    DEF ReportInv, HostReadPlaces, HostEventPlaces
<1> QED
  BY <1>11, <1>12, <1>13, <1>14 DEF StoreInv, e
------------------------------------------------------------------------------
(***************************************************************************)
(* ems_reserve changes one event, whose mutex it holds.                    *)
(***************************************************************************)
\* A step that changes the seats or the number of one event only, and leaves
\* what copies may show of it.
LEMMA SeatStepInv ==
    ASSUME AllInv, SaleInv', NEW t \in Threads, NEW from, NEW to,
           Go(t, from, to), from \in TakingPlaces,
           to \in {"reserveAssign", "reserveUnlock"},
           UNCHANGED <<req, ev, num, shown, current>>,
           DOMAIN list' = DOMAIN list, Len(list') = Len(list),
           \A n \in DOMAIN list : list'[n].id = list[n].id,
           \A n \in DOMAIN list \ {ev[t]} : list'[n] = list[n],
           \A u \in Threads \ {t} :
              res'[u] = res[u] /\ rid'[u] = rid[u] /\ seat'[u] = seat[u],
           res'[t] # NoAnswer,
           \A n \in DOMAIN list :
              \A d : SettledPast(d, n) => SettledPast(d, n)',
           AssignedOf(t)', StoreNumbered'
    PROVE  StoreInv'
<1>1. /\ pc[t] = from /\ pc'[t] = to
      /\ \A u \in All \ {t} : pc'[u] = pc[u]
      /\ t \in All /\ Threads \subseteq All /\ Host \in All \ {t}
  BY Typed DEF AllInv, Go
<1>2. \A id : GetEvent(list', id) = GetEvent(list, id)
  BY GetEventSameIds
<1>3. ASSUME NEW u \in Threads \ {t}
      PROVE  CallOf(u)' /\ AssignedOf(u)' /\ CopyOf(u)'
  <2>1. /\ CallOf(u) /\ AssignedOf(u) /\ CopyOf(u)
        /\ pc'[u] = pc[u] /\ res'[u] = res[u]
    BY <1>1 DEF AllInv, StoreInv
  <2>2. CallOf(u)'
    BY <1>2, <2>1 DEF CallOf
  <2>3. AssignedOf(u)'
    <3> SUFFICES ASSUME pc[u] = "reserveAssign"
                 PROVE  AssignedOf(u)'
      BY <2>1 DEF AssignedOf
    <3>1. ev[u] # ev[t] /\ ev[u] \in DOMAIN list
      BY <1>1, AloneAtEvent DEF AllInv, StoreInv, TakingPlaces
    <3>2. list'[ev[u]] = list[ev[u]]
      BY <3>1
    <3> QED
      BY <2>1, <3>2, SMTT(20), ZenonT(40) DEF AssignedOf
  <2>4. CopyOf(u)'
    BY <2>1 DEF CopyOf
  <2> QED
    BY <2>2, <2>3, <2>4
<1>4. CallOf(t)' /\ CopyOf(t)'
  <2>1. CallOf(t)
    BY DEF AllInv, StoreInv
  <2>2. /\ from \in ReservePlaces \cap FoundPlaces /\ from # "idle"
        /\ to \in ReservePlaces \cap FoundPlaces \cap DecidedPlaces
        /\ to \notin CreatePlaces \cup ShowPlaces \cup ListPlaces
        /\ to \notin {"idle", "listIds", "return", "showUnlock"}
    BY DEF TakingPlaces, ReservePlaces, FoundPlaces, EventPlaces, DecidedPlaces,
           CreatePlaces, WritePlaces, ShowPlaces, ListPlaces
  <2>3. CallOf(t)'
    BY <1>1, <1>2, <2>1, <2>2 DEF CallOf
  <2> QED
    BY <1>1, <2>2, <2>3 DEF CopyOf
<1>5. ReportInv'
  <2>1. /\ Len(shown) \in Nat /\ DOMAIN shown = 1 .. Len(shown)
        /\ Len(list) \in Nat /\ DOMAIN list = 1 .. Len(list)
        /\ Len(shown) <= Len(list)
    BY LenProperties, Typed DEF AllInv, StoreInv, ReportInv
  <2>2. \A n \in DOMAIN shown : n \in DOMAIN list
    BY <2>1
  <2>3. pc'[Host] = pc[Host] /\ ReportInv
    BY <1>1 DEF AllInv, StoreInv
  <2> QED
    BY <2>2, <2>3 DEF ReportInv
<1> QED
  BY <1>3, <1>4, <1>5 DEF StoreInv

\* Of the other events, the store shows what it did.
LEMMA StoreElsewhere ==
    ASSUME AllInv, NEW t \in Threads, NEW from, NEW to, Go(t, from, to),
           req' = req, ev' = ev,
           DOMAIN list' = DOMAIN list, Len(list') = Len(list),
           \A n \in DOMAIN list \ {ev[t]} : list'[n] = list[n]
    PROVE  /\ DOMAIN Store' = DOMAIN Store
           /\ \A n \in DOMAIN list \ {ev[t]} :
                 Store'[n] = Store[n] /\ Settled(n)' = Settled(n)
<1>1. /\ \A u \in All \ {t} : pc'[u] = pc[u]
      /\ t \in All /\ Threads \subseteq All
      /\ DOMAIN list = 1 .. Len(list)
  BY Typed DEF AllInv, Go
<1>2. ASSUME NEW n \in DOMAIN list \ {ev[t]}
      PROVE  Store'[n] = Store[n] /\ Settled(n)' = Settled(n)
  <2>1. \A u \in Threads : pc'[u] = "reserveAssign" /\ ev'[u] = n
                              <=> pc[u] = "reserveAssign" /\ ev[u] = n
    BY <1>1
  <2>2. list'[n] = list[n] /\ n \in 1 .. Len(list)
    BY <1>1
  <2>3. \A i : Assigning(n, i)' = Assigning(n, i)
    BY <2>1, <2>2 DEF Assigning
  <2>4. Settled(n)' = Settled(n)
    BY <2>1, <2>2 DEF Settled
  <2> QED
    BY <2>2, <2>3, <2>4 DEF Store
<1>3. DOMAIN Store' = DOMAIN Store
  BY DEF Store
<1> QED
  BY <1>2, <1>3

\* The seats a reservation is for.
LEMMA TakenSeats ==
    ASSUME AllInv, NEW t \in Threads, pc[t] \in TakingPlaces
    PROVE  /\ ev[t] \in DOMAIN list /\ IsEvent(list[ev[t]])
           /\ seat[t] \in DOMAIN req[t].seats
           /\ DOMAIN req[t].seats = 1 .. Len(req[t].seats)
           /\ Len(req[t].seats) \in Nat
           /\ InBounds(list[ev[t]], req[t].seats)
           /\ \A k \in DOMAIN req[t].seats :
                 SeatIndex(list[ev[t]], req[t].seats[k][1], req[t].seats[k][2])
                    \in DOMAIN list[ev[t]].data
           /\ Wanted(list[ev[t]], req[t].seats)
                 \subseteq DOMAIN list[ev[t]].data
<1> DEFINE e == list[ev[t]]
           s == req[t].seats
<1>1. ev[t] \in DOMAIN list /\ IsEvent(e)
  BY AloneAtEvent, Typed DEF AllInv, StoreInv
<1>2. SeatsOf(t) /\ pc[t] \in ReservePlaces
  BY DEF AllInv, StoreInv, SaleInv, TakingPlaces, ReservePlaces
<1>3. s \in Seq(Nat \X Nat) /\ seat[t] \in DOMAIN s /\ InBounds(e, s)
  BY <1>2 DEF SeatsOf, ReserveRequest
<1>4. DOMAIN s = 1 .. Len(s) /\ Len(s) \in Nat
  BY <1>3, LenProperties
<1>5. /\ e.rows \in Nat /\ e.cols \in Nat
      /\ DOMAIN e.data = SeatIndices(e.rows, e.cols)
  BY <1>1, EventFields
<1> HIDE DEF e, s
<1>6. ASSUME NEW k \in DOMAIN s
      PROVE  SeatIndex(e, s[k][1], s[k][2]) \in DOMAIN e.data
  <2>1. s[k][1] \in 1 .. e.rows /\ s[k][2] \in 1 .. e.cols
    BY <1>3 DEF InBounds
  <2> QED
    BY <1>5, <2>1, SeatIndexInRange
<1>7. Wanted(e, s) \subseteq DOMAIN e.data
  BY <1>6 DEF Wanted
<1> QED
  BY <1>1, <1>3, <1>4, <1>6, <1>7 DEF e, s

\* The reservation takes effect: all its seats get their number in the store.
LEMMA ReserveNumberStore ==
    ASSUME AllInv, SaleInv', NEW t \in Threads, ReserveNumber(t)
    PROVE  /\ StoreInv'
           /\ InBounds(Store[ev[t]], req[t].seats)
           /\ Free(Store[ev[t]], req[t].seats)
           /\ Store' = [Store EXCEPT
                          ![ev[t]].reservations = Store[ev[t]].reservations + 1,
                          ![ev[t]].data = [i \in DOMAIN @ |->
                              IF i \in Wanted(Store[ev[t]], req[t].seats)
                              THEN Store[ev[t]].reservations + 1 ELSE @[i]]]
<1> DEFINE n == ev[t]
           e == list[n]
           f == [e EXCEPT !.reservations = @ + 1]
           s == req[t].seats
           id == e.reservations + 1
           d == [i \in DOMAIN e.data |->
                    IF i \in Wanted(e, s) THEN id ELSE e.data[i]]
<1>1. /\ pc[t] = "reserveNumber" /\ pc'[t] = "reserveAssign"
      /\ Go(t, "reserveNumber", "reserveAssign")
      /\ \A u \in All \ {t} : pc'[u] = pc[u]
      /\ list' = [list EXCEPT ![n].reservations = @ + 1]
      /\ rid' = [rid EXCEPT ![t] = id]
      /\ Answer(t, Ok)
      /\ UNCHANGED <<req, ev, seat, num, shown, current>>
      /\ t \in All /\ Threads \subseteq All
  BY Typed DEF AllInv, ReserveNumber, Go
<1>2. /\ n \in DOMAIN list /\ IsEvent(e) /\ seat[t] \in DOMAIN s
      /\ InBounds(e, s) /\ Wanted(e, s) \subseteq DOMAIN e.data
  BY <1>1, TakenSeats DEF TakingPlaces
<1>3. /\ e.reservations \in Nat /\ id \in Nat \ {0}
      /\ e.data = [i \in DOMAIN e.data |-> e.data[i]]
      /\ f.id = e.id /\ f.rows = e.rows /\ f.cols = e.cols
      /\ f.reservations = id /\ f.data = e.data /\ IsEvent(f)
  BY <1>2, EventFields DEF IsEvent
<1>4. /\ DOMAIN list' = DOMAIN list /\ list'[n] = f
      /\ \A m \in DOMAIN list \ {n} : list'[m] = list[m]
      /\ Len(list') = Len(list)
      /\ \A m \in DOMAIN list : list'[m].id = list[m].id
  <2>1. list' = [list EXCEPT ![n] = f]
    BY <1>1, <1>2
  <2> HIDE DEF f, n
  <2>2. /\ DOMAIN list' = DOMAIN list /\ list'[n] = f
        /\ \A m \in DOMAIN list \ {n} : list'[m] = list[m]
    BY <1>2, <2>1
  <2>3. f \in Event /\ list \in Seq(Event)
    BY <1>3, IsEventIsEvent DEF AllInv, Inv
  <2>4. Len(list') = Len(list)
    BY <1>2, <2>1, <2>3, ExceptSeq
  <2> QED
    BY <1>3, <2>2, <2>4 DEF n
<1>5. \A u \in Threads : pc[u] = "reserveAssign" => ev[u] # n
  BY <1>1, AloneAtEvent DEF AllInv, StoreInv, TakingPlaces
<1>6. SeatsOf(t) /\ seat[t] = 1
  BY <1>1 DEF AllInv, StoreInv, SaleInv, SeatsOf, SeatOnePlaces, ReservePlaces
<1>7. Free(e, s)
  BY <1>1, <1>6 DEF SeatsOf, TakingPlaces, Free
<1>8. Store[n] = e /\ Settled(n) = e.reservations
  BY <1>2, <1>5, ShownAsIs, AssigningNone DEF AllInv
<1>9. \A m \in {n} : Settled(m)' = e.reservations
  <2>1. \A m \in {n} : Settled(m)' = list'[m].reservations - 1
    BY <1>1 DEF Settled
  <2> HIDE DEF f, e
  <2> QED
    BY <1>3, <1>4, <2>1
<1>10. \A m \in {n} : \A i : Assigning(m, i)' = {} <=> i \notin Wanted(e, s)
  <2>1. Wanted(list'[n], s) = Wanted(e, s)
    BY <1>3, <1>4 DEF Wanted, SeatIndex
  <2>2. \A u \in Threads : pc'[u] = "reserveAssign" /\ ev'[u] = n <=> u = t
    BY <1>1, <1>5
  <2> QED
    BY <1>1, <2>1, <2>2 DEF Assigning
<1>11. Store'[n] = [e EXCEPT !.reservations = id, !.data = d]
  <2> DEFINE g == [i \in DOMAIN f.data |-> IF i \notin Wanted(e, s)
                                           THEN f.data[i] ELSE f.reservations]
  <2>1. n \in 1 .. Len(list')
    BY <1>2, <1>4, Typed DEF AllInv
  <2>2. Store'[n] = [f EXCEPT !.data = g]
    <3>1. \A m \in 1 .. Len(list') :
             Store'[m] = [list'[m] EXCEPT !.data = [i \in DOMAIN @ |->
                            IF Assigning(m, i)' = {} THEN @[i]
                            ELSE list'[m].reservations]]
      BY DEF Store
    <3> SUFFICES ASSUME NEW m \in {n}
                 PROVE  Store'[m] = [f EXCEPT !.data = g]
      BY Zenon
    <3> HIDE DEF f, e, s, id, d
    <3>2. Store'[m] = [f EXCEPT !.data = [i \in DOMAIN @ |->
                            IF Assigning(m, i)' = {} THEN @[i]
                            ELSE f.reservations]]
      <4>1. m \in 1 .. Len(list') /\ list'[m] = f
        BY <1>4, <2>1
      <4>2. Store'[m] = [list'[m] EXCEPT !.data = [i \in DOMAIN @ |->
                            IF Assigning(m, i)' = {} THEN @[i]
                            ELSE list'[m].reservations]]
        BY <3>1, <4>1
      <4> HIDE DEF n, g
      <4> QED
        BY <4>1, <4>2
    <3>3. g = [i \in DOMAIN f.data |-> IF Assigning(m, i)' = {} THEN f.data[i]
                                       ELSE f.reservations]
      BY <1>10
    <3> HIDE DEF g
    <3> QED
      BY <3>2, <3>3
  <2>3. g = d
    <3>1. \A i \in DOMAIN e.data : g[i] = d[i]
      <4> HIDE DEF f
      <4> QED
        BY <1>3
    <3> HIDE DEF f
    <3> QED
      BY <1>3, <3>1
  <2> HIDE DEF g, d, id
  <2>4. [f EXCEPT !.data = d] = [e EXCEPT !.reservations = id, !.data = d]
    BY <1>2, <1>3 DEF IsEvent, id
  <2> QED
    BY <2>2, <2>3, <2>4
<1>12. /\ DOMAIN Store' = DOMAIN Store /\ DOMAIN Store = DOMAIN list
       /\ \A m \in DOMAIN list \ {n} :
             Store'[m] = Store[m] /\ Settled(m)' = Settled(m)
  <2>1. DOMAIN Store = DOMAIN list
    BY StoreFields DEF AllInv
  <2> QED
    BY <1>1, <1>4, <2>1, StoreElsewhere
<1>13. \A m \in DOMAIN list : \A c : SettledPast(c, m) => SettledPast(c, m)'
  <2>1. \A m \in DOMAIN list : /\ Settled(m)' = Settled(m)
                               /\ list'[m].data = list[m].data
    <3> SUFFICES ASSUME NEW m \in DOMAIN list
                 PROVE  /\ Settled(m)' = Settled(m)
                        /\ list'[m].data = list[m].data
      OBVIOUS
    <3>1. CASE m = n
      BY <1>3, <1>4, <1>8, <1>9, <3>1
    <3>2. CASE m # n
      BY <1>4, <1>12, <3>2
    <3> QED
      BY <3>1, <3>2
  <2> QED
    BY <2>1 DEF SettledPast, AfterReservations
<1>14. AssignedOf(t)'
  <2>1. rid'[t] = id /\ list'[n].reservations = id
    BY <1>1, <1>3, <1>4 DEF AllInv, Inv, IInv, TypeOK
  <2>2. \A k \in DOMAIN s : ~(k < seat[t])
    <3>1. s \in Seq(Nat \X Nat)
      BY <1>1, <1>6 DEF SeatsOf, ReservePlaces, ReserveRequest
    <3>2. DOMAIN s = 1 .. Len(s) /\ Len(s) \in Nat
      BY <3>1, LenProperties
    <3> HIDE DEF s
    <3> QED
      BY <1>6, <3>2
  <2> QED
    BY <1>1, <2>1, <2>2 DEF AssignedOf
<1>15. StoreNumbered'
  <2> SUFFICES ASSUME NEW m \in DOMAIN list'
               PROVE  {Store'[m].data[i] : i \in DOMAIN list'[m].data} \ {0}
                          = 1 .. list'[m].reservations
    BY DEF StoreNumbered
  <2>1. CASE m # n
    BY <1>4, <1>12, <2>1 DEF AllInv, StoreInv, StoreNumbered
  <2>2. CASE m = n
    <3>1. {e.data[i] : i \in DOMAIN e.data} \ {0} = 1 .. e.reservations
      BY <1>2, <1>8 DEF AllInv, StoreInv, StoreNumbered
    <3>2. PICK i1 \in DOMAIN e.data : i1 \in Wanted(e, s)
      BY <1>2 DEF Wanted
    <3>3. Store'[m].data = d /\ list'[m].data = e.data
          /\ list'[m].reservations = id
      <4> HIDE DEF d, id
      <4> QED
        BY <1>2, <1>3, <1>4, <1>11, <2>2 DEF IsEvent
    <3>4. \A i \in DOMAIN e.data : i \in Wanted(e, s) => e.data[i] = 0
      BY <1>7 DEF Free
    <3>5. {d[i] : i \in DOMAIN e.data} \ {0}
             = ({e.data[i] : i \in DOMAIN e.data} \ {0}) \cup {id}
      <4> HIDE DEF id, e
      <4> QED
        BY <1>3, <3>2, <3>4, SMTT(20), ZenonT(40)
    <3>6. (1 .. e.reservations) \cup {id} = 1 .. id
      BY <1>3
    <3>7. {Store'[m].data[i] : i \in DOMAIN list'[m].data}
             = {d[i] : i \in DOMAIN e.data}
      <4> HIDE DEF d, id, e
      <4> QED
        BY <3>3
    <3> HIDE DEF d, id, e
    <3> QED
      BY <3>1, <3>3, <3>5, <3>6, <3>7
  <2> QED
    BY <2>1, <2>2
<1>16. /\ res'[t] # NoAnswer
       /\ \A u \in Threads \ {t} : /\ res'[u] = res[u] /\ rid'[u] = rid[u]
                                   /\ seat'[u] = seat[u]
  BY <1>1, Typed DEF AllInv, Inv, IInv, TypeOK, Answer, Ok, NoAnswer
<1>17. StoreInv'
  BY <1>1, <1>4, <1>13, <1>14, <1>15, <1>16, SeatStepInv DEF TakingPlaces
<1>18. Store' = [Store EXCEPT ![n].reservations = id, ![n].data = d]
  <2> DEFINE g == [e EXCEPT !.reservations = id, !.data = d]
  <2> HIDE DEF g
  <2>1. Store' = [m \in DOMAIN list |-> Store'[m]]
        /\ Store = [m \in DOMAIN list |-> Store[m]]
    <3>1. Store' = [m \in DOMAIN Store' |-> Store'[m]]
          /\ Store = [m \in DOMAIN Store |-> Store[m]]
      BY DEF Store
    <3> QED
      BY <1>12, <3>1
  <2>2. Store'[n] = g
    BY <1>11 DEF g
  <2>3. Store' = [Store EXCEPT ![n] = g]
    <3> HIDE DEF n, e
    <3> QED
      BY <1>2, <1>12, <2>1, <2>2 DEF e
  <2> QED
    BY <1>2, <1>8, <1>12, <2>3 DEF g
<1>19. /\ id = Store[n].reservations + 1
       /\ d = [i \in DOMAIN Store[n].data |->
                  IF i \in Wanted(Store[n], s)
                  THEN Store[n].reservations + 1 ELSE Store[n].data[i]]
  BY <1>8
<1>20. InBounds(Store[n], s) /\ Free(Store[n], s)
  BY <1>2, <1>7, <1>8
<1> HIDE DEF d, id, e, f
<1> QED
  BY <1>17, <1>18, <1>19, <1>20

\* The seats get their number one by one, and the store has shown them all with
\* it already.
LEMMA ReserveAssignStore ==
    ASSUME AllInv, SaleInv', NEW t \in Threads, ReserveAssign(t)
    PROVE  StoreInv' /\ Store' = Store
<1> DEFINE n == ev[t]
           e == list[n]
           s == req[t].seats
           r == rid[t]
           i0 == SeatIndex(e, s[seat[t]][1], s[seat[t]][2])
           f == [e EXCEPT !.data[i0] = r]
           more == seat[t] < Len(s)
           to == IF more THEN "reserveAssign" ELSE "reserveUnlock"
<1>1. /\ pc[t] = "reserveAssign" /\ pc'[t] = to
      /\ Go(t, "reserveAssign", to)
      /\ \A u \in All \ {t} : pc'[u] = pc[u]
      /\ list' = [list EXCEPT ![n].data[i0] = r]
      /\ seat' = [seat EXCEPT ![t] = @ + 1]
      /\ UNCHANGED <<req, res, ev, rid, num, shown, current>>
      /\ t \in All /\ Threads \subseteq All
  BY Typed DEF AllInv, ReserveAssign, Go
<1>2. /\ n \in DOMAIN list /\ IsEvent(e) /\ seat[t] \in DOMAIN s
      /\ DOMAIN s = 1 .. Len(s) /\ Len(s) \in Nat
      /\ Wanted(e, s) \subseteq DOMAIN e.data
      /\ i0 \in DOMAIN e.data /\ i0 \in Wanted(e, s)
  BY <1>1, TakenSeats DEF TakingPlaces, Wanted
<1>3. /\ r = e.reservations
      /\ \A k \in DOMAIN s :
            k < seat[t] => e.data[SeatIndex(e, s[k][1], s[k][2])] = r
  BY <1>1 DEF AllInv, StoreInv, AssignedOf
<1>4. /\ e.reservations \in Nat /\ e.data \in [DOMAIN e.data -> Nat]
      /\ f.id = e.id /\ f.rows = e.rows /\ f.cols = e.cols
      /\ f.reservations = e.reservations
      /\ f.data = [e.data EXCEPT ![i0] = r]
      /\ IsEvent(f)
  <2>1. e.reservations \in Nat /\ e.data \in [DOMAIN e.data -> Nat]
    BY <1>2, EventFields
  <2>2. /\ f.id = e.id /\ f.rows = e.rows /\ f.cols = e.cols
        /\ f.reservations = e.reservations
        /\ f.data = [e.data EXCEPT ![i0] = r]
    <3> HIDE DEF e, i0, r
    <3> QED
      BY <1>2 DEF IsEvent
  <2>3. IsEvent(f)
    <3> HIDE DEF e, i0, r
    <3> QED
      BY <1>2, <1>3, <2>1, AssignedIsEvent
  <2> QED
    BY <2>1, <2>2, <2>3
<1>5. /\ DOMAIN list' = DOMAIN list /\ list'[n] = f
      /\ \A m \in DOMAIN list \ {n} : list'[m] = list[m]
      /\ Len(list') = Len(list)
      /\ \A m \in DOMAIN list : list'[m].id = list[m].id
  <2>1. list' = [list EXCEPT ![n] = f]
    BY <1>1, <1>2
  <2> HIDE DEF f, n
  <2>2. /\ DOMAIN list' = DOMAIN list /\ list'[n] = f
        /\ \A m \in DOMAIN list \ {n} : list'[m] = list[m]
    BY <1>2, <2>1
  <2>3. f \in Event /\ list \in Seq(Event)
    BY <1>4, IsEventIsEvent DEF AllInv, Inv
  <2>4. Len(list') = Len(list)
    BY <1>2, <2>1, <2>3, ExceptSeq
  <2> QED
    BY <1>4, <2>2, <2>4 DEF n
<1>6. \A u \in Threads : pc[u] = "reserveAssign" /\ ev[u] = n <=> u = t
  BY <1>1, AloneAtEvent DEF AllInv, StoreInv, TakingPlaces
<1>7. /\ \A i \in DOMAIN e.data \ {i0} : f.data[i] = e.data[i]
      /\ f.data[i0] = r /\ DOMAIN f.data = DOMAIN e.data
  <2> HIDE DEF f, e, i0, r
  <2> QED
    BY <1>2, <1>4
\* The seats that the loop has passed.
<1>8. \A k \in DOMAIN s :
         k < seat[t] + 1 => f.data[SeatIndex(e, s[k][1], s[k][2])] = r
  <2> SUFFICES ASSUME NEW k \in DOMAIN s, k < seat[t] + 1
               PROVE  f.data[SeatIndex(e, s[k][1], s[k][2])] = r
    OBVIOUS
  <2> DEFINE i == SeatIndex(e, s[k][1], s[k][2])
  <2>1. i \in DOMAIN e.data
    BY <1>1, TakenSeats DEF TakingPlaces
  <2>2. k = seat[t] \/ k < seat[t]
    <3> HIDE DEF s
    <3> QED
      BY <1>2
  <2>3. k = seat[t] => i = i0
    OBVIOUS
  <2> HIDE DEF i, i0, e, f, r, s
  <2>4. i = i0 \/ e.data[i] = r
    BY <1>3, <2>2, <2>3 DEF i
  <2> QED
    BY <1>7, <2>1, <2>4 DEF i
<1>9. ~more => \A i \in Wanted(e, s) : f.data[i] = r
  <2> SUFFICES ASSUME ~more, NEW k \in DOMAIN s
               PROVE  f.data[SeatIndex(e, s[k][1], s[k][2])] = r
    BY DEF Wanted
  <2>1. k < seat[t] + 1
    <3> HIDE DEF s
    <3> QED
      BY <1>2
  <2> QED
    BY <1>8, <2>1
<1>10. /\ Settled(n) = r - 1
       /\ \A m \in {n} : Settled(m)' = IF more THEN r - 1 ELSE r
  <2>1. Settled(n) = r - 1
    BY <1>1, <1>3 DEF Settled
  <2>2. \A u \in Threads :
           pc'[u] = "reserveAssign" /\ ev'[u] = n <=> more /\ u = t
    BY <1>1, <1>6
  <2>3. list'[n].reservations = r
    <3> HIDE DEF e, f
    <3> QED
      BY <1>3, <1>4, <1>5
  <2> SUFFICES ASSUME NEW m \in {n}
               PROVE  Settled(m)' = IF more THEN r - 1 ELSE r
    BY <2>1
  <2>4. \A u \in Threads :
           pc'[u] = "reserveAssign" /\ ev'[u] = m <=> more /\ u = t
    BY <2>2
  <2> HIDE DEF more, n, r
  <2> QED
    BY <2>3, <2>4 DEF Settled
<1>11. ASSUME NEW m \in {n}, NEW i
       PROVE  Assigning(m, i)' = {} <=> ~more \/ i \notin Wanted(e, s)
  <2>1. Wanted(list'[n], s) = Wanted(e, s)
    <3> HIDE DEF f
    <3> QED
      BY <1>4, <1>5 DEF Wanted, SeatIndex
  <2>2. \A u \in Threads :
           pc'[u] = "reserveAssign" /\ ev'[u] = m <=> more /\ u = t
    BY <1>1, <1>6
  <2> HIDE DEF more
  <2> QED
    BY <1>1, <2>1, <2>2 DEF Assigning
<1>12. Store[n].data = [i \in DOMAIN e.data |->
                           IF i \in Wanted(e, s) THEN r ELSE e.data[i]]
  <2>1. Store[n].data = [i \in DOMAIN e.data |->
                            IF Assigning(n, i) = {} THEN e.data[i]
                            ELSE e.reservations]
    BY <1>2, StoreFields DEF AllInv
  <2>2. \A i : Assigning(n, i) = IF i \in Wanted(e, s) THEN {t} ELSE {}
    BY <1>1, AssigningOne DEF AllInv, StoreInv
  <2> HIDE DEF e, r, s, n
  <2> QED
    BY <1>3, <2>1, <2>2
<1>13. Store'[n] = Store[n]
  <2> SUFFICES ASSUME NEW m \in {n}
               PROVE  Store'[m] = Store[n]
    BY Zenon
  <2> DEFINE g == [i \in DOMAIN f.data |-> IF Assigning(m, i)' = {}
                                           THEN f.data[i] ELSE f.reservations]
             d == Store[n].data
  <2>1. Store'[m] = [f EXCEPT !.data = g]
    <3>1. m \in 1 .. Len(list') /\ list'[m] = f
      BY <1>2, <1>5, Typed DEF AllInv
    <3>2. Store'[m] = [list'[m] EXCEPT !.data = [i \in DOMAIN @ |->
                          IF Assigning(m, i)' = {} THEN @[i]
                          ELSE list'[m].reservations]]
      BY <3>1 DEF Store
    <3> HIDE DEF n, f
    <3> QED
      BY <3>1, <3>2
  <2>2. g = d
    <3> HIDE DEF e, f, r, s, n, i0, more
    <3>1. \A i \in DOMAIN e.data \ Wanted(e, s) : f.data[i] = e.data[i]
      BY <1>2, <1>7
    <3>2. \A i \in DOMAIN e.data : g[i] = d[i]
      BY <1>3, <1>4, <1>7, <1>9, <1>11, <1>12, <3>1
    <3> QED
      BY <1>7, <1>12, <3>2
  <2>3. Store[n] = [e EXCEPT !.data = d]
    BY <1>2, StoreFields DEF AllInv
  <2> HIDE DEF g, d, i0, r, e
  <2>4. [f EXCEPT !.data = d] = [e EXCEPT !.data = d]
    BY <1>2 DEF IsEvent
  <2> QED
    BY <2>1, <2>2, <2>3, <2>4
<1>14. /\ DOMAIN Store' = DOMAIN Store /\ DOMAIN Store = DOMAIN list
       /\ \A m \in DOMAIN list \ {n} :
             Store'[m] = Store[m] /\ Settled(m)' = Settled(m)
  <2>1. DOMAIN Store = DOMAIN list
    BY StoreFields DEF AllInv
  <2> QED
    BY <1>1, <1>5, <2>1, StoreElsewhere
<1>15. Store' = Store
  <2>1. /\ Store' = [m \in DOMAIN Store' |-> Store'[m]]
        /\ Store = [m \in DOMAIN Store |-> Store[m]]
    BY DEF Store
  <2>2. \A m \in DOMAIN list : Store'[m] = Store[m]
    <3> HIDE DEF n
    <3> QED
      BY <1>13, <1>14
  <2> QED
    BY <1>14, <2>1, <2>2
\* No copy could tell: a number that is not settled counts as a free seat.
<1>16. ASSUME NEW m \in DOMAIN list, NEW c, SettledPast(c, m)
       PROVE  SettledPast(c, m)'
  <2>1. CASE m # n
    <3>1. Settled(m)' = Settled(m) /\ list'[m] = list[m]
      BY <1>5, <1>14, <2>1
    <3> QED
      BY <1>16, <3>1 DEF SettledPast, AfterReservations
  <2>2. CASE m = n
    <3>1. PICK k \in 0 .. Settled(m) : AfterReservations(c, list[m], k)
      BY <1>16 DEF SettledPast
    <3>2. r \in Nat
      BY <1>3, <1>4
    <3>3. k \in Nat /\ k < r /\ k \in 0 .. Settled(m)'
      <4>1. k \in 0 .. r - 1 /\ Settled(m)' = IF more THEN r - 1 ELSE r
        BY <1>10, <2>2, <3>1
      <4> HIDE DEF r, more
      <4> QED
        BY <3>2, <4>1
    <3>4. c = [i \in DOMAIN e.data |-> IF e.data[i] <= k THEN e.data[i] ELSE 0]
      BY <2>2, <3>1 DEF AfterReservations
    <3>5. e.data[i0] = 0 \/ e.data[i0] = r
      <4>1. SeatsOf(t)
        BY DEF AllInv, StoreInv, SaleInv
      <4> QED
        BY <1>1, <1>2, <4>1 DEF SeatsOf, TakingPlaces
    <3> DEFINE old(i) == IF e.data[i] <= k THEN e.data[i] ELSE 0
               new(i) == IF f.data[i] <= k THEN f.data[i] ELSE 0
    <3>6. \A i \in DOMAIN e.data : new(i) = old(i)
      <4> HIDE DEF e, f, i0, r
      <4>1. new(i0) = old(i0)
        BY <1>7, <3>2, <3>3, <3>5
      <4>2. \A i \in DOMAIN e.data \ {i0} : new(i) = old(i)
        BY <1>7
      <4> HIDE DEF new, old
      <4> QED
        BY <4>1, <4>2
    <3>7. AfterReservations(c, f, k)
      <4> HIDE DEF e, f
      <4> QED
        BY <1>7, <3>4, <3>6 DEF AfterReservations
    <3>8. list'[m] = f
      BY <1>5, <2>2
    <3> HIDE DEF f
    <3>9. AfterReservations(c, list'[m], k)
      BY <3>7, <3>8
    <3> QED
      BY <3>3, <3>9 DEF SettledPast, AfterReservations
  <2> QED
    BY <2>1, <2>2
<1>17. AssignedOf(t)'
  <2>1. rid'[t] = list'[n].reservations
    <3> HIDE DEF e, f
    <3> QED
      BY <1>1, <1>3, <1>4, <1>5 DEF r
  <2>2. seat'[t] = seat[t] + 1
    BY <1>1 DEF AllInv, Inv, IInv, TypeOK
  <2>3. \A k : SeatIndex(list'[n], s[k][1], s[k][2])
                  = SeatIndex(e, s[k][1], s[k][2])
    <3> HIDE DEF e, f, s
    <3> QED
      BY <1>4, <1>5 DEF SeatIndex
  <2>4. \A k \in DOMAIN s : k < seat'[t] =>
           list'[n].data[SeatIndex(list'[n], s[k][1], s[k][2])] = rid'[t]
    <3> HIDE DEF e, f, n, s
    <3> QED
      BY <1>1, <1>5, <1>8, <2>2, <2>3 DEF r
  <2> QED
    BY <1>1, <2>1, <2>4 DEF AssignedOf
<1>18. StoreNumbered'
  <2>1. \A m \in DOMAIN list : /\ list'[m].reservations = list[m].reservations
                               /\ DOMAIN list'[m].data = DOMAIN list[m].data
    <3> TAKE m \in DOMAIN list
    <3>1. CASE m = n
      <4> HIDE DEF f
      <4> QED
        BY <1>4, <1>5, <1>7, <3>1
    <3>2. CASE m # n
      BY <1>5, <3>2
    <3> QED
      BY <3>1, <3>2
  <2> QED
    BY <1>5, <1>15, <2>1 DEF AllInv, StoreInv, StoreNumbered
<1>19. /\ res'[t] # NoAnswer
       /\ \A u \in Threads \ {t} : /\ res'[u] = res[u] /\ rid'[u] = rid[u]
                                   /\ seat'[u] = seat[u]
  <2>1. res[t] # NoAnswer
    BY <1>1 DEF AllInv, StoreInv, CallOf, DecidedPlaces
  <2> QED
    BY <1>1, <2>1 DEF AllInv, Inv, IInv, TypeOK
<1>20. StoreInv'
  <2>1. to \in {"reserveAssign", "reserveUnlock"}
    OBVIOUS
  <2> HIDE DEF to
  <2> QED
    BY <1>1, <1>5, <1>16, <1>17, <1>18, <1>19, <2>1, SeatStepInv
    DEF TakingPlaces
<1> QED
  BY <1>15, <1>20
------------------------------------------------------------------------------
(***************************************************************************)
(* Every step of a session thread.                                         *)
(***************************************************************************)
LEMMA LockStore ==
    ASSUME AllInv, SaleInv', NEW t \in Threads, NEW from, NEW to,
           Go(t, from, to),
           <<from, to>> \in {<<"create", "createLookup">>,
                             <<"createLookup", "createAppend">>,
                             <<"reserve", "reserveLookup">>,
                             <<"reserveRdUnlock", "reserveMutex">>,
                             <<"reserveMutex", "reserveCheck">>,
                             <<"reserveCheck", "reserveNumber">>,
                             <<"show", "showLookup">>,
                             <<"showRdUnlock", "showMutex">>,
                             <<"showMutex", "showCopy">>,
                             <<"list", "listCount">>},
           UNCHANGED <<list, req, res, ev, rid, seat, num, shown, current>>
    PROVE  StoreInv' /\ Store' = Store
<1>1. /\ from \notin DecidedPlaces \cup {"idle"}
      /\ to \notin DecidedPlaces \cup {"idle"}
      /\ to \in CreatePlaces => from \in CreatePlaces
      /\ to \in ReservePlaces => from \in ReservePlaces
      /\ to \in ShowPlaces => from \in ShowPlaces
      /\ to \in ListPlaces => from \in ListPlaces
      /\ to \in FoundPlaces => from \in FoundPlaces
      /\ to # "listIds"
  BY DEF CreatePlaces, WritePlaces, ReservePlaces, ShowPlaces, ListPlaces,
         DecidedPlaces, FoundPlaces, EventPlaces
<1>2. to \in FoundPlaces => ev'[t] = GetEvent(list, req[t].id)
  BY <1>1 DEF Go, AllInv, StoreInv, CallOf
<1> QED
  BY <1>1, <1>2, UndecidedInv

LEMMA LookupStore ==
    ASSUME AllInv, SaleInv', NEW t \in Threads, NEW from, NEW to,
           <<from, to>> \in {<<"reserveLookup", "reserveRdUnlock">>,
                             <<"showLookup", "showRdUnlock">>},
           Lookup(t, from, to)
    PROVE  StoreInv' /\ Store' = Store
<1>1. /\ from \notin DecidedPlaces \cup {"idle"}
      /\ to \notin DecidedPlaces \cup {"idle"}
      /\ to \in CreatePlaces => from \in CreatePlaces
      /\ to \in ReservePlaces => from \in ReservePlaces
      /\ to \in ShowPlaces => from \in ShowPlaces
      /\ to \in ListPlaces => from \in ListPlaces
      /\ to # "listIds"
  BY DEF CreatePlaces, WritePlaces, ReservePlaces, ShowPlaces, ListPlaces,
         DecidedPlaces
<1>2. /\ ev'[t] = GetEvent(list, req[t].id)
      /\ \A u \in All \ {t} : ev'[u] = ev[u]
      /\ Go(t, from, to)
      /\ UNCHANGED <<list, req, res, rid, seat, num, shown, current>>
  BY Typed DEF AllInv, Lookup, shared
<1> QED
  BY <1>1, <1>2, UndecidedInv

LEMMA NotFoundStore ==
    ASSUME AllInv, SaleInv', NEW t \in Threads, NEW from,
           from \in {"reserveRdUnlock", "showRdUnlock"},
           NotFound(t, from, "return")
    PROVE  StoreInv' /\ Store' = Store
<1>1. res'[t] = Failed
  BY Typed DEF AllInv, NotFound, Answer
<1>2. CopyOf(t)'
  BY <1>1 DEF CopyOf
<1>3. Failed # NoAnswer
  BY DEF Failed, NoAnswer
<1>4. /\ Go(t, from, "return") /\ Answer(t, Failed)
      /\ UNCHANGED <<list, req, ev, rid, seat, num, shown, current>>
  BY DEF NotFound
<1> QED
  BY <1>2, <1>3, <1>4, DecideInv

LEMMA CreateLookupStore ==
    ASSUME AllInv, SaleInv', NEW t \in Threads, CreateLookup(t)
    PROVE  StoreInv' /\ Store' = Store
<1>1. UNCHANGED <<list, req, ev, rid, seat, num, shown, current>>
  BY DEF CreateLookup, shared
<1>2. CASE GetEvent(list, req[t].id) # NULL
  <2>1. Go(t, "createLookup", "createUnlock") /\ Answer(t, Failed)
    BY <1>2 DEF CreateLookup
  <2>2. pc'[t] = "createUnlock"
    BY <2>1, Typed DEF AllInv, Go
  <2>3. CopyOf(t)' /\ Failed # NoAnswer
    BY <2>2 DEF CopyOf, Failed, NoAnswer
  <2> QED
    BY <1>1, <2>1, <2>3, DecideInv
<1>3. CASE GetEvent(list, req[t].id) = NULL
  <2>1. Go(t, "createLookup", "createAppend") /\ res' = res
    BY <1>3 DEF CreateLookup
  <2> QED
    BY <1>1, <2>1, LockStore
<1> QED
  BY <1>2, <1>3

LEMMA ReserveCheckStore ==
    ASSUME AllInv, SaleInv', NEW t \in Threads, ReserveCheck(t)
    PROVE  StoreInv' /\ Store' = Store
<1> DEFINE e == list[ev[t]]
           possible == InBounds(e, req[t].seats) /\ Free(e, req[t].seats)
<1>1. UNCHANGED <<list, req, ev, rid, seat, num, shown, current>>
  BY DEF ReserveCheck, shared
<1>2. CASE ~possible
  <2>1. Go(t, "reserveCheck", "reserveUnlock") /\ Answer(t, Failed)
    BY <1>2 DEF ReserveCheck
  <2>2. pc'[t] = "reserveUnlock"
    BY <2>1, Typed DEF AllInv, Go
  <2>3. CopyOf(t)' /\ Failed # NoAnswer
    BY <2>2 DEF CopyOf, Failed, NoAnswer
  <2> QED
    BY <1>1, <2>1, <2>3, DecideInv
<1>3. CASE possible
  <2>1. Go(t, "reserveCheck", "reserveNumber") /\ res' = res
    BY <1>3 DEF ReserveCheck
  <2> QED
    BY <1>1, <2>1, LockStore
<1> QED
  BY <1>2, <1>3

\* SHOW copies the seats of an event it has to itself.
LEMMA ShowCopyStore ==
    ASSUME AllInv, SaleInv', NEW t \in Threads, ShowCopy(t)
    PROVE  /\ StoreInv' /\ Store' = Store
           /\ ev[t] \in DOMAIN list /\ Store[ev[t]] = list[ev[t]]
<1> DEFINE n == ev[t]
           a == Snapshot(list[n])
<1>1. /\ pc[t] = "showCopy" /\ pc'[t] = "showUnlock" /\ res'[t] = a
      /\ Go(t, "showCopy", "showUnlock") /\ Answer(t, a)
      /\ UNCHANGED <<list, req, ev, rid, seat, num, shown, current>>
      /\ t \in All
  BY Typed DEF AllInv, ShowCopy, Go, Answer, shared
<1>2. n \in DOMAIN list /\ n \in DOMAIN mutex /\ mutex[n] = t
  <2>1. n # NULL /\ n \in DOMAIN list
    BY <1>1, Typed DEF AllInv, Inv, IInv, PointerInv, EventPlaces
  <2>2. n \in DOMAIN mutex
    BY <2>1, LenProperties DEF AllInv, Inv, IInv, TypeOK
  <2>3. mutex[n] = t
    BY <1>1, <2>2 DEF AllInv, StoreInv, SaleInv, MutexInv, MutexPlaces
  <2> QED
    BY <2>1, <2>2, <2>3
<1>3. \A u \in Threads : pc[u] = "reserveAssign" => ev[u] # n
  BY <1>1, <1>2, NobodyAssigns DEF AllInv, StoreInv
<1>4. SettledPast(list[n].data, n) /\ Store[n] = list[n]
  BY <1>2, <1>3, WholeCopy, ShownAsIs DEF AllInv
<1>5. CopyOf(t)'
  <2>1. \A m : Settled(m)' = Settled(m)
    <3>1. \A u \in Threads :
             pc'[u] = "reserveAssign" <=> pc[u] = "reserveAssign"
      BY <1>1, Typed DEF AllInv, Go
    <3> QED
      BY <1>1, <3>1, StoreSame
  <2>2. res'[t].data = list[n].data
    <3> HIDE DEF n
    <3> QED
      BY <1>1 DEF Snapshot
  <2>3. SettledPast(list[n].data, n)'
    BY <1>1, <1>4, <2>1 DEF SettledPast, AfterReservations
  <2> QED
    BY <1>1, <1>2, <2>2, <2>3 DEF CopyOf
<1>6. a # NoAnswer
  BY DEF Snapshot, NoAnswer
<1> QED
  BY <1>1, <1>2, <1>4, <1>5, <1>6, DecideInv

StoreKept == StoreInv' /\ Store' = Store

LEMMA CreateStepStore ==
    ASSUME AllInv, SaleInv', NEW t \in Threads, CreateStep(t)
    PROVE  StoreInv' /\ (CreateAppend(t) \/ StoreKept)
<1>1. CASE CreateLock(t)
  BY <1>1, LockStore DEF CreateLock, TakeWrite, locals, StoreKept
<1>2. CASE CreateLookup(t)
  BY <1>2, CreateLookupStore DEF StoreKept
<1>3. CASE CreateNoMemory(t)
  <2>1. /\ Go(t, "createAppend", "createUnlock") /\ Answer(t, Failed)
        /\ UNCHANGED <<list, req, ev, rid, seat, num, shown, current>>
    BY <1>3 DEF CreateNoMemory, shared
  <2>2. pc'[t] = "createUnlock"
    BY <2>1, Typed DEF AllInv, Go
  <2>3. CopyOf(t)' /\ Failed # NoAnswer
    BY <2>2 DEF CopyOf, Failed, NoAnswer
  <2> QED
    BY <2>1, <2>3, DecideInv DEF StoreKept
<1>4. CASE CreateAppend(t)
  BY <1>4, CreateAppendStore
<1>5. CASE CreateUnlock(t)
  BY <1>5, DecidedInv DEF CreateUnlock, DropWrite, locals, StoreKept
<1> QED
  BY <1>1, <1>2, <1>3, <1>4, <1>5 DEF CreateStep, StoreKept

LEMMA ReserveStepStore ==
    ASSUME AllInv, SaleInv', NEW t \in Threads, ReserveStep(t)
    PROVE  StoreInv' /\ (ReserveNumber(t) \/ StoreKept)
<1>1. CASE ReserveRdLock(t)
  BY <1>1, LockStore DEF ReserveRdLock, TakeRead, locals, StoreKept
<1>2. CASE ReserveLookup(t)
  BY <1>2, LookupStore DEF ReserveLookup, StoreKept
<1>3. CASE ReserveFound(t)
  BY <1>3, LockStore DEF ReserveFound, Found, DropRead, locals, StoreKept
<1>4. CASE ReserveNotFound(t)
  BY <1>4, NotFoundStore DEF ReserveNotFound, StoreKept
<1>5. CASE ReserveMutex(t)
  BY <1>5, LockStore DEF ReserveMutex, TakeMutex, locals, StoreKept
<1>6. CASE ReserveCheck(t)
  BY <1>6, ReserveCheckStore DEF StoreKept
<1>7. CASE ReserveNumber(t)
  BY <1>7, ReserveNumberStore
<1>8. CASE ReserveAssign(t)
  BY <1>8, ReserveAssignStore DEF StoreKept
<1>9. CASE ReserveUnlock(t)
  BY <1>9, DecidedInv DEF ReserveUnlock, DropMutex, locals, StoreKept
<1> QED
  BY <1>1, <1>2, <1>3, <1>4, <1>5, <1>6, <1>7, <1>8, <1>9
  DEF ReserveStep, StoreKept

LEMMA ShowStepStore ==
    ASSUME AllInv, SaleInv', NEW t \in Threads, ShowStep(t)
    PROVE  StoreKept
<1>1. CASE ShowRdLock(t)
  BY <1>1, LockStore DEF ShowRdLock, TakeRead, locals, StoreKept
<1>2. CASE ShowLookup(t)
  BY <1>2, LookupStore DEF ShowLookup, StoreKept
<1>3. CASE ShowFound(t)
  BY <1>3, LockStore DEF ShowFound, Found, DropRead, locals, StoreKept
<1>4. CASE ShowNotFound(t)
  BY <1>4, NotFoundStore DEF ShowNotFound, StoreKept
<1>5. CASE ShowMutex(t)
  BY <1>5, LockStore DEF ShowMutex, TakeMutex, locals, StoreKept
<1>6. CASE ShowCopy(t)
  BY <1>6, ShowCopyStore DEF StoreKept
<1>7. CASE ShowUnlock(t)
  BY <1>7, DecidedInv DEF ShowUnlock, DropMutex, locals, StoreKept
<1> QED
  BY <1>1, <1>2, <1>3, <1>4, <1>5, <1>6, <1>7 DEF ShowStep

LEMMA ListStepStore ==
    ASSUME AllInv, SaleInv', NEW t \in Threads, ListStep(t)
    PROVE  StoreKept
<1>1. CASE ListRdLock(t)
  BY <1>1, LockStore DEF ListRdLock, TakeRead, locals, StoreKept
<1>2. CASE ListCount(t)
  <2>1. /\ num'[t] = Len(list)
        /\ \A u \in Threads \ {t} : num'[u] = num[u]
        /\ Go(t, "listCount", "listIds")
        /\ UNCHANGED <<list, req, res, ev, rid, seat, shown, current>>
    BY <1>2 DEF AllInv, Inv, IInv, TypeOK, ListCount, shared
  <2>2. {"listCount", "listIds"} \subseteq ListPlaces
    BY DEF ListPlaces
  <2>3. "listCount" \notin DecidedPlaces \cup {"idle"}
        /\ "listIds" \notin DecidedPlaces \cup {"idle"}
        /\ "listIds" \notin CreatePlaces \cup ReservePlaces \cup ShowPlaces
        /\ "listIds" \notin FoundPlaces
    BY DEF CreatePlaces, WritePlaces, ReservePlaces, ShowPlaces, DecidedPlaces,
           FoundPlaces, EventPlaces
  <2> QED
    BY <2>1, <2>2, <2>3, UndecidedInv DEF StoreKept
<1>3. CASE ListIds(t)
  <2> DEFINE a == [ret |-> 0, num |-> num[t], ids |-> Ids(list, num[t])]
  <2>1. /\ Go(t, "listIds", "listUnlock") /\ Answer(t, a)
        /\ UNCHANGED <<list, req, ev, rid, seat, num, shown, current>>
    BY <1>3 DEF ListIds, shared
  <2>2. pc'[t] = "listUnlock"
    BY <2>1, Typed DEF AllInv, Go
  <2>3. CopyOf(t)' /\ a # NoAnswer
    BY <2>2 DEF CopyOf, NoAnswer
  <2> HIDE DEF a
  <2> QED
    BY <2>1, <2>3, DecideInv DEF StoreKept
<1>4. CASE ListRdUnlock(t)
  BY <1>4, DecidedInv DEF ListRdUnlock, DropRead, locals, StoreKept
<1> QED
  BY <1>1, <1>2, <1>3, <1>4 DEF ListStep

LEMMA ServeStore ==
    ASSUME AllInv, SaleInv', NEW t \in Threads, Serve(t)
    PROVE  /\ StoreInv'
           /\ CreateAppend(t) \/ ReserveNumber(t) \/ Store' = Store
BY CreateStepStore, ReserveStepStore, ShowStepStore, ListStepStore, ReturnStore
DEF Serve, StoreKept
------------------------------------------------------------------------------
(***************************************************************************)
(* The steps of the host.                                                  *)
(***************************************************************************)
LEMMA ShownTyped ==
    ASSUME AllInv
    PROVE  /\ Len(shown) \in Nat /\ DOMAIN shown = 1 .. Len(shown)
           /\ Len(list) \in Nat /\ DOMAIN list = 1 .. Len(list)
           /\ current \in DOMAIN list \cup {NULL}
           /\ ReportInv
BY LenProperties, Typed DEF AllInv, StoreInv, Inv, IInv, TypeOK, Pointers

\* A step of the host that prints nothing.
LEMMA HostStepStore ==
    ASSUME AllInv, SaleInv', NEW from, NEW to, Go(Host, from, to),
           UNCHANGED <<list, req, res, rid, seat, num>>,
           \A u \in Threads : ev'[u] = ev[u],
           shown' = shown,
           to = "all" => shown = <<>>,
           to = "allNode" =>
              Len(shown) = IF current' = NULL THEN Len(list) ELSE current' - 1,
           to \in HostEventPlaces => current' # NULL,
           to \in {"allMutex", "allPrint"} =>
              Len(shown) = current' - 1 /\ ev'[Host] = current',
           to \in {"allUnlock", "allNewline"} => Len(shown) = current'
    PROVE  StoreKept
<1>1. pc'[Host] = to
  BY Typed DEF AllInv, Go
<1>2. (\A n : Settled(n)' = Settled(n)) => ReportInv'
  <2> SUFFICES ASSUME \A n : Settled(n)' = Settled(n)
               PROVE  ReportInv'
    OBVIOUS
  <2>1. \A d, n : SettledPast(d, n)' = SettledPast(d, n)
    BY DEF SettledPast, AfterReservations
  <2>2. ReportInv
    BY DEF AllInv, StoreInv
  <2> QED
    BY <1>1, <2>1, <2>2 DEF ReportInv
<1> QED
  BY <1>2, HostKeepInv DEF StoreKept

LEMMA ShowAllStore ==
    ASSUME AllInv, SaleInv', ShowAll
    PROVE  StoreKept /\ shown' \in Seq(Copies)
<1>1. /\ Go(Host, "idle", "all") /\ shown' = <<>> /\ pc'[Host] = "all"
      /\ UNCHANGED <<list, req, res, ev, rid, seat, num, current>>
  BY Typed DEF AllInv, ShowAll, Go, shared
<1>2. ReportInv'
  <2>1. Len(shown') = 0 /\ DOMAIN shown' = {} /\ Len(list') \in Nat
    BY <1>1, ShownTyped
  <2>2. Len(shown') <= Len(list')
    BY <2>1
  <2> QED
    BY <1>1, <2>1, <2>2 DEF ReportInv, HostEventPlaces
<1>3. shown' \in Seq(Copies)
  BY <1>1
<1> QED
  BY <1>1, <1>2, <1>3, HostKeepInv DEF StoreKept

\* The host finds the node it stands at: no other has the same identifier.
LEMMA AllLookupStore ==
    ASSUME AllInv, SaleInv', AllLookup
    PROVE  StoreKept /\ shown' = shown
<1>1. current \in DOMAIN list /\ current # NULL
  BY ShownTyped DEF AllLookup
<1>2. GetEvent(list, list[current].id) = current
  <2>1. Nodes(list, list[current].id) = {current}
    BY <1>1 DEF Nodes, AllInv, Inv, IInv, UniqueIds
  <2>2. DOMAIN list \subseteq Nat \ {0}
    BY ShownTyped
  <2> QED
    BY <1>1, <2>1, <2>2, GetEventOnly
<1>3. /\ ev'[Host] = current /\ \A u \in Threads : ev'[u] = ev[u]
      /\ Go(Host, "allNode", "allMutex")
      /\ UNCHANGED <<list, req, res, rid, seat, num, shown, current>>
  BY <1>1, <1>2, Typed DEF AllInv, AllLookup, shared
<1>4. Len(shown) = current - 1
  BY <1>1, <1>3 DEF AllInv, StoreInv, ReportInv, Go
<1> QED
  BY <1>1, <1>3, <1>4, HostStepStore

LEMMA AllPrintStore ==
    ASSUME AllInv, SaleInv', AllPrint
    PROVE  StoreKept /\ shown' \in Seq(Copies)
<1> DEFINE n == ev[Host]
           d == [id |-> list[current].id, data |-> list[n].data]
           l == Len(shown)
<1>1. /\ pc[Host] = "allPrint" /\ pc'[Host] = "allUnlock"
      /\ Go(Host, "allPrint", "allUnlock")
      /\ shown' = Append(shown, d)
      /\ UNCHANGED <<list, req, res, ev, rid, seat, num, current>>
      /\ Host \in All /\ Host \notin Threads
  BY Typed DEF AllInv, AllPrint, Go, shared
<1>2. /\ l \in Nat /\ DOMAIN shown = 1 .. l
      /\ current \in DOMAIN list /\ n = current /\ l = current - 1
      /\ DOMAIN list = 1 .. Len(list) /\ Len(list) \in Nat
      /\ \A m \in DOMAIN shown : /\ shown[m].id = list[m].id
                                 /\ SettledPast(shown[m].data, m)
  BY <1>1, ShownTyped DEF ReportInv, HostEventPlaces
<1>3. n \in DOMAIN list /\ n \in DOMAIN mutex /\ mutex[n] = Host
  <2>1. n \in DOMAIN mutex
    BY <1>2, LenProperties DEF AllInv, Inv, IInv, TypeOK
  <2>2. mutex[n] = Host
    BY <1>1, <2>1 DEF AllInv, StoreInv, SaleInv, MutexInv, MutexPlaces
  <2> QED
    BY <1>2, <2>1, <2>2
<1>4. \A u \in Threads : pc[u] = "reserveAssign" => ev[u] # n
  BY <1>1, <1>3, NobodyAssigns DEF AllInv, StoreInv
<1>5. d.id = list[n].id /\ SettledPast(d.data, n)
  BY <1>2, <1>3, <1>4, WholeCopy
<1>6. d \in Copies
  <2>1. list[n] \in Event
    BY <1>3 DEF AllInv, Inv
  <2>2. list[current].id \in Nat
    BY <1>2, <2>1 DEF Event
  <2> QED
    BY <2>1, <2>2 DEF Copies
<1> HIDE DEF d, l
<1>7. /\ shown' \in Seq(Copies) /\ Len(shown') = l + 1
      /\ DOMAIN shown' = 1 .. l + 1
      /\ shown'[l + 1] = d /\ \A m \in 1 .. l : shown'[m] = shown[m]
  <2>1. shown \in Seq(Copies)
    BY DEF AllInv
  <2>2. /\ shown' \in Seq(Copies) /\ Len(shown') = l + 1
        /\ shown'[l + 1] = d /\ \A m \in 1 .. l : shown'[m] = shown[m]
    BY <1>1, <1>6, <2>1, AppendProperties DEF l
  <2> QED
    BY <2>2, LenProperties
<1>8. (\A m : Settled(m)' = Settled(m)) => ReportInv'
  <2> SUFFICES ASSUME \A m : Settled(m)' = Settled(m)
               PROVE  ReportInv'
    OBVIOUS
  <2>1. \A c, m : SettledPast(c, m)' = SettledPast(c, m)
    BY <1>1 DEF SettledPast, AfterReservations
  <2>2. l + 1 = n /\ l + 1 <= Len(list) /\ current # NULL
    BY <1>2 DEF NULL
  <2>3. ASSUME NEW m \in DOMAIN shown'
        PROVE  shown'[m].id = list[m].id /\ SettledPast(shown'[m].data, m)
    <3>1. CASE m \in 1 .. l
      BY <1>2, <1>7, <3>1
    <3>2. CASE m = l + 1
      BY <1>5, <1>7, <2>2, <3>2
    <3> QED
      BY <1>2, <1>7, <3>1, <3>2
  <2>4. (\A m \in DOMAIN shown : /\ shown[m].id = list[m].id
                                  /\ SettledPast(shown[m].data, m))'
    BY <1>1, <1>7, <2>1, <2>3
  <2> QED
    BY <1>1, <1>2, <1>7, <2>2, <2>4 DEF ReportInv
<1> QED
  BY <1>1, <1>7, <1>8, HostKeepInv DEF StoreKept

LEMMA ReportStore ==
    ASSUME AllInv, SaleInv', ~ StdoutMayFail, Report
    PROVE  StoreKept /\ shown' \in Seq(Copies)
<1>1. shown \in Seq(Copies)
  BY DEF AllInv
<1>2. /\ "allNode" \notin HostEventPlaces /\ "idle" \notin HostEventPlaces
      /\ {"allMutex", "allPrint", "allUnlock", "allNewline"}
            \subseteq HostEventPlaces
  BY DEF HostEventPlaces
<1>3. CASE AllRdLock
  <2>1. /\ Go(Host, "all", "allNode") /\ pc[Host] = "all"
        /\ current' = IF list = <<>> THEN NULL ELSE 1
        /\ UNCHANGED <<list, req, res, ev, rid, seat, num, shown>>
    BY <1>3 DEF AllRdLock, Go
  <2>2. Len(shown) = IF current' = NULL THEN Len(list) ELSE current' - 1
    <3>1. Len(shown) = 0
      BY <2>1, ShownTyped DEF ReportInv
    <3> QED
      BY <2>1, <3>1 DEF NULL
  <2> QED
    BY <1>1, <1>2, <2>1, <2>2, HostStepStore
<1>4. CASE AllLookup
  BY <1>1, <1>4, AllLookupStore
<1>5. CASE AllMutex
  <2>1. /\ Go(Host, "allMutex", "allPrint") /\ pc[Host] = "allMutex"
        /\ UNCHANGED <<list, req, res, ev, rid, seat, num, shown, current>>
    BY <1>5 DEF AllMutex, TakeMutex, Go, locals
  <2>2. current # NULL /\ Len(shown) = current - 1 /\ ev[Host] = current
    BY <1>2, <2>1, ShownTyped DEF ReportInv
  <2> QED
    BY <1>1, <1>2, <2>1, <2>2, HostStepStore
<1>6. CASE AllPrint
  BY <1>6, AllPrintStore
<1>7. CASE AllUnlock
  <2>1. /\ Go(Host, "allUnlock", "allNewline") /\ pc[Host] = "allUnlock"
        /\ UNCHANGED <<list, req, res, ev, rid, seat, num, shown, current>>
    BY <1>7 DEF AllUnlock, DropMutex, Go, locals
  <2>2. current # NULL /\ Len(shown) = current
    BY <1>2, <2>1, ShownTyped DEF ReportInv
  <2> QED
    BY <1>1, <1>2, <2>1, <2>2, HostStepStore
<1>8. CASE AllNewline
  <2>1. /\ Go(Host, "allNewline", "allNode") /\ pc[Host] = "allNewline"
        /\ current' = NextNode(current)
        /\ UNCHANGED <<list, req, res, ev, rid, seat, num, shown>>
    BY <1>8 DEF AllNewline, Go, shared
  <2>2. current \in 1 .. Len(list) /\ Len(list) \in Nat /\ Len(shown) = current
    BY <1>2, <2>1, ShownTyped DEF ReportInv
  <2>3. Len(shown) = IF current' = NULL THEN Len(list) ELSE current' - 1
    BY <2>1, <2>2 DEF NextNode, NULL
  <2> QED
    BY <1>1, <1>2, <2>1, <2>3, HostStepStore
<1>9. CASE AllRdUnlock
  <2>1. /\ Go(Host, "allNode", "idle")
        /\ UNCHANGED <<list, req, res, ev, rid, seat, num, shown, current>>
    BY <1>9 DEF AllRdUnlock, DropRead, locals
  <2> QED
    BY <1>1, <1>2, <2>1, HostStepStore
<1> QED
  BY <1>3, <1>4, <1>5, <1>6, <1>7, <1>8, <1>9
  DEF Report, AllPrintFails, AllNewlineFails

------------------------------------------------------------------------------
(***************************************************************************)
(* The invariant.                                                          *)
(***************************************************************************)
LEMMA InitStore == Init => AllInv
<1> SUFFICES ASSUME Init
             PROVE  AllInv
  OBVIOUS
<1>1. Inv /\ SaleInv
  BY InitInv, InitSale
<1>2. /\ list = <<>> /\ shown = <<>> /\ Host \in All /\ Threads \subseteq All
      /\ \A t \in Threads : pc[t] = "idle" /\ req[t] = None /\ res[t] = NoAnswer
      /\ pc[Host] = "idle"
  BY DEF Init, All
<1>3. ASSUME NEW t \in Threads
      PROVE  CallOf(t) /\ AssignedOf(t) /\ CopyOf(t)
  BY <1>2
  DEF CallOf, AssignedOf, CopyOf, CreatePlaces, WritePlaces, ReservePlaces,
      ShowPlaces, ListPlaces, DecidedPlaces, FoundPlaces, EventPlaces
<1>4. StoreNumbered
  BY <1>2 DEF StoreNumbered
<1>5. ReportInv
  BY <1>2 DEF ReportInv, HostEventPlaces
<1>6. shown \in Seq(Copies)
  BY <1>2
<1> QED
  BY <1>1, <1>3, <1>4, <1>5, <1>6 DEF AllInv, StoreInv

LEMMA StutterStore ==
    ASSUME AllInv, UNCHANGED vars
    PROVE  AllInv' /\ Store' = Store
<1> USE DEF vars, shared, locals, budget
<1>1. Inv'
  BY NextInv DEF AllInv
<1>2. SaleInv'
  BY DEF AllInv, StoreInv, SaleInv, MutexInv, HostReaderInv, SeatsOf
<1>3. Store' = Store /\ \A n : Settled(n)' = Settled(n)
  BY StoreSame
<1>4. \A t \in Threads : CallOf(t)' /\ AssignedOf(t)' /\ CopyOf(t)'
  BY <1>3, OthersKept DEF Elsewhere, AllInv, StoreInv
<1>5. StoreNumbered'
  BY <1>3 DEF AllInv, StoreInv, StoreNumbered
<1>6. ReportInv'
  BY <1>3, ReportKept DEF AllInv, StoreInv
<1> QED
  BY <1>1, <1>2, <1>3, <1>4, <1>5, <1>6 DEF AllInv, StoreInv

LEMMA NextStore ==
    ASSUME AllInv, ~ StdoutMayFail, [Next]_vars
    PROVE  /\ AllInv'
           /\ \/ \E t \in Threads : CreateAppend(t) \/ ReserveNumber(t)
              \/ Store' = Store
<1>1. Inv' /\ SaleInv'
  BY NextInv, NextSale DEF AllInv, StoreInv
<1>2. shown \in Seq(Copies)
  BY DEF AllInv
<1>3. CASE UNCHANGED vars
  BY <1>3, StutterStore
<1>4. ASSUME NEW t \in Threads, Call(t)
      PROVE  StoreKept /\ shown' = shown
  BY <1>1, <1>4, CallStore DEF Call, StoreKept
<1>5. ASSUME NEW t \in Threads, Serve(t)
      PROVE  /\ StoreInv' /\ shown' = shown
             /\ CreateAppend(t) \/ ReserveNumber(t) \/ Store' = Store
  <2>1. shown' = shown
    BY <1>5
    DEF Serve, CreateStep, ReserveStep, ShowStep, ListStep, Return, CreateLock,
        CreateLookup, CreateNoMemory, CreateAppend, CreateUnlock, ReserveRdLock,
        ReserveLookup, ReserveFound, ReserveNotFound, ReserveMutex,
        ReserveCheck, ReserveNumber, ReserveAssign, ReserveUnlock, ShowRdLock,
        ShowLookup, ShowFound, ShowNotFound, ShowMutex, ShowCopy, ShowUnlock,
        ListRdLock, ListCount, ListIds, ListRdUnlock, TakeWrite, DropWrite,
        TakeRead, DropRead, TakeMutex, DropMutex, Lookup, Found, NotFound,
        locals
  <2> QED
    BY <1>1, <1>5, <2>1, ServeStore
<1>6. CASE ShowAll
  BY <1>1, <1>6, ShowAllStore DEF AllInv, StoreKept
<1>7. CASE Report
  BY <1>1, <1>7, ReportStore DEF AllInv, StoreKept
<1> QED
  BY <1>1, <1>2, <1>3, <1>4, <1>5, <1>6, <1>7
  DEF AllInv, Next, Quiet, StoreKept

\* As long as writes to stdout do not fail: a thread is inside the operation it
\* was asked for, the numbers on the seats of the store are those of its
\* reservations, and every copy of an event is one of a settled state of it.
THEOREM StoreInvariance ==
    ASSUME ~ StdoutMayFail
    PROVE  Spec => []StoreInv
<1>1. AllInv /\ [Next]_vars => AllInv'
  BY NextStore
<1>2. AllInv => StoreInv
  BY DEF AllInv
<1> QED
  BY InitStore, <1>1, <1>2, PTL DEF Spec

\* While no thread is inside an event, the numbers on its seats are exactly
\* those of the reservations that ems_reserve confirmed: none of them is lost.
THEOREM NoReservationLost ==
    ASSUME ~ StdoutMayFail
    PROVE  Spec => []ReservationsAccounted
<1>1. AllInv /\ [Next]_vars => AllInv'
  BY NextStore
<1>2. ASSUME AllInv
      PROVE  ReservationsAccounted
  <2> SUFFICES ASSUME NEW n \in DOMAIN list, mutex[n] = NoThread
               PROVE  {list[n].data[i] : i \in DOMAIN list[n].data} \ {0}
                          = 1 .. list[n].reservations
    BY DEF ReservationsAccounted
  <2>1. Host \in All /\ Host \notin Threads
    BY <1>2, Typed DEF AllInv
  <2>2. Store[n] = list[n]
    BY <1>2, <2>1, NobodyAssigns, ShownAsIs DEF AllInv, StoreInv
  <2> QED
    BY <1>2, <2>2 DEF AllInv, StoreInv, StoreNumbered
<1> QED
  BY InitStore, <1>1, <1>2, PTL DEF Spec

\* What SHOW answers and what ems_show_all prints of an event is what the event
\* was after a whole number of reservations.
THEOREM CopiesAreHistory ==
    ASSUME ~ StdoutMayFail
    PROVE  Spec => []SnapshotIsHistory
<1>1. AllInv /\ [Next]_vars => AllInv'
  BY NextStore
<1>2. ASSUME AllInv
      PROVE  SnapshotIsHistory
  <2>1. ASSUME NEW n \in DOMAIN list, NEW d, SettledPast(d, n)
        PROVE  Past(d, list[n])
    <3>1. PICK k \in 0 .. Settled(n) : AfterReservations(d, list[n], k)
      BY <2>1 DEF SettledPast
    <3>2. list[n].reservations \in Nat
      BY <1>2, Typed, EventFields DEF AllInv
    <3>3. Settled(n) \in {list[n].reservations, list[n].reservations - 1}
      BY DEF Settled
    <3>4. k \in 0 .. list[n].reservations
      BY <3>1, <3>2, <3>3
    <3> QED
      BY <3>1, <3>4 DEF Past
  <2>2. ASSUME NEW t \in Threads, pc[t] = "return", req[t].op = "show",
               res[t] # Failed
        PROVE  Past(res[t].data, list[ev[t]])
    BY <1>2, <2>1, <2>2 DEF AllInv, StoreInv, CopyOf
  <2>3. ASSUME NEW n \in DOMAIN shown
        PROVE  Past(shown[n].data, list[n])
    <3>1. /\ DOMAIN shown = 1 .. Len(shown) /\ DOMAIN list = 1 .. Len(list)
          /\ Len(shown) \in Nat /\ Len(list) \in Nat
          /\ ReportInv
      BY <1>2, ShownTyped
    <3>2. Len(shown) <= Len(list) /\ SettledPast(shown[n].data, n)
      BY <3>1 DEF ReportInv
    <3>3. n \in DOMAIN list
      BY <3>1, <3>2
    <3> QED
      BY <2>1, <3>2, <3>3
  <2> QED
    BY <2>2, <2>3 DEF SnapshotIsHistory
<1> QED
  BY InitStore, <1>1, <1>2, PTL DEF Spec

\* A report that is through has printed the events of the list, each once and in
\* the order of the list.
THEOREM ReportsComplete ==
    ASSUME ~ StdoutMayFail
    PROVE  Spec => []ShowAllComplete
<1>1. AllInv /\ [Next]_vars => AllInv'
  BY NextStore
<1>2. ASSUME AllInv, pc[Host] = "allNode", current = NULL
      PROVE  [n \in DOMAIN shown |-> shown[n].id] = Ids(list, Len(list))
  <2>1. /\ DOMAIN shown = 1 .. Len(list)
        /\ \A n \in DOMAIN shown : shown[n].id = list[n].id
    BY <1>2, ShownTyped DEF ReportInv
  <2> QED
    BY <2>1 DEF Ids
<1>3. AllInv => ShowAllComplete
  BY <1>2 DEF ShowAllComplete
<1> QED
  BY InitStore, <1>1, <1>3, PTL DEF Spec

------------------------------------------------------------------------------
(***************************************************************************)
(* Refinement of EventStore.                                               *)
(***************************************************************************)
\* The operators of EventData, as EventStore has them.
LEMMA SameData ==
    /\ \A l, id : Abstract!Nodes(l, id) = Nodes(l, id)
    /\ \A l, id : Abstract!GetEvent(l, id) = GetEvent(l, id)
    /\ \A e, s : Abstract!Wanted(e, s) = Wanted(e, s)
    /\ \A e, s : Abstract!Possible(e, s) <=> InBounds(e, s) /\ Free(e, s)
    /\ \A r : Abstract!NewEvent(r) = NewEvent(r)
    /\ \A e : Abstract!Snapshot(e) = Snapshot(e)
    /\ \A l, n : Abstract!Ids(l, n) = Ids(l, n)
    /\ Abstract!NULL = NULL
    /\ Abstract!Ok = Ok /\ Abstract!Failed = Failed
    /\ Abstract!NoAnswer = NoAnswer
<1>1. \A e, a, b : Abstract!SeatIndex(e, a, b) = SeatIndex(e, a, b)
  BY DEF Abstract!SeatIndex, SeatIndex
<1>2. \A l, id : Abstract!Nodes(l, id) = Nodes(l, id)
  BY DEF Abstract!Nodes, Nodes
<1>3. Abstract!NULL = NULL
  BY DEF Abstract!NULL, NULL
<1>4. \A l, id : Abstract!GetEvent(l, id) = GetEvent(l, id)
  BY DEF Abstract!GetEvent, Abstract!Nodes, Abstract!NULL, GetEvent, Nodes, NULL
<1>5. \A e, s : Abstract!Wanted(e, s) = Wanted(e, s)
  BY <1>1 DEF Abstract!Wanted, Wanted
<1>6. \A e, s : Abstract!InBounds(e, s) = InBounds(e, s)
  BY DEF Abstract!InBounds, InBounds
<1>7. \A e, s : Abstract!Free(e, s) = Free(e, s)
  BY <1>5 DEF Abstract!Free, Free
<1>8. \A e, s : Abstract!Possible(e, s) <=> InBounds(e, s) /\ Free(e, s)
  BY <1>6, <1>7 DEF Abstract!Possible
<1>9. \A r : Abstract!NewEvent(r) = NewEvent(r)
  BY DEF Abstract!NewEvent, NewEvent, Abstract!SeatIndices, SeatIndices
<1>10. /\ \A e : Abstract!Snapshot(e) = Snapshot(e)
       /\ \A l, n : Abstract!Ids(l, n) = Ids(l, n)
  BY DEF Abstract!Snapshot, Snapshot, Abstract!Ids, Ids
<1>11. /\ Abstract!Ok = Ok /\ Abstract!Failed = Failed
       /\ Abstract!NoAnswer = NoAnswer
  BY DEF Abstract!Ok, Ok, Abstract!Failed, Failed, Abstract!NoAnswer, NoAnswer
<1> QED
  BY <1>2, <1>3, <1>4, <1>5, <1>8, <1>9, <1>10, <1>11

LEMMA StoreIds ==
    ASSUME Inv
    PROVE  /\ DOMAIN Store = DOMAIN list /\ DOMAIN list = 1 .. Len(list)
           /\ Len(Store) = Len(list) /\ Len(list) \in Nat
           /\ \A id : GetEvent(Store, id) = GetEvent(list, id)
<1>1. DOMAIN list = 1 .. Len(list) /\ Len(list) \in Nat
  BY Typed
<1>2. /\ DOMAIN Store = DOMAIN list
      /\ \A n \in DOMAIN list : Store[n].id = list[n].id
  BY StoreFields
<1>3. Len(Store) = Len(list)
  <2> DEFINE S == {Store[n] : n \in DOMAIN list}
             m == Len(list)
  <2>1. m \in Nat /\ Store \in [1 .. m -> S]
    BY <1>1, <1>2 DEF Store
  <2> HIDE DEF S, m
  <2>2. Store \in Seq(S)
    BY <2>1, SeqDef
  <2> DEFINE l == Len(Store)
  <2>3. l \in Nat /\ DOMAIN Store = 1 .. l
    BY <2>2, LenProperties
  <2>4. DOMAIN Store = 1 .. m
    BY <2>1
  <2> HIDE DEF l
  <2>5. (l = 0 \/ l \in 1 .. m) /\ (m = 0 \/ m \in 1 .. l)
    BY <2>1, <2>3, <2>4
  <2>6. l = m
    BY <2>1, <2>3, <2>5
  <2> QED
    BY <2>6 DEF l, m
<1>4. \A id : GetEvent(Store, id) = GetEvent(list, id)
  BY <1>2, GetEventSameIds
<1> QED
  BY <1>1, <1>2, <1>3, <1>4

\* A thread inside an operation that has no answer yet is waiting on it.
LEMMA IsPending ==
    ASSUME AllInv, NEW t \in Threads, NEW op, req' = req,
           pc[t] # "idle", pc[t] \notin DecidedPlaces, req[t].op = op
    PROVE  Abstract!Pending(t, op)
BY SameData DEF Abstract!Pending, AllInv, StoreInv, CallOf

LEMMA CreateRefines ==
    ASSUME AllInv, NEW t \in Threads, CreateStep(t),
           CreateAppend(t) => Store' = Append(Store, NewEvent(req[t])),
           CreateAppend(t) \/ Store' = Store
    PROVE  Abstract!Create(t) \/ UNCHANGED <<Store, req, res>>
<1> DEFINE id == req[t].id
<1>1. ASSUME pc[t] \in {"createLookup", "createAppend"}, req' = req
      PROVE  Abstract!Pending(t, "create")
  <2>1. req[t].op = "create" /\ pc[t] # "idle" /\ pc[t] \notin DecidedPlaces
    BY <1>1
    DEF AllInv, StoreInv, CallOf, CreatePlaces, WritePlaces, DecidedPlaces
  <2> QED
    BY <1>1, <2>1, IsPending
<1>2. /\ DOMAIN Store \subseteq Nat \ {0} /\ DOMAIN list \subseteq Nat \ {0}
      /\ GetEvent(Store, id) = GetEvent(list, id)
  BY StoreIds DEF AllInv
<1>3. CASE CreateLookup(t) /\ GetEvent(list, id) # NULL
  <2>1. /\ pc[t] = "createLookup" /\ req' = req
        /\ res' = [res EXCEPT ![t] = Failed]
        /\ ~ CreateAppend(t)
    BY <1>3 DEF CreateLookup, CreateAppend, Go, Answer
  <2>2. Nodes(Store, id) # {}
    BY <1>2, <1>3, GetEventFinds
  <2> QED
    BY <1>1, <2>1, <2>2, SameData DEF Abstract!Create, Abstract!Answer
<1>4. CASE CreateNoMemory(t)
  <2>1. /\ pc[t] = "createAppend" /\ req' = req /\ AllocMayFail
        /\ res' = [res EXCEPT ![t] = Failed]
    BY <1>4 DEF CreateNoMemory, Go, Answer
  <2>2. ~ CreateAppend(t)
    <3>1. res'[t] = Failed /\ Failed # Ok
      BY <2>1, Typed DEF AllInv, Failed, Ok
    <3> QED
      BY <3>1, Typed DEF AllInv, CreateAppend, Answer
  <2> QED
    BY <1>1, <2>1, <2>2, SameData DEF Abstract!Create, Abstract!Answer
<1>5. CASE CreateAppend(t)
  <2>1. /\ pc[t] = "createAppend" /\ req' = req
        /\ res' = [res EXCEPT ![t] = Ok]
    BY <1>5 DEF CreateAppend, Go, Answer
  <2>2. Nodes(list, id) = {}
    BY <2>1 DEF AllInv, Inv, IInv, SearchInv
  <2>3. Nodes(Store, id) = {}
    BY <1>2, <2>2, GetEventFinds
  <2> QED
    BY <1>1, <1>5, <2>1, <2>3, SameData DEF Abstract!Create, Abstract!Answer
<1>6. CASE \/ CreateLock(t)
           \/ CreateUnlock(t)
           \/ CreateLookup(t) /\ GetEvent(list, id) = NULL
  <2>1. UNCHANGED <<req, res>> /\ ~ CreateAppend(t)
    BY <1>6
    DEF CreateLock, CreateUnlock, CreateLookup, CreateAppend, TakeWrite,
        DropWrite, locals, Go
  <2> QED
    BY <2>1
<1> HIDE DEF id
<1> QED
  BY <1>3, <1>4, <1>5, <1>6 DEF CreateStep

\* The seats that are checked are those of the store, for the thread has the
\* mutex of the event.
LEMMA MutexShown ==
    ASSUME AllInv, NEW t \in Threads,
           pc[t] \in {"reserveCheck", "reserveNumber"}
    PROVE  ev[t] \in DOMAIN list /\ ev[t] # NULL /\ Store[ev[t]] = list[ev[t]]
<1>1. ev[t] # NULL /\ ev[t] \in DOMAIN list /\ t \in All
  BY Typed DEF AllInv, Inv, IInv, PointerInv, EventPlaces
<1>2. ev[t] \in DOMAIN mutex
  BY <1>1, LenProperties DEF AllInv, Inv, IInv, TypeOK
<1>3. mutex[ev[t]] = t
  BY <1>1, <1>2
  DEF AllInv, StoreInv, SaleInv, MutexInv, MutexPlaces, TakingPlaces
<1>4. \A u \in Threads : pc[u] = "reserveAssign" => ev[u] # ev[t]
  BY <1>1, <1>3, NobodyAssigns DEF AllInv, StoreInv
<1> QED
  BY <1>1, <1>4, ShownAsIs DEF AllInv

LEMMA ReserveRefines ==
    ASSUME AllInv, SaleInv', NEW t \in Threads, ReserveStep(t),
           ReserveNumber(t) \/ Store' = Store
    PROVE  Abstract!Reserve(t) \/ UNCHANGED <<Store, req, res>>
<1> DEFINE n == ev[t]
           s == req[t].seats
<1>1. ASSUME pc[t] \in {"reserveRdUnlock", "reserveCheck", "reserveNumber"},
             req' = req
      PROVE  Abstract!Pending(t, "reserve") /\ GetEvent(Store, req[t].id) = n
  <2>1. /\ req[t].op = "reserve" /\ pc[t] # "idle"
        /\ pc[t] \notin DecidedPlaces
        /\ n = GetEvent(list, req[t].id)
    BY <1>1
    DEF AllInv, StoreInv, CallOf, ReservePlaces, DecidedPlaces, FoundPlaces,
        EventPlaces
  <2> QED
    BY <1>1, <2>1, IsPending, StoreIds DEF AllInv
<1>2. CASE ReserveNotFound(t)
  <2>1. /\ pc[t] = "reserveRdUnlock" /\ req' = req /\ n = NULL
        /\ res' = [res EXCEPT ![t] = Failed]
        /\ ~ ReserveNumber(t)
    BY <1>2 DEF ReserveNotFound, NotFound, ReserveNumber, Go, Answer
  <2> QED
    BY <1>1, <2>1, SameData DEF Abstract!Reserve, Abstract!Answer
<1>3. CASE ReserveCheck(t) /\ ~ (InBounds(list[n], s) /\ Free(list[n], s))
  <2>1. /\ pc[t] = "reserveCheck" /\ req' = req
        /\ res' = [res EXCEPT ![t] = Failed]
        /\ ~ ReserveNumber(t)
    BY <1>3 DEF ReserveCheck, ReserveNumber, Go, Answer
  <2>2. Store[n] = list[n]
    BY <2>1, MutexShown
  <2>3. ~ Abstract!Possible(Store[n], s)
    BY <1>3, <2>2, SameData
  <2> HIDE DEF n, s
  <2> QED
    BY <1>1, <2>1, <2>3, SameData DEF Abstract!Reserve, Abstract!Answer, s
<1>4. CASE ReserveNumber(t)
  <2>1. /\ pc[t] = "reserveNumber" /\ req' = req
        /\ res' = [res EXCEPT ![t] = Ok]
    BY <1>4 DEF ReserveNumber, Go, Answer
  <2>2. n # NULL
    BY <2>1, MutexShown
  <2>3. /\ Abstract!Possible(Store[n], s)
        /\ Store' = [Store EXCEPT
                       ![n].reservations = Store[n].reservations + 1,
                       ![n].data = [i \in DOMAIN @ |->
                           IF i \in Wanted(Store[n], s)
                           THEN Store[n].reservations + 1 ELSE @[i]]]
    BY <1>4, ReserveNumberStore, SameData
  <2> HIDE DEF n, s
  <2> QED
    BY <1>1, <2>1, <2>2, <2>3, SameData
    DEF Abstract!Reserve, Abstract!Answer, s
<1>5. CASE UNCHANGED <<req, res>> /\ ~ ReserveNumber(t)
  BY <1>5
<1>6. \/ ReserveNotFound(t)
      \/ ReserveCheck(t) /\ ~ (InBounds(list[n], s) /\ Free(list[n], s))
      \/ ReserveNumber(t)
      \/ UNCHANGED <<req, res>>
  BY DEF ReserveStep, ReserveRdLock, ReserveLookup, ReserveFound, ReserveMutex,
         ReserveCheck, ReserveAssign, ReserveUnlock, TakeRead, Lookup, Found,
         DropRead, TakeMutex, DropMutex, locals
<1> QED
  BY <1>2, <1>3, <1>4, <1>5, <1>6

LEMMA ShowRefines ==
    ASSUME AllInv, SaleInv', NEW t \in Threads, ShowStep(t), Store' = Store
    PROVE  Abstract!Show(t) \/ UNCHANGED <<Store, req, res>>
<1> DEFINE n == ev[t]
<1>1. ASSUME pc[t] \in {"showRdUnlock", "showCopy"}, req' = req
      PROVE  Abstract!Pending(t, "show") /\ GetEvent(Store, req[t].id) = n
  <2>1. /\ req[t].op = "show" /\ pc[t] # "idle" /\ pc[t] \notin DecidedPlaces
        /\ n = GetEvent(list, req[t].id)
    BY <1>1
    DEF AllInv, StoreInv, CallOf, ShowPlaces, DecidedPlaces, FoundPlaces,
        EventPlaces
  <2> QED
    BY <1>1, <2>1, IsPending, StoreIds DEF AllInv
<1>2. CASE ShowNotFound(t)
  <2>1. /\ pc[t] = "showRdUnlock" /\ req' = req /\ n = NULL
        /\ res' = [res EXCEPT ![t] = Failed]
    BY <1>2 DEF ShowNotFound, NotFound, Go, Answer
  <2> QED
    BY <1>1, <2>1, SameData DEF Abstract!Show, Abstract!Answer
<1>3. CASE ShowCopy(t)
  <2>1. /\ pc[t] = "showCopy" /\ req' = req
        /\ res' = [res EXCEPT ![t] = Snapshot(list[n])]
    BY <1>3 DEF ShowCopy, Go, Answer
  <2>2. n # NULL /\ Store[n] = list[n]
    BY <1>3, <2>1, ShowCopyStore DEF AllInv, Inv, IInv, PointerInv, EventPlaces
  <2> QED
    BY <1>1, <2>1, <2>2, SameData DEF Abstract!Show, Abstract!Answer
<1>4. \/ ShowNotFound(t) \/ ShowCopy(t)
      \/ UNCHANGED <<req, res>>
  BY DEF ShowStep, ShowRdLock, ShowLookup, ShowFound, ShowMutex, ShowUnlock,
         TakeRead, Lookup, Found, DropRead, TakeMutex, DropMutex, locals
<1> QED
  BY <1>2, <1>3, <1>4

LEMMA ListRefines ==
    ASSUME AllInv, NEW t \in Threads, ListStep(t), Store' = Store
    PROVE  Abstract!List(t) \/ UNCHANGED <<Store, req, res>>
<1>1. CASE ListIds(t)
  <2> DEFINE a == [ret |-> 0, num |-> num[t], ids |-> Ids(list, num[t])]
  <2>1. /\ pc[t] = "listIds" /\ req' = req /\ res' = [res EXCEPT ![t] = a]
    BY <1>1 DEF ListIds, Go, Answer
  <2>2. /\ req[t].op = "list" /\ pc[t] # "idle" /\ pc[t] \notin DecidedPlaces
        /\ num[t] = Len(list)
    BY <2>1 DEF AllInv, StoreInv, CallOf, ListPlaces, DecidedPlaces
  <2>3. num[t] = Len(Store) /\ DOMAIN list = 1 .. Len(list)
    BY <2>2, StoreIds DEF AllInv
  <2>4. Ids(list, num[t]) = Ids(Store, num[t])
    <3>1. \A m \in 1 .. num[t] : Store[m].id = list[m].id
      BY <2>2, <2>3, StoreFields DEF AllInv
    <3> QED
      BY <3>1 DEF Ids
  <2>5. a = [ret |-> 0, num |-> Len(Store), ids |-> Ids(Store, Len(Store))]
    BY <2>3, <2>4
  <2>6. Abstract!Pending(t, "list")
    BY <2>1, <2>2, IsPending
  <2> HIDE DEF a
  <2> QED
    BY <2>1, <2>5, <2>6, SameData DEF Abstract!List, Abstract!Answer
<1>2. ListIds(t) \/ UNCHANGED <<req, res>>
  BY DEF ListStep, ListRdLock, ListCount, ListRdUnlock, TakeRead, DropRead,
         locals
<1> QED
  BY <1>1, <1>2

LEMMA ServeRefines ==
    ASSUME AllInv, SaleInv', NEW t \in Threads, Serve(t)
    PROVE  [Abstract!Next]_<<Store, req, res>>
<1>1. CASE CreateStep(t)
  <2>1. CreateAppend(t) => Store' = Append(Store, NewEvent(req[t]))
    BY CreateAppendStore
  <2>2. CreateAppend(t) \/ Store' = Store
    BY <1>1, CreateStepStore DEF StoreKept
  <2> QED
    BY <1>1, <2>1, <2>2, CreateRefines DEF Abstract!Next
<1>2. CASE ReserveStep(t)
  <2>1. ReserveNumber(t) \/ Store' = Store
    BY <1>2, ReserveStepStore DEF StoreKept
  <2> QED
    BY <1>2, <2>1, ReserveRefines DEF Abstract!Next
<1>3. CASE ShowStep(t)
  <2>1. Store' = Store
    BY <1>3, ShowStepStore DEF StoreKept
  <2> QED
    BY <1>3, <2>1, ShowRefines DEF Abstract!Next
<1>4. CASE ListStep(t)
  <2>1. Store' = Store
    BY <1>4, ListStepStore DEF StoreKept
  <2> QED
    BY <1>4, <2>1, ListRefines DEF Abstract!Next
<1>5. CASE Return(t)
  <2>1. /\ req' = [req EXCEPT ![t] = None]
        /\ res' = [res EXCEPT ![t] = NoAnswer]
        /\ res[t] # NoAnswer
    BY <1>5 DEF Return, Go, AllInv, StoreInv, CallOf, DecidedPlaces
  <2>2. Store' = Store
    BY <1>5, ReturnStore
  <2>3. Abstract!Return(t)
    BY <2>1, <2>2, SameData DEF Abstract!Return
  <2> QED
    BY <2>3 DEF Abstract!Next
<1> QED
  BY <1>1, <1>2, <1>3, <1>4, <1>5 DEF Serve

LEMMA NextRefines ==
    ASSUME AllInv, ~ StdoutMayFail, [Next]_vars
    PROVE  [Abstract!Next]_<<Store, req, res>>
<1>1. SaleInv'
  BY NextSale DEF AllInv, StoreInv
<1>2. ASSUME NEW t \in Threads, Call(t)
      PROVE  [Abstract!Next]_<<Store, req, res>>
  <2>1. PICK r \in Requests : /\ Go(t, "idle", r.op)
                              /\ req' = [req EXCEPT ![t] = r]
    BY <1>2 DEF Call
  <2>2. req[t] = None /\ res' = res /\ Store' = Store
    BY <1>1, <1>2, <2>1, CallStore DEF Call, Go, AllInv, StoreInv, CallOf
  <2>3. Abstract!Call(t)
    BY <2>1, <2>2 DEF Abstract!Call
  <2> QED
    BY <2>3 DEF Abstract!Next
<1>3. ASSUME NEW t \in Threads, Serve(t)
      PROVE  [Abstract!Next]_<<Store, req, res>>
  BY <1>1, <1>3, ServeRefines
<1>4. CASE ShowAll
  BY <1>1, <1>4, ShowAllStore DEF ShowAll, StoreKept
<1>5. CASE Report
  <2>1. Store' = Store
    BY <1>1, <1>5, ReportStore DEF StoreKept
  <2>2. UNCHANGED <<req, res>>
    BY <1>5
    DEF Report, AllRdLock, AllLookup, AllMutex, AllPrint, AllPrintFails,
        AllUnlock, AllNewline, AllNewlineFails, AllRdUnlock, TakeMutex,
        DropMutex, DropRead, locals, shared
  <2> QED
    BY <2>1, <2>2
<1>6. CASE UNCHANGED vars
  BY <1>6, StutterStore DEF vars, locals
<1> QED
  BY <1>2, <1>3, <1>4, <1>5, <1>6 DEF Next, Quiet

\* The server's operations take effect in one step each: for any number of
\* session threads, any requests and any number of events, what the clients see
\* is what EventStore promises, as long as writes to stdout do not fail.
THEOREM OpsImplementStore ==
    ASSUME ~ StdoutMayFail
    PROVE  Spec => AbstractSpec
<1>1. Init => Abstract!Init
  <2> SUFFICES ASSUME Init
               PROVE  Abstract!Init
    OBVIOUS
  <2>1. Store = <<>>
    <3>1. Len(list) = 0
      BY DEF Init
    <3> QED
      BY <3>1 DEF Store
  <2> QED
    BY <2>1, SameData DEF Init, Abstract!Init
<1>2. AllInv /\ [Next]_vars => AllInv'
  BY NextStore
<1>3. AllInv /\ [Next]_vars => [Abstract!Next]_(Abstract!vars)
  BY NextRefines DEF Abstract!vars
<1> QED
  BY InitStore, <1>1, <1>2, <1>3, PTL DEF Spec, AbstractSpec, Abstract!Spec
==============================================================================
