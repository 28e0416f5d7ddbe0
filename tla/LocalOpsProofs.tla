--------------------------- MODULE LocalOpsProofs ---------------------------
(***************************************************************************)
(* The threads of projeto1 keep their locks in order and their operations  *)
(* take effect in one step each, for any number of threads, any requests   *)
(* and any number of events.                                               *)
(*                                                                         *)
(* Every step is shown to preserve OpsInv in two rounds: first Core, the   *)
(* types, the locks and where each thread is; then what a reservation has  *)
(* taken, what the store shows and what has been printed.  The refinement  *)
(* of EventStore follows from it step by step.                             *)
(***************************************************************************)
EXTENDS LocalOps, EventDataProofs, SequenceTheorems, FiniteSetTheorems

Core == list \in Seq(Event) /\ OpsTypeOK /\ LocksHeld /\ CallInv

------------------------------------------------------------------------------
(***************************************************************************)
(* The readers of the list, counted.                                       *)
(***************************************************************************)
\* There are finitely many of them; where one is, the lock is held.
LEMMA ReadersFinite ==
    /\ IsFiniteSet(ListReaders)
    /\ Cardinality(ListReaders) \in Nat
    /\ \A t \in ListReaders : Cardinality(ListReaders) >= 1
<1>1. IsFiniteSet(ListReaders) /\ Cardinality(ListReaders) \in Nat
  BY ThreadsAssumption, FS_Subset, FS_CardinalityType DEF ListReaders
<1>2. ASSUME NEW t \in ListReaders
      PROVE  Cardinality(ListReaders) >= 1
  <2>1. /\ IsFiniteSet(ListReaders \ {t})
        /\ Cardinality(ListReaders \ {t}) = Cardinality(ListReaders) - 1
    BY <1>1, FS_RemoveElement
  <2>2. Cardinality(ListReaders \ {t}) \in Nat
    BY <2>1, FS_CardinalityType
  <2> QED
    BY <1>1, <2>1, <2>2
<1> QED
  BY <1>1, <1>2

\* A thread that does not come in or go out leaves their number alone.
LEMMA ReadersKept ==
    ASSUME NEW t \in Threads, NEW to, pc \in [Threads -> Places],
           pc' = [pc EXCEPT ![t] = to],
           pc[t] \in ListReadPlaces <=> to \in ListReadPlaces
    PROVE  ListReaders' = ListReaders
BY DEF ListReaders

LEMMA ReaderEnters ==
    ASSUME NEW t \in Threads, NEW to, pc \in [Threads -> Places],
           pc' = [pc EXCEPT ![t] = to],
           pc[t] \notin ListReadPlaces, to \in ListReadPlaces
    PROVE  Cardinality(ListReaders') = Cardinality(ListReaders) + 1
<1>1. ListReaders' = ListReaders \cup {t} /\ t \notin ListReaders
  BY DEF ListReaders
<1> QED
  BY <1>1, ReadersFinite, FS_AddElement

LEMMA ReaderLeaves ==
    ASSUME NEW t \in Threads, NEW to, pc \in [Threads -> Places],
           pc' = [pc EXCEPT ![t] = to],
           pc[t] \in ListReadPlaces, to \notin ListReadPlaces
    PROVE  Cardinality(ListReaders') = Cardinality(ListReaders) - 1
<1>1. ListReaders' = ListReaders \ {t} /\ t \in ListReaders
  BY DEF ListReaders
<1> QED
  BY <1>1, ReadersFinite, FS_RemoveElement

------------------------------------------------------------------------------
(***************************************************************************)
(* The steps that only move a thread, or take or drop the list lock or the *)
(* output.                                                                 *)
(***************************************************************************)
RdLockMoves == {<<"create", "createLookup">>, <<"reserve", "reserveLookup">>,
                <<"show", "showLookup">>, <<"list", "listHead">>}

RdUnlockMoves == {<<"createRdUnlock", "createWrLock">>,
                  <<"reserveRdUnlock", "reserveWrLock">>,
                  <<"showRdUnlock", "showEventLock">>,
                  <<"listUnlock", "return">>}

\* A reader comes in only when no writer is there.
LEMMA RdLockCore ==
    ASSUME Core, NEW t \in Threads, NEW from, NEW to,
           <<from, to>> \in RdLockMoves, RdLock(t, from, to)
    PROVE  Core'
<1> USE ThreadsAssumption DEF RdLock, Go, state, output, locals, Core, LocksHeld
<1>1. list' \in Seq(Event) /\ OpsTypeOK'
  BY DEF RdLockMoves, OpsTypeOK, Places, ListReadPlaces
<1>2. ListLockHeld'
  <2>1. Cardinality(ListReaders') = Cardinality(ListReaders) + 1
    BY ReaderEnters
    DEF RdLockMoves, OpsTypeOK, Places, ListReadPlaces
  <2>2. \A u \in Threads : writer' = u <=> pc'[u] \in ListWritePlaces
    BY DEF RdLockMoves, OpsTypeOK, ListLockHeld, ListWritePlaces
  <2> QED
    BY <2>1, <2>2, ReadersFinite DEF OpsTypeOK, ListLockHeld
<1>3. EventLocksHeld'
  <2>1. \A u \in Threads :
           /\ pc'[u] \in EventWritePlaces <=> pc[u] \in EventWritePlaces
           /\ pc'[u] \in EventReadPlaces <=> pc[u] \in EventReadPlaces
           /\ pc'[u] \in OutputPlaces <=> pc[u] \in OutputPlaces
           /\ pc'[u] \in EventPlaces => ev[u] # NULL
    BY DEF RdLockMoves, OpsTypeOK, EventLocksHeld, EventWritePlaces,
           EventReadPlaces, OutputPlaces, EventPlaces
  <2> QED
    BY <2>1 DEF EventLocksHeld
<1>4. CallInv'
  BY DEF RdLockMoves, OpsTypeOK, CallInv, CreatePlaces, ReservePlaces,
         ShowPlaces, ListPlaces, DecidedPlaces, CountedPlaces, FoundPlaces,
         EventPlaces, EventWritePlaces, EventReadPlaces, ListWritePlaces
<1> QED
  BY <1>1, <1>2, <1>3, <1>4

\* A reader leaves; reserve and show keep their pointer, which is not NULL.
LEMMA RdUnlockCore ==
    ASSUME Core, NEW t \in Threads, NEW from, NEW to,
           <<from, to>> \in RdUnlockMoves, RdUnlock(t, from, to),
           to \in EventPlaces => ev[t] # NULL
    PROVE  Core'
<1> USE ThreadsAssumption
    DEF RdUnlock, Go, state, output, locals, Core, LocksHeld
<1>0. t \in ListReaders
  BY DEF RdUnlockMoves, ListReaders, ListReadPlaces
<1>a. readers >= 1
  BY <1>0, ReadersFinite DEF ListLockHeld, OpsTypeOK
<1>1. list' \in Seq(Event) /\ OpsTypeOK'
  BY <1>a DEF RdUnlockMoves, OpsTypeOK, Places, EventPlaces
<1>2. ListLockHeld'
  <2>1. Cardinality(ListReaders') = Cardinality(ListReaders) - 1
    BY ReaderLeaves
    DEF RdUnlockMoves, OpsTypeOK, Places, ListReadPlaces
  <2>2. \A u \in Threads : writer' = u <=> pc'[u] \in ListWritePlaces
    BY DEF RdUnlockMoves, OpsTypeOK, ListLockHeld, ListWritePlaces
  <2> QED
    BY <1>a, <2>1, <2>2, ReadersFinite DEF OpsTypeOK, ListLockHeld
<1>3. EventLocksHeld'
  <2>1. \A u \in Threads :
           /\ pc'[u] \in EventWritePlaces <=> pc[u] \in EventWritePlaces
           /\ pc'[u] \in EventReadPlaces <=> pc[u] \in EventReadPlaces
           /\ pc'[u] \in OutputPlaces <=> pc[u] \in OutputPlaces
           /\ pc'[u] \in EventPlaces => ev[u] # NULL
    BY DEF RdUnlockMoves, OpsTypeOK, EventLocksHeld, EventWritePlaces,
           EventReadPlaces, OutputPlaces, EventPlaces
  <2> QED
    BY <2>1 DEF EventLocksHeld
<1>4. CallInv'
  BY SMTT(30) DEF RdUnlockMoves, OpsTypeOK, CallInv, CreatePlaces, ReservePlaces,
         ShowPlaces, ListPlaces, DecidedPlaces, CountedPlaces, FoundPlaces,
         EventPlaces, EventWritePlaces, EventReadPlaces, ListWritePlaces
<1> QED
  BY <1>1, <1>2, <1>3, <1>4

\* A reader leaves without an event.
LEMMA NotFoundCore ==
    ASSUME Core, NEW t \in Threads, NEW from \in {"reserveRdUnlock", "showRdUnlock"},
           NotFound(t, from)
    PROVE  Core'
<1> USE ThreadsAssumption
    DEF NotFound, Go, Answer, state, output, locals, Core, LocksHeld
<1>0. t \in ListReaders
  BY DEF ListReaders, ListReadPlaces
<1>a. readers >= 1
  BY <1>0, ReadersFinite DEF ListLockHeld, OpsTypeOK
<1>1. list' \in Seq(Event) /\ OpsTypeOK'
  BY <1>a
  DEF OpsTypeOK, Places, ListReadPlaces, ListWritePlaces, EventPlaces,
      EventWritePlaces, EventReadPlaces, OutputPlaces
<1>2. ListLockHeld'
  <2>1. Cardinality(ListReaders') = Cardinality(ListReaders) - 1
    BY <1>a, ReaderLeaves
    DEF OpsTypeOK, Places, ListReadPlaces
  <2>2. \A u \in Threads : writer' = u <=> pc'[u] \in ListWritePlaces
    BY <1>a
    DEF OpsTypeOK, ListLockHeld, ListWritePlaces
  <2> QED
    BY <1>a, <2>1, <2>2, ReadersFinite
    DEF OpsTypeOK, ListLockHeld, ListWritePlaces
<1>3. EventLocksHeld'
  <2>1. \A u \in Threads :
           /\ pc'[u] \in EventWritePlaces <=> pc[u] \in EventWritePlaces
           /\ pc'[u] \in EventReadPlaces <=> pc[u] \in EventReadPlaces
           /\ pc'[u] \in OutputPlaces <=> pc[u] \in OutputPlaces
           /\ pc'[u] \in EventPlaces => pc[u] \in EventPlaces
           /\ pc[u] \in EventPlaces => ev[u] # NULL /\ ev'[u] = ev[u]
    BY <1>a
    DEF OpsTypeOK, EventLocksHeld, EventWritePlaces, EventReadPlaces,
        OutputPlaces, EventPlaces
  <2> QED
    BY <1>a, <2>1
    DEF OpsTypeOK, EventLocksHeld, EventPlaces
<1>4. CallInv'
  BY <1>a
  DEF OpsTypeOK, CallInv, CreatePlaces, ReservePlaces, ShowPlaces, ListPlaces,
      DecidedPlaces, CountedPlaces, FoundPlaces, EventPlaces, EventWritePlaces,
      EventReadPlaces, ListWritePlaces, NoAnswer, Failed
<1> QED
  BY <1>1, <1>2, <1>3, <1>4

\* The pointer that get_event returns is a node or NULL.
LEMMA LookupCore ==
    ASSUME Core, NEW t \in Threads, NEW from, NEW to,
           <<from, to>> \in {<<"reserveLookup", "reserveRdUnlock">>,
                           <<"showLookup", "showRdUnlock">>},
           Lookup(t, from, to)
    PROVE  Core'
<1> USE ThreadsAssumption
    DEF Lookup, Go, state, locks, output, Core, LocksHeld
<1>0. GetEvent(list, req[t].id) \in DOMAIN list \cup {NULL}
  <2>1. DOMAIN list \subseteq Nat \ {0}
    BY LenProperties
  <2> QED
    BY <2>1, GetEventFinds
<1>1. list' \in Seq(Event) /\ OpsTypeOK'
  BY <1>0
  DEF OpsTypeOK, Places, ListReadPlaces, ListWritePlaces, EventPlaces,
      EventWritePlaces, EventReadPlaces, OutputPlaces
<1>2. ListLockHeld'
  <2>1. Cardinality(ListReaders') = Cardinality(ListReaders)
    BY <1>0, ReadersKept
    DEF OpsTypeOK, Places, ListReadPlaces
  <2>2. \A u \in Threads : writer' = u <=> pc'[u] \in ListWritePlaces
    BY <1>0
    DEF OpsTypeOK, ListLockHeld, ListWritePlaces
  <2> QED
    BY <1>0, <2>1, <2>2, ReadersFinite
    DEF OpsTypeOK, ListLockHeld
<1>3. EventLocksHeld'
  <2>1. \A u \in Threads :
           /\ pc'[u] \in EventWritePlaces <=> pc[u] \in EventWritePlaces
           /\ pc'[u] \in EventReadPlaces <=> pc[u] \in EventReadPlaces
           /\ pc'[u] \in OutputPlaces <=> pc[u] \in OutputPlaces
           /\ pc'[u] \in EventPlaces => pc[u] \in EventPlaces
           /\ pc[u] \in EventPlaces => ev[u] # NULL /\ ev'[u] = ev[u]
    BY <1>0
    DEF OpsTypeOK, EventLocksHeld, EventWritePlaces, EventReadPlaces,
        OutputPlaces, EventPlaces
  <2> QED
    BY <1>0, <2>1
    DEF OpsTypeOK, EventLocksHeld, EventPlaces
<1>4. CallInv'
  BY <1>0, SMTT(30)
  DEF OpsTypeOK, CallInv, CreatePlaces, ReservePlaces, ShowPlaces, ListPlaces,
      DecidedPlaces, CountedPlaces, FoundPlaces, EventPlaces, EventWritePlaces,
      EventReadPlaces, ListWritePlaces
<1> QED
  BY <1>1, <1>2, <1>3, <1>4

\* ems_create goes on to append only when the search has found nothing.
LEMMA CreateLookupCore ==
    ASSUME Core, NEW t \in Threads, CreateLookup(t)
    PROVE  Core'
<1> USE ThreadsAssumption
    DEF CreateLookup, Go, Answer, state, locks, output, locals, Core, LocksHeld
<1>1. list' \in Seq(Event) /\ OpsTypeOK'
  BY DEF OpsTypeOK, Places, ListReadPlaces, ListWritePlaces, EventPlaces,
      EventWritePlaces, EventReadPlaces, OutputPlaces
<1>2. ListLockHeld'
  <2>1. /\ Cardinality(ListReaders') <= Cardinality(ListReaders)
        /\ Cardinality(ListReaders') \in Nat
    <3>1. CASE pc'[t] = "return"
      <4>1. /\ Cardinality(ListReaders') = Cardinality(ListReaders) - 1
            /\ t \in ListReaders
        BY <3>1, ReaderLeaves
        DEF OpsTypeOK, Places, ListReadPlaces, ListReaders
      <4> QED
        BY <4>1, ReadersFinite
    <3>2. CASE pc'[t] = "createRdUnlock"
      <4>1. ListReaders' = ListReaders
        BY <3>2, ReadersKept DEF OpsTypeOK, Places, ListReadPlaces
      <4> QED
        BY <4>1, ReadersFinite
    <3> QED
      BY <3>1, <3>2 DEF OpsTypeOK
  <2>2. \A u \in Threads : writer' = u <=> pc'[u] \in ListWritePlaces
    BY DEF OpsTypeOK, ListLockHeld, ListWritePlaces
  <2> QED
    BY <2>1, <2>2, ReadersFinite
    DEF OpsTypeOK, ListLockHeld, ListWritePlaces
<1>3. EventLocksHeld'
  <2>1. \A u \in Threads :
           /\ pc'[u] \in EventWritePlaces <=> pc[u] \in EventWritePlaces
           /\ pc'[u] \in EventReadPlaces <=> pc[u] \in EventReadPlaces
           /\ pc'[u] \in OutputPlaces <=> pc[u] \in OutputPlaces
           /\ pc'[u] \in EventPlaces => pc[u] \in EventPlaces
           /\ pc[u] \in EventPlaces => ev[u] # NULL /\ ev'[u] = ev[u]
    BY DEF OpsTypeOK, EventLocksHeld, EventWritePlaces, EventReadPlaces,
        OutputPlaces, EventPlaces
  <2> QED
    BY <2>1, SMTT(20), ZenonT(40)
    DEF OpsTypeOK, EventLocksHeld, EventPlaces
<1>4. CallInv'
  BY DEF OpsTypeOK, CallInv, CreatePlaces, ReservePlaces, ShowPlaces, ListPlaces,
      DecidedPlaces, CountedPlaces, FoundPlaces, EventPlaces, EventWritePlaces,
      EventReadPlaces, ListWritePlaces, NoAnswer, Failed
<1> QED
  BY <1>1, <1>2, <1>3, <1>4

\* A writer comes in only when no reader and no other writer is there.
LEMMA CreateWrLockCore ==
    ASSUME Core, NEW t \in Threads, CreateWrLock(t)
    PROVE  Core'
<1> USE ThreadsAssumption
    DEF CreateWrLock, Go, state, output, locals, Core, LocksHeld
<1>1. list' \in Seq(Event) /\ OpsTypeOK'
  BY DEF OpsTypeOK, Places, ListReadPlaces, ListWritePlaces, EventPlaces,
      EventWritePlaces, EventReadPlaces, OutputPlaces
<1>2. ListLockHeld'
  <2>1. Cardinality(ListReaders') = Cardinality(ListReaders)
    BY ReadersKept
    DEF OpsTypeOK, Places, ListReadPlaces
  <2>2. \A u \in Threads : writer' = u <=> pc'[u] \in ListWritePlaces
    BY DEF OpsTypeOK, ListLockHeld, ListWritePlaces
  <2> QED
    BY <2>1, <2>2, ReadersFinite
    DEF OpsTypeOK, ListLockHeld
<1>3. EventLocksHeld'
  <2>1. \A u \in Threads :
           /\ pc'[u] \in EventWritePlaces <=> pc[u] \in EventWritePlaces
           /\ pc'[u] \in EventReadPlaces <=> pc[u] \in EventReadPlaces
           /\ pc'[u] \in OutputPlaces <=> pc[u] \in OutputPlaces
           /\ pc'[u] \in EventPlaces => pc[u] \in EventPlaces
           /\ pc[u] \in EventPlaces => ev[u] # NULL /\ ev'[u] = ev[u]
    BY DEF OpsTypeOK, EventLocksHeld, EventWritePlaces, EventReadPlaces,
        OutputPlaces, EventPlaces
  <2> QED
    BY <2>1
    DEF OpsTypeOK, EventLocksHeld, EventPlaces
<1>4. CallInv'
  BY DEF OpsTypeOK, CallInv, CreatePlaces, ReservePlaces, ShowPlaces, ListPlaces,
      DecidedPlaces, CountedPlaces, FoundPlaces, EventPlaces, EventWritePlaces,
      EventReadPlaces, ListWritePlaces
<1> QED
  BY <1>1, <1>2, <1>3, <1>4

\* A create that fails leaves the list as it is.
LEMMA CreateNoMemoryCore ==
    ASSUME Core, NEW t \in Threads, CreateNoMemory(t)
    PROVE  Core'
<1> USE ThreadsAssumption
    DEF CreateNoMemory, Go, Answer, state, locks, output, locals, Core,
        LocksHeld
<1>1. list' \in Seq(Event) /\ OpsTypeOK'
  BY DEF OpsTypeOK, Places, ListReadPlaces, ListWritePlaces, EventPlaces,
      EventWritePlaces, EventReadPlaces, OutputPlaces
<1>2. ListLockHeld'
  <2>1. Cardinality(ListReaders') = Cardinality(ListReaders)
    BY ReadersKept
    DEF OpsTypeOK, Places, ListReadPlaces
  <2>2. \A u \in Threads : writer' = u <=> pc'[u] \in ListWritePlaces
    BY DEF OpsTypeOK, ListLockHeld, ListWritePlaces
  <2> QED
    BY <2>1, <2>2, ReadersFinite
    DEF OpsTypeOK, ListLockHeld
<1>3. EventLocksHeld'
  <2>1. \A u \in Threads :
           /\ pc'[u] \in EventWritePlaces <=> pc[u] \in EventWritePlaces
           /\ pc'[u] \in EventReadPlaces <=> pc[u] \in EventReadPlaces
           /\ pc'[u] \in OutputPlaces <=> pc[u] \in OutputPlaces
           /\ pc'[u] \in EventPlaces => pc[u] \in EventPlaces
           /\ pc[u] \in EventPlaces => ev[u] # NULL /\ ev'[u] = ev[u]
    BY DEF OpsTypeOK, EventLocksHeld, EventWritePlaces, EventReadPlaces,
        OutputPlaces, EventPlaces
  <2> QED
    BY <2>1
    DEF OpsTypeOK, EventLocksHeld, EventPlaces
<1>4. CallInv'
  BY DEF OpsTypeOK, CallInv, CreatePlaces, ReservePlaces, ShowPlaces, ListPlaces,
      DecidedPlaces, CountedPlaces, FoundPlaces, EventPlaces, EventWritePlaces,
      EventReadPlaces, ListWritePlaces, NoAnswer, Failed
<1> QED
  BY <1>1, <1>2, <1>3, <1>4

\* The writer leaves.
LEMMA CreateUnlockCore ==
    ASSUME Core, NEW t \in Threads, CreateUnlock(t)
    PROVE  Core'
<1> USE ThreadsAssumption
    DEF CreateUnlock, Go, state, output, locals, Core, LocksHeld
<1>1. list' \in Seq(Event) /\ OpsTypeOK'
  BY DEF OpsTypeOK, Places, ListReadPlaces, ListWritePlaces, EventPlaces,
      EventWritePlaces, EventReadPlaces, OutputPlaces
<1>2. ListLockHeld'
  <2>1. Cardinality(ListReaders') = Cardinality(ListReaders)
    BY ReadersKept
    DEF OpsTypeOK, Places, ListReadPlaces
  <2>2. \A u \in Threads : writer' = u <=> pc'[u] \in ListWritePlaces
    BY DEF OpsTypeOK, ListLockHeld, ListWritePlaces
  <2> QED
    BY <2>1, <2>2, ReadersFinite
    DEF OpsTypeOK, ListLockHeld
<1>3. EventLocksHeld'
  <2>1. \A u \in Threads :
           /\ pc'[u] \in EventWritePlaces <=> pc[u] \in EventWritePlaces
           /\ pc'[u] \in EventReadPlaces <=> pc[u] \in EventReadPlaces
           /\ pc'[u] \in OutputPlaces <=> pc[u] \in OutputPlaces
           /\ pc'[u] \in EventPlaces => pc[u] \in EventPlaces
           /\ pc[u] \in EventPlaces => ev[u] # NULL /\ ev'[u] = ev[u]
    BY DEF OpsTypeOK, EventLocksHeld, EventWritePlaces, EventReadPlaces,
        OutputPlaces, EventPlaces
  <2> QED
    BY <2>1
    DEF OpsTypeOK, EventLocksHeld, EventPlaces
<1>4. CallInv'
  BY DEF OpsTypeOK, CallInv, CreatePlaces, ReservePlaces, ShowPlaces, ListPlaces,
      DecidedPlaces, CountedPlaces, FoundPlaces, EventPlaces, EventWritePlaces,
      EventReadPlaces, ListWritePlaces
<1> QED
  BY <1>1, <1>2, <1>3, <1>4

\* A reservation comes in only when nobody holds the lock of the event.
LEMMA ReserveWrLockCore ==
    ASSUME Core, NEW t \in Threads, ReserveWrLock(t)
    PROVE  Core'
<1> USE ThreadsAssumption
    DEF ReserveWrLock, Go, locks, output, locals, Core, LocksHeld
<1>0. ev[t] \in DOMAIN list
  BY DEF OpsTypeOK, EventLocksHeld, EventPlaces, EventWritePlaces,
         EventReadPlaces
<1>1. list' \in Seq(Event) /\ OpsTypeOK'
  BY <1>0
  DEF OpsTypeOK, Places, ListReadPlaces, ListWritePlaces, EventPlaces,
      EventWritePlaces, EventReadPlaces, OutputPlaces
<1>2. ListLockHeld'
  <2>1. Cardinality(ListReaders') = Cardinality(ListReaders)
    BY <1>0, ReadersKept
    DEF OpsTypeOK, Places, ListReadPlaces
  <2>2. \A u \in Threads : writer' = u <=> pc'[u] \in ListWritePlaces
    BY <1>0
    DEF OpsTypeOK, ListLockHeld, ListWritePlaces
  <2> QED
    BY <1>0, <2>1, <2>2, ReadersFinite
    DEF OpsTypeOK, ListLockHeld
<1>3. EventLocksHeld'
  BY <1>0
  DEF OpsTypeOK, EventLocksHeld, EventWritePlaces, EventReadPlaces,
      OutputPlaces, EventPlaces, NULL
<1>4. CallInv'
  BY <1>0
  DEF OpsTypeOK, CallInv, CreatePlaces, ReservePlaces, ShowPlaces, ListPlaces,
      DecidedPlaces, CountedPlaces, FoundPlaces, EventPlaces, EventWritePlaces,
      EventReadPlaces, ListWritePlaces
<1> QED
  BY <1>1, <1>2, <1>3, <1>4

\* A reservation that has taken its last seat is decided.
LEMMA ReserveDoneCore ==
    ASSUME Core, NEW t \in Threads, ReserveDone(t)
    PROVE  Core'
<1> USE ThreadsAssumption
    DEF ReserveDone, Go, Answer, state, locks, output, locals, Core, LocksHeld
<1>1. list' \in Seq(Event) /\ OpsTypeOK'
  BY DEF OpsTypeOK, Places, ListReadPlaces, ListWritePlaces, EventPlaces,
      EventWritePlaces, EventReadPlaces, OutputPlaces
<1>2. ListLockHeld'
  <2>1. Cardinality(ListReaders') = Cardinality(ListReaders)
    BY ReadersKept
    DEF OpsTypeOK, Places, ListReadPlaces
  <2>2. \A u \in Threads : writer' = u <=> pc'[u] \in ListWritePlaces
    BY DEF OpsTypeOK, ListLockHeld, ListWritePlaces
  <2> QED
    BY <2>1, <2>2, ReadersFinite
    DEF OpsTypeOK, ListLockHeld
<1>3. EventLocksHeld'
  <2>1. \A u \in Threads :
           /\ pc'[u] \in EventWritePlaces <=> pc[u] \in EventWritePlaces
           /\ pc'[u] \in EventReadPlaces <=> pc[u] \in EventReadPlaces
           /\ pc'[u] \in OutputPlaces <=> pc[u] \in OutputPlaces
           /\ pc'[u] \in EventPlaces => pc[u] \in EventPlaces
           /\ pc[u] \in EventPlaces => ev[u] # NULL /\ ev'[u] = ev[u]
    BY DEF OpsTypeOK, EventLocksHeld, EventWritePlaces, EventReadPlaces,
        OutputPlaces, EventPlaces
  <2> QED
    BY <2>1
    DEF OpsTypeOK, EventLocksHeld, EventPlaces
<1>4. CallInv'
  BY DEF OpsTypeOK, CallInv, CreatePlaces, ReservePlaces, ShowPlaces, ListPlaces,
      DecidedPlaces, CountedPlaces, FoundPlaces, EventPlaces, EventWritePlaces,
      EventReadPlaces, ListWritePlaces, NoAnswer, Ok
<1> QED
  BY <1>1, <1>2, <1>3, <1>4

\* The reservation leaves the event.
LEMMA ReserveUnlockCore ==
    ASSUME Core, NEW t \in Threads, ReserveUnlock(t)
    PROVE  Core'
<1> USE ThreadsAssumption
    DEF ReserveUnlock, Go, locks, output, locals, Core, LocksHeld
<1>0. ev[t] \in DOMAIN list
  BY DEF OpsTypeOK, EventLocksHeld, EventPlaces, EventWritePlaces,
         EventReadPlaces
<1>1. list' \in Seq(Event) /\ OpsTypeOK'
  BY <1>0
  DEF OpsTypeOK, Places, ListReadPlaces, ListWritePlaces, EventPlaces,
      EventWritePlaces, EventReadPlaces, OutputPlaces
<1>2. ListLockHeld'
  <2>1. Cardinality(ListReaders') = Cardinality(ListReaders)
    BY <1>0, ReadersKept
    DEF OpsTypeOK, Places, ListReadPlaces
  <2>2. \A u \in Threads : writer' = u <=> pc'[u] \in ListWritePlaces
    BY <1>0
    DEF OpsTypeOK, ListLockHeld, ListWritePlaces
  <2> QED
    BY <1>0, <2>1, <2>2, ReadersFinite
    DEF OpsTypeOK, ListLockHeld
<1>3. EventLocksHeld'
  BY <1>0
  DEF OpsTypeOK, EventLocksHeld, EventWritePlaces, EventReadPlaces,
      OutputPlaces, EventPlaces, NULL
<1>4. CallInv'
  BY <1>0
  DEF OpsTypeOK, CallInv, CreatePlaces, ReservePlaces, ShowPlaces, ListPlaces,
      DecidedPlaces, CountedPlaces, FoundPlaces, EventPlaces, EventWritePlaces,
      EventReadPlaces, ListWritePlaces
<1> QED
  BY <1>1, <1>2, <1>3, <1>4

\* A reader of an event comes in only when nobody writes to it.
LEMMA ShowEventLockCore ==
    ASSUME Core, NEW t \in Threads, ShowEventLock(t)
    PROVE  Core'
<1> USE ThreadsAssumption
    DEF ShowEventLock, Go, locks, output, locals, Core, LocksHeld
<1>0. ev[t] \in DOMAIN list
  BY DEF OpsTypeOK, EventLocksHeld, EventPlaces, EventWritePlaces,
         EventReadPlaces
<1>1. list' \in Seq(Event) /\ OpsTypeOK'
  BY <1>0
  DEF OpsTypeOK, Places, ListReadPlaces, ListWritePlaces, EventPlaces,
      EventWritePlaces, EventReadPlaces, OutputPlaces
<1>2. ListLockHeld'
  <2>1. Cardinality(ListReaders') = Cardinality(ListReaders)
    BY <1>0, ReadersKept
    DEF OpsTypeOK, Places, ListReadPlaces
  <2>2. \A u \in Threads : writer' = u <=> pc'[u] \in ListWritePlaces
    BY <1>0
    DEF OpsTypeOK, ListLockHeld, ListWritePlaces
  <2> QED
    BY <1>0, <2>1, <2>2, ReadersFinite
    DEF OpsTypeOK, ListLockHeld
<1>3. EventLocksHeld'
  BY <1>0, SMTT(20), ZenonT(40)
  DEF OpsTypeOK, EventLocksHeld, EventWritePlaces, EventReadPlaces,
      OutputPlaces, EventPlaces, NULL
<1>4. CallInv'
  BY <1>0
  DEF OpsTypeOK, CallInv, CreatePlaces, ReservePlaces, ShowPlaces, ListPlaces,
      DecidedPlaces, CountedPlaces, FoundPlaces, EventPlaces, EventWritePlaces,
      EventReadPlaces, ListWritePlaces
<1> QED
  BY <1>1, <1>2, <1>3, <1>4

\* One thread at a time has the output.
LEMMA TakeOutputCore ==
    ASSUME Core, NEW t \in Threads, NEW from, NEW to,
           <<from, to>> \in {<<"showOutput", "showSeat">>,
                           <<"listHead", "listId">>},
           TakeOutput(t, from, to)
    PROVE  Core'
<1> USE ThreadsAssumption
    DEF TakeOutput, Go, state, locks, locals, Core, LocksHeld
<1>1. list' \in Seq(Event) /\ OpsTypeOK'
  BY DEF OpsTypeOK, Places, ListReadPlaces, ListWritePlaces, EventPlaces,
      EventWritePlaces, EventReadPlaces, OutputPlaces
<1>2. ListLockHeld'
  <2>1. Cardinality(ListReaders') = Cardinality(ListReaders)
    BY ReadersKept
    DEF OpsTypeOK, Places, ListReadPlaces
  <2>2. \A u \in Threads : writer' = u <=> pc'[u] \in ListWritePlaces
    BY DEF OpsTypeOK, ListLockHeld, ListWritePlaces
  <2> QED
    BY <2>1, <2>2, ReadersFinite
    DEF OpsTypeOK, ListLockHeld
<1>3. EventLocksHeld'
  BY DEF OpsTypeOK, EventLocksHeld, EventWritePlaces, EventReadPlaces,
      OutputPlaces, EventPlaces, NULL
<1>4. CallInv'
  BY DEF OpsTypeOK, CallInv, CreatePlaces, ReservePlaces, ShowPlaces, ListPlaces,
      DecidedPlaces, CountedPlaces, FoundPlaces, EventPlaces, EventWritePlaces,
      EventReadPlaces, ListWritePlaces
<1> QED
  BY <1>1, <1>2, <1>3, <1>4

\* The thread that has it lets go of it at the end.
LEMMA DropOutputCore ==
    ASSUME Core, NEW t \in Threads, NEW from \in {"showDone", "listDone"},
           DropOutput(t, from)
    PROVE  Core'
<1> USE ThreadsAssumption
    DEF DropOutput, Go, state, locks, locals, Core, LocksHeld
<1>1. list' \in Seq(Event) /\ OpsTypeOK'
  BY DEF OpsTypeOK, Places, ListReadPlaces, ListWritePlaces, EventPlaces,
      EventWritePlaces, EventReadPlaces, OutputPlaces
<1>2. ListLockHeld'
  <2>1. Cardinality(ListReaders') = Cardinality(ListReaders)
    BY ReadersKept
    DEF OpsTypeOK, Places, ListReadPlaces
  <2>2. \A u \in Threads : writer' = u <=> pc'[u] \in ListWritePlaces
    BY DEF OpsTypeOK, ListLockHeld, ListWritePlaces
  <2> QED
    BY <2>1, <2>2, ReadersFinite
    DEF OpsTypeOK, ListLockHeld
<1>3. EventLocksHeld'
  BY DEF OpsTypeOK, EventLocksHeld, EventWritePlaces, EventReadPlaces,
      OutputPlaces, EventPlaces, NULL
<1>4. CallInv'
  BY DEF OpsTypeOK, CallInv, CreatePlaces, ReservePlaces, ShowPlaces, ListPlaces,
      DecidedPlaces, CountedPlaces, FoundPlaces, EventPlaces, EventWritePlaces,
      EventReadPlaces, ListWritePlaces
<1> QED
  BY <1>1, <1>2, <1>3, <1>4

\* Printing a seat changes nothing but the output.
LEMMA ShowSeatCore ==
    ASSUME Core, NEW t \in Threads, ShowSeat(t)
    PROVE  Core'
<1> USE ThreadsAssumption
    DEF ShowSeat, PrintItem, Go, state, locks, Core, LocksHeld
<1>0. list[ev[t]].data[i[t] - 1] \in Int
  <2>1. IsEvent(list[ev[t]]) /\ i[t] - 1 \in Nat
    BY SMTT(30) DEF OpsTypeOK, EventLocksHeld, EventPlaces, EventReadPlaces
  <2>2. list[ev[t]].rows * list[ev[t]].cols \in Nat
    BY <2>1, SMTT(20), ZenonT(40) DEF IsEvent
  <2>3. i[t] - 1 \in SeatIndices(list[ev[t]].rows, list[ev[t]].cols)
    BY <2>1, <2>2 DEF SeatIndices, OpsTypeOK
  <2> QED
    BY <2>1, <2>3, EventFields, SMTT(20), ZenonT(40)
<1>b. out' \in Seq(Int)
  <2>1. out \in Seq(Int)
    BY DEF OpsTypeOK
  <2> QED
    BY <1>0, <2>1, AppendProperties
<1>c. /\ pc[t] = "showSeat" /\ pc' = [pc EXCEPT ![t] = "showSeat"]
      /\ i' = [i EXCEPT ![t] = @ + 1]
      /\ UNCHANGED <<state, locks, printer, req, res, ev, rid>>
  OBVIOUS
<1> HIDE DEF ShowSeat
<1>1. list' \in Seq(Event) /\ OpsTypeOK'
  BY <1>b, <1>c
  DEF OpsTypeOK, Places, ListReadPlaces, ListWritePlaces, EventPlaces,
      EventWritePlaces, EventReadPlaces, OutputPlaces
<1>2. ListLockHeld'
  <2>1. Cardinality(ListReaders') = Cardinality(ListReaders)
    BY <1>b, <1>c, ReadersKept
    DEF OpsTypeOK, Places, ListReadPlaces
  <2>2. \A u \in Threads : writer' = u <=> pc'[u] \in ListWritePlaces
    BY <1>b, <1>c
    DEF OpsTypeOK, ListLockHeld, ListWritePlaces
  <2> QED
    BY <1>b, <1>c, <2>1, <2>2, ReadersFinite
    DEF OpsTypeOK, ListLockHeld
<1>3. EventLocksHeld'
  <2>1. \A u \in Threads :
           /\ pc'[u] \in EventWritePlaces <=> pc[u] \in EventWritePlaces
           /\ pc'[u] \in EventReadPlaces <=> pc[u] \in EventReadPlaces
           /\ pc'[u] \in OutputPlaces <=> pc[u] \in OutputPlaces
           /\ pc'[u] \in EventPlaces => pc[u] \in EventPlaces
           /\ pc[u] \in EventPlaces => ev[u] # NULL /\ ev'[u] = ev[u]
    BY <1>b, <1>c
    DEF OpsTypeOK, EventLocksHeld, EventWritePlaces, EventReadPlaces,
        OutputPlaces, EventPlaces
  <2> QED
    BY <1>b, <1>c, <2>1, SMTT(20), ZenonT(40)
    DEF OpsTypeOK, EventLocksHeld, EventPlaces
<1>4. CallInv'
  BY <1>b, <1>c
  DEF OpsTypeOK, CallInv, CreatePlaces, ReservePlaces, ShowPlaces, ListPlaces,
      DecidedPlaces, CountedPlaces, FoundPlaces, EventPlaces, EventWritePlaces,
      EventReadPlaces, ListWritePlaces
<1> QED
  BY <1>1, <1>2, <1>3, <1>4

\* Nor does printing an identifier.
LEMMA ListIdCore ==
    ASSUME Core, NEW t \in Threads, ListId(t)
    PROVE  Core'
<1> USE ThreadsAssumption
    DEF ListId, PrintItem, Go, state, locks, Core, LocksHeld
<1>0. list[i[t]].id \in Int
  BY LenProperties DEF OpsTypeOK, IsEvent
<1>b. out' \in Seq(Int)
  BY <1>0, AppendProperties DEF OpsTypeOK
<1>1. list' \in Seq(Event) /\ OpsTypeOK'
  BY <1>b, SMTT(30)
  DEF OpsTypeOK, Places, ListReadPlaces, ListWritePlaces, EventPlaces,
      EventWritePlaces, EventReadPlaces, OutputPlaces
<1>2. ListLockHeld'
  <2>1. Cardinality(ListReaders') = Cardinality(ListReaders)
    BY <1>b, ReadersKept
    DEF OpsTypeOK, Places, ListReadPlaces
  <2>2. \A u \in Threads : writer' = u <=> pc'[u] \in ListWritePlaces
    BY <1>b
    DEF OpsTypeOK, ListLockHeld, ListWritePlaces
  <2> QED
    BY <1>b, <2>1, <2>2, ReadersFinite
    DEF OpsTypeOK, ListLockHeld
<1>3. EventLocksHeld'
  <2>1. \A u \in Threads :
           /\ pc'[u] \in EventWritePlaces <=> pc[u] \in EventWritePlaces
           /\ pc'[u] \in EventReadPlaces <=> pc[u] \in EventReadPlaces
           /\ pc'[u] \in OutputPlaces <=> pc[u] \in OutputPlaces
           /\ pc'[u] \in EventPlaces => pc[u] \in EventPlaces
           /\ pc[u] \in EventPlaces => ev[u] # NULL /\ ev'[u] = ev[u]
    BY <1>b
    DEF OpsTypeOK, EventLocksHeld, EventWritePlaces, EventReadPlaces,
        OutputPlaces, EventPlaces
  <2> QED
    BY <1>b, <2>1, SMTT(30)
    DEF OpsTypeOK, EventLocksHeld, EventPlaces
<1>4. CallInv'
  BY <1>b
  DEF OpsTypeOK, CallInv, CreatePlaces, ReservePlaces, ShowPlaces, ListPlaces,
      DecidedPlaces, CountedPlaces, FoundPlaces, EventPlaces, EventWritePlaces,
      EventReadPlaces, ListWritePlaces
<1> QED
  BY <1>1, <1>2, <1>3, <1>4

\* That there are no events is printed by whoever finds it.
LEMMA ListEmptyCore ==
    ASSUME Core, NEW t \in Threads, ListEmpty(t)
    PROVE  Core'
<1> USE ThreadsAssumption
    DEF ListEmpty, NoEvents, Answer, Go, state, locks, locals, Core, LocksHeld
<1>1. list' \in Seq(Event) /\ OpsTypeOK'
  BY AppendProperties
  DEF OpsTypeOK, Places, ListReadPlaces, ListWritePlaces, EventPlaces,
      EventWritePlaces, EventReadPlaces, OutputPlaces
<1>2. ListLockHeld'
  <2>1. Cardinality(ListReaders') = Cardinality(ListReaders)
    BY ReadersKept
    DEF OpsTypeOK, Places, ListReadPlaces
  <2>2. \A u \in Threads : writer' = u <=> pc'[u] \in ListWritePlaces
    BY DEF OpsTypeOK, ListLockHeld, ListWritePlaces
  <2> QED
    BY <2>1, <2>2, ReadersFinite
    DEF OpsTypeOK, ListLockHeld
<1>3. EventLocksHeld'
  <2>1. \A u \in Threads :
           /\ pc'[u] \in EventWritePlaces <=> pc[u] \in EventWritePlaces
           /\ pc'[u] \in EventReadPlaces <=> pc[u] \in EventReadPlaces
           /\ pc'[u] \in OutputPlaces <=> pc[u] \in OutputPlaces
           /\ pc'[u] \in EventPlaces => pc[u] \in EventPlaces
           /\ pc[u] \in EventPlaces => ev[u] # NULL /\ ev'[u] = ev[u]
    BY DEF OpsTypeOK, EventLocksHeld, EventWritePlaces, EventReadPlaces,
        OutputPlaces, EventPlaces
  <2> QED
    BY <2>1
    DEF OpsTypeOK, EventLocksHeld, EventPlaces
<1>4. CallInv'
  BY DEF OpsTypeOK, CallInv, CreatePlaces, ReservePlaces, ShowPlaces, ListPlaces,
      DecidedPlaces, CountedPlaces, FoundPlaces, EventPlaces, EventWritePlaces,
      EventReadPlaces, ListWritePlaces, NoAnswer
<1> QED
  BY <1>1, <1>2, <1>3, <1>4

\* A reader leaves; it has the output until it is done.
LEMMA ListRdUnlockCore ==
    ASSUME Core, NEW t \in Threads, ListRdUnlock(t)
    PROVE  Core'
<1> USE ThreadsAssumption
    DEF ListRdUnlock, Answer, Go, state, output, locals, Core, LocksHeld
<1>0. t \in ListReaders
  BY DEF ListReaders, ListReadPlaces
<1>a. readers >= 1
  BY <1>0, ReadersFinite DEF ListLockHeld, OpsTypeOK
<1>1. list' \in Seq(Event) /\ OpsTypeOK'
  BY <1>a
  DEF OpsTypeOK, Places, ListReadPlaces, ListWritePlaces, EventPlaces,
      EventWritePlaces, EventReadPlaces, OutputPlaces
<1>2. ListLockHeld'
  <2>1. Cardinality(ListReaders') = Cardinality(ListReaders) - 1
    BY <1>a, ReaderLeaves
    DEF OpsTypeOK, Places, ListReadPlaces
  <2>2. \A u \in Threads : writer' = u <=> pc'[u] \in ListWritePlaces
    BY <1>a
    DEF OpsTypeOK, ListLockHeld, ListWritePlaces
  <2> QED
    BY <1>a, <2>1, <2>2, ReadersFinite
    DEF OpsTypeOK, ListLockHeld, ListWritePlaces
<1>3. EventLocksHeld'
  <2>1. \A u \in Threads :
           /\ pc'[u] \in EventWritePlaces <=> pc[u] \in EventWritePlaces
           /\ pc'[u] \in EventReadPlaces <=> pc[u] \in EventReadPlaces
           /\ pc'[u] \in OutputPlaces <=> pc[u] \in OutputPlaces
           /\ pc'[u] \in EventPlaces => pc[u] \in EventPlaces
           /\ pc[u] \in EventPlaces => ev[u] # NULL /\ ev'[u] = ev[u]
    BY <1>a
    DEF OpsTypeOK, EventLocksHeld, EventWritePlaces, EventReadPlaces,
        OutputPlaces, EventPlaces
  <2> QED
    BY <1>a, <2>1
    DEF OpsTypeOK, EventLocksHeld, EventPlaces
<1>4. CallInv'
  BY <1>a
  DEF OpsTypeOK, CallInv, CreatePlaces, ReservePlaces, ShowPlaces, ListPlaces,
      DecidedPlaces, CountedPlaces, FoundPlaces, EventPlaces, EventWritePlaces,
      EventReadPlaces, ListWritePlaces, NoAnswer
<1> QED
  BY <1>1, <1>2, <1>3, <1>4

\* The reader of an event leaves it with an answer.
LEMMA ShowEventUnlockCore ==
    ASSUME Core, NEW t \in Threads, ShowEventUnlock(t)
    PROVE  Core'
<1> USE ThreadsAssumption
    DEF ShowEventUnlock, Answer, Go, locks, output, locals, Core, LocksHeld
<1>0. ev[t] \in DOMAIN list
  BY DEF OpsTypeOK, EventLocksHeld, EventPlaces, EventWritePlaces,
         EventReadPlaces
<1>1. list' \in Seq(Event) /\ OpsTypeOK'
  BY <1>0
  DEF OpsTypeOK, Places, ListReadPlaces, ListWritePlaces, EventPlaces,
      EventWritePlaces, EventReadPlaces, OutputPlaces
<1>2. ListLockHeld'
  <2>1. Cardinality(ListReaders') = Cardinality(ListReaders)
    BY <1>0, ReadersKept
    DEF OpsTypeOK, Places, ListReadPlaces
  <2>2. \A u \in Threads : writer' = u <=> pc'[u] \in ListWritePlaces
    BY <1>0
    DEF OpsTypeOK, ListLockHeld, ListWritePlaces
  <2> QED
    BY <1>0, <2>1, <2>2, ReadersFinite
    DEF OpsTypeOK, ListLockHeld
<1>3. EventLocksHeld'
  BY <1>0
  DEF OpsTypeOK, EventLocksHeld, EventWritePlaces, EventReadPlaces,
      OutputPlaces, EventPlaces, NULL
<1>4. CallInv'
  BY <1>0
  DEF OpsTypeOK, CallInv, CreatePlaces, ReservePlaces, ShowPlaces, ListPlaces,
      DecidedPlaces, CountedPlaces, FoundPlaces, EventPlaces, EventWritePlaces,
      EventReadPlaces, ListWritePlaces, NoAnswer
<1> QED
  BY <1>1, <1>2, <1>3, <1>4

\* An operation starts at the place it is named for.
LEMMA BeginCore ==
    ASSUME Core, NEW t \in Threads, NEW r \in Requests, Begin(t, r)
    PROVE  Core'
<1> USE ThreadsAssumption
    DEF Begin, state, locks, output, locals, Core, LocksHeld
<1>0. r # None /\ r.op \in {"create", "reserve", "show", "list"}
  BY RequestsAssumption
  DEF Request, CreateRequest, ReserveRequest, ShowRequest, ListRequest
<1>1. list' \in Seq(Event) /\ OpsTypeOK'
  BY <1>0
  DEF OpsTypeOK, Places, ListReadPlaces, ListWritePlaces, EventPlaces,
      EventWritePlaces, EventReadPlaces, OutputPlaces
<1>2. ListLockHeld'
  <2>1. Cardinality(ListReaders') = Cardinality(ListReaders)
    BY <1>0, ReadersKept
    DEF OpsTypeOK, Places, ListReadPlaces
  <2>2. \A u \in Threads : writer' = u <=> pc'[u] \in ListWritePlaces
    BY <1>0
    DEF OpsTypeOK, ListLockHeld, ListWritePlaces
  <2> QED
    BY <1>0, <2>1, <2>2, ReadersFinite
    DEF OpsTypeOK, ListLockHeld
<1>3. EventLocksHeld'
  <2>1. \A u \in Threads :
           /\ pc'[u] \in EventWritePlaces <=> pc[u] \in EventWritePlaces
           /\ pc'[u] \in EventReadPlaces <=> pc[u] \in EventReadPlaces
           /\ pc'[u] \in OutputPlaces <=> pc[u] \in OutputPlaces
           /\ pc'[u] \in EventPlaces => pc[u] \in EventPlaces
           /\ pc[u] \in EventPlaces => ev[u] # NULL /\ ev'[u] = ev[u]
    BY <1>0
    DEF OpsTypeOK, EventLocksHeld, EventWritePlaces, EventReadPlaces,
        OutputPlaces, EventPlaces
  <2> QED
    BY <1>0, <2>1, SMTT(20), ZenonT(40)
    DEF OpsTypeOK, EventLocksHeld, EventPlaces
<1>4. CallInv'
  BY <1>0
  DEF OpsTypeOK, CallInv, CreatePlaces, ReservePlaces, ShowPlaces, ListPlaces,
      DecidedPlaces, CountedPlaces, FoundPlaces, EventPlaces, EventWritePlaces,
      EventReadPlaces, ListWritePlaces
<1> QED
  BY <1>1, <1>2, <1>3, <1>4

\* A thread that returns has let go of everything.
LEMMA ReturnCore ==
    ASSUME Core, NEW t \in Threads, Return(t)
    PROVE  Core'
<1> USE ThreadsAssumption
    DEF Return, state, locks, output, Core, LocksHeld
<1>1. list' \in Seq(Event) /\ OpsTypeOK'
  BY DEF NULL, OpsTypeOK, Places, ListReadPlaces, ListWritePlaces, EventPlaces,
      EventWritePlaces, EventReadPlaces, OutputPlaces
<1>2. ListLockHeld'
  <2>1. Cardinality(ListReaders') = Cardinality(ListReaders)
    BY ReadersKept
    DEF NULL, OpsTypeOK, Places, ListReadPlaces
  <2>2. \A u \in Threads : writer' = u <=> pc'[u] \in ListWritePlaces
    BY DEF NULL, OpsTypeOK, ListLockHeld, ListWritePlaces
  <2> QED
    BY <2>1, <2>2, ReadersFinite
    DEF OpsTypeOK, ListLockHeld
<1>3. EventLocksHeld'
  <2>1. \A u \in Threads :
           /\ pc'[u] \in EventWritePlaces <=> pc[u] \in EventWritePlaces
           /\ pc'[u] \in EventReadPlaces <=> pc[u] \in EventReadPlaces
           /\ pc'[u] \in OutputPlaces <=> pc[u] \in OutputPlaces
           /\ pc'[u] \in EventPlaces => pc[u] \in EventPlaces
           /\ pc[u] \in EventPlaces => ev[u] # NULL /\ ev'[u] = ev[u]
    BY DEF NULL, OpsTypeOK, EventLocksHeld, EventWritePlaces, EventReadPlaces,
        OutputPlaces, EventPlaces
  <2> QED
    BY <2>1, SMTT(20), ZenonT(40)
    DEF OpsTypeOK, EventLocksHeld, EventPlaces
<1>4. CallInv'
  BY DEF NULL, OpsTypeOK, CallInv, CreatePlaces, ReservePlaces, ShowPlaces,
      ListPlaces, DecidedPlaces, CountedPlaces, FoundPlaces, EventPlaces,
      EventWritePlaces, EventReadPlaces, ListWritePlaces, NoAnswer, NULL
<1> QED
  BY <1>1, <1>2, <1>3, <1>4

------------------------------------------------------------------------------
(***************************************************************************)
(* The steps that change the list.                                         *)
(***************************************************************************)
\* The request of a thread that creates, and of one that reserves.
LEMMA RequestTypes ==
    ASSUME OpsTypeOK, CallInv, NEW t \in Threads
    PROVE  /\ pc[t] \in CreatePlaces => req[t] \in CreateRequest
           /\ pc[t] \in ReservePlaces =>
                 /\ req[t] \in ReserveRequest
                 /\ Len(Seats(t)) \in Nat \ {0}
                 /\ DOMAIN Seats(t) = 1 .. Len(Seats(t))
                 /\ \A k \in 1 .. Len(Seats(t)) : Seats(t)[k] \in Nat \X Nat
<1>1. req[t] # None => req[t] \in Request
  BY RequestsAssumption DEF OpsTypeOK
<1>2. pc[t] # "idle" => req[t] \in Request
  BY <1>1 DEF CallInv
<1>3. pc[t] \in CreatePlaces => req[t] \in CreateRequest
  BY <1>2
  DEF CallInv, CreatePlaces, ListWritePlaces, Request, CreateRequest,
      ReserveRequest, ShowRequest, ListRequest
<1>4. pc[t] \in ReservePlaces => req[t] \in ReserveRequest
  BY <1>2
  DEF CallInv, ReservePlaces, EventWritePlaces, Request, CreateRequest,
      ReserveRequest, ShowRequest, ListRequest
<1>5. ASSUME req[t] \in ReserveRequest
      PROVE  /\ Len(Seats(t)) \in Nat \ {0}
             /\ DOMAIN Seats(t) = 1 .. Len(Seats(t))
             /\ \A k \in 1 .. Len(Seats(t)) : Seats(t)[k] \in Nat \X Nat
  <2>1. Seats(t) \in Seq(Nat \X Nat) /\ Seats(t) # <<>>
    BY <1>5 DEF ReserveRequest, Seats
  <2> QED
    BY <2>1, LenProperties, EmptySeq
<1> QED
  BY <1>3, <1>4, <1>5

\* The new event is of the right type, and what the others found is still the
\* first event with its identifier.
LEMMA CreateAppendCore ==
    ASSUME Core, NEW t \in Threads, CreateAppend(t)
    PROVE  Core'
<1> USE ThreadsAssumption
    DEF CreateAppend, Answer, Go, locks, output, locals, Core, LocksHeld
<1> DEFINE e == NewEvent(req[t])
<1>1. IsEvent(e) /\ e \in Event
  <2>1. req[t] \in CreateRequest
    BY RequestTypes DEF CreatePlaces, ListWritePlaces
  <2> QED
    BY <2>1, NewEventIsEvent, IsEventIsEvent
<1> HIDE DEF e
<1>2. /\ list' = Append(list, e)
      /\ list' \in Seq(Event)
      /\ Len(list) \in Nat
      /\ DOMAIN list = 1 .. Len(list)
      /\ DOMAIN list' = DOMAIN list \cup {Len(list) + 1}
      /\ \A n \in DOMAIN list : list'[n] = list[n]
      /\ list'[Len(list) + 1] = e
  BY <1>1, LenProperties, AppendProperties DEF e
<1>3. /\ eventWriter' \in [DOMAIN list' -> Threads \cup {NoThread}]
      /\ eventWriter'[Len(list) + 1] = NoThread
      /\ \A n \in DOMAIN list : eventWriter'[n] = eventWriter[n]
  <2>1. eventWriter \in [1 .. Len(list) -> Threads \cup {NoThread}]
    BY <1>2 DEF OpsTypeOK
  <2>2. eventWriter' = Append(eventWriter, NoThread) /\ NoThread \in (Threads \cup {NoThread})
    OBVIOUS
  <2> HIDE DEF CreateAppend, Core
  <2> DEFINE S == Threads \cup {NoThread}
             n == Len(list)
  <2>3. n \in Nat /\ eventWriter \in [1 .. n -> S] /\ NoThread \in S
    BY <1>2, <2>1, <2>2
  <2> HIDE DEF S, n
  <2>4. /\ eventWriter' \in [1 .. n + 1 -> S]
        /\ eventWriter'[n + 1] = NoThread
        /\ \A m \in 1 .. n : eventWriter'[m] = eventWriter[m]
    <3>1. Append(eventWriter, NoThread) \in [1 .. n + 1 -> S]
      BY <2>3, FunctionAppended
    <3>2. Append(eventWriter, NoThread)[n + 1] = NoThread
      BY <2>3, FunctionAppended
    <3>3. \A m \in 1 .. n : Append(eventWriter, NoThread)[m] = eventWriter[m]
      BY <2>3, FunctionAppended
    <3> QED
      BY <2>2, <3>1, <3>2, <3>3
  <2> USE DEF S, n
  <2>5. DOMAIN list' = 1 .. Len(list) + 1
    BY <1>2
  <2> QED
    BY <1>2, <2>4, <2>5
<1>4. /\ eventReaders' \in [DOMAIN list' -> SUBSET Threads]
      /\ eventReaders'[Len(list) + 1] = {}
      /\ \A n \in DOMAIN list : eventReaders'[n] = eventReaders[n]
  <2>1. eventReaders \in [1 .. Len(list) -> SUBSET Threads]
    BY <1>2 DEF OpsTypeOK
  <2>2. eventReaders' = Append(eventReaders, {}) /\ {} \in SUBSET Threads
    OBVIOUS
  <2> HIDE DEF CreateAppend, Core
  <2> DEFINE S == SUBSET Threads
             n == Len(list)
  <2>3. n \in Nat /\ eventReaders \in [1 .. n -> S] /\ {} \in S
    BY <1>2, <2>1, <2>2
  <2> HIDE DEF S, n
  <2>4. /\ eventReaders' \in [1 .. n + 1 -> S]
        /\ eventReaders'[n + 1] = {}
        /\ \A m \in 1 .. n : eventReaders'[m] = eventReaders[m]
    <3>1. Append(eventReaders, {}) \in [1 .. n + 1 -> S]
      BY <2>3, FunctionAppended
    <3>2. Append(eventReaders, {})[n + 1] = {}
      BY <2>3, FunctionAppended
    <3>3. \A m \in 1 .. n : Append(eventReaders, {})[m] = eventReaders[m]
      BY <2>3, FunctionAppended
    <3> QED
      BY <2>2, <3>1, <3>2, <3>3
  <2> USE DEF S, n
  <2>5. DOMAIN list' = 1 .. Len(list) + 1
    BY <1>2
  <2> QED
    BY <1>2, <2>4, <2>5
<1>5. OpsTypeOK'
  <2>1. \A n \in DOMAIN list' : IsEvent(list'[n])
    BY <1>1, <1>2 DEF OpsTypeOK
  <2> QED
    BY <1>2, <1>3, <1>4, <2>1
    DEF OpsTypeOK, Places, ListWritePlaces
<1>6. ListLockHeld'
  <2>1. ListReaders' = ListReaders
    BY ReadersKept DEF OpsTypeOK, Places, ListReadPlaces
  <2>2. \A u \in Threads : pc'[u] \in ListWritePlaces
                              <=> pc[u] \in ListWritePlaces
    BY DEF OpsTypeOK, ListWritePlaces
  <2> QED
    BY <2>1, <2>2 DEF ListLockHeld
<1>7. EventLocksHeld'
  <2>1. \A u \in Threads :
           /\ pc'[u] \in EventWritePlaces <=> pc[u] \in EventWritePlaces
           /\ pc'[u] \in EventReadPlaces <=> pc[u] \in EventReadPlaces
           /\ pc'[u] \in OutputPlaces <=> pc[u] \in OutputPlaces
           /\ pc'[u] \in EventPlaces => pc[u] \in EventPlaces
    BY DEF OpsTypeOK, EventWritePlaces, EventReadPlaces, OutputPlaces,
           EventPlaces
  <2>2. \A u \in Threads : ev[u] # Len(list) + 1
    BY <1>2 DEF OpsTypeOK, NULL
  <2> QED
    BY <1>2, <1>3, <1>4, <2>1, <2>2 DEF EventLocksHeld, OpsTypeOK
<1>8. CallInv'
  <2>1. ASSUME NEW u \in Threads, pc'[u] \in FoundPlaces
        PROVE  ev'[u] = GetEvent(list', req'[u].id)
    <3>1. pc[u] = pc'[u] /\ u # t
      BY <2>1
      DEF OpsTypeOK, FoundPlaces, EventPlaces, EventWritePlaces,
          EventReadPlaces
    <3>2. ev[u] = GetEvent(list, req[u].id)
      BY <2>1, <3>1 DEF CallInv
    <3>3. ev[u] # NULL
      <4>1. writer = t
        BY DEF ListLockHeld, ListWritePlaces
      <4>2. u \notin ListReaders
        BY <4>1, ReadersFinite DEF ListLockHeld
      <4> QED
        BY <2>1, <3>1, <4>2
        DEF ListReaders, ListReadPlaces, FoundPlaces, EventLocksHeld
    <3> QED
      BY <1>1, <1>2, <3>2, <3>3, GetEventAppended
  <2>2. \A u \in Threads :
          /\ pc'[u] = "idle" <=> req'[u] = None
          /\ pc'[u] \in CreatePlaces => req'[u].op = "create"
          /\ pc'[u] \in ReservePlaces => req'[u].op = "reserve"
          /\ pc'[u] \in ShowPlaces => req'[u].op = "show"
          /\ pc'[u] \in ListPlaces => req'[u].op = "list"
          /\ res'[u] # NoAnswer <=> pc'[u] \in DecidedPlaces
          /\ pc'[u] \notin CountedPlaces => i'[u] = 1
    BY SMTT(20), ZenonT(40) DEF OpsTypeOK, CallInv, CreatePlaces, ReservePlaces, ShowPlaces,
           ListPlaces, DecidedPlaces, CountedPlaces, ListWritePlaces,
           EventWritePlaces, EventReadPlaces, NoAnswer, Ok
  <2> QED
    BY <2>1, <2>2 DEF CallInv
<1> QED
  BY <1>2, <1>5, <1>6, <1>7, <1>8

\* A step of a reservation that holds the lock of its event.
OwnStep(t) ==
    /\ pc[t] \in EventWritePlaces /\ pc'[t] \in EventWritePlaces
    /\ \A u \in Threads :
          u # t => pc'[u] = pc[u] /\ rid'[u] = rid[u] /\ i'[u] = i[u]
    /\ UNCHANGED <<ev, req, out>>
    /\ list' \in Seq(Event)
    /\ Len(list') = Len(list) /\ DOMAIN list' = DOMAIN list
    /\ \A m \in DOMAIN list : m # ev[t] => list'[m] = list[m]
    /\ IsEvent(list'[ev[t]]) /\ list'[ev[t]].id = list[ev[t]].id

\* An event whose identifier stays changes nothing but itself.
LEMMA EventChanges ==
    ASSUME Core, NEW t \in Threads, OwnStep(t)
    PROVE  /\ ev[t] \in DOMAIN list
           /\ \A m \in DOMAIN list : IsEvent(list'[m])
           /\ \A id : GetEvent(list', id) = GetEvent(list, id)
<1>1. ev[t] \in DOMAIN list
  BY DEF Core, LocksHeld, OpsTypeOK, EventLocksHeld, EventPlaces, OwnStep
<1>2. \A m \in DOMAIN list : IsEvent(list'[m]) /\ list'[m].id = list[m].id
  BY DEF OwnStep, Core, OpsTypeOK
<1>3. DOMAIN list' = DOMAIN list
  BY DEF OwnStep
<1>4. \A id : GetEvent(list', id) = GetEvent(list, id)
  BY <1>2, <1>3, GetEventSameIds
<1> QED
  BY <1>1, <1>2, <1>4

\* A reservation that changes its event keeps the locks as they are.
LEMMA ReserveCore ==
    ASSUME Core, NEW t \in Threads, OwnStep(t),
           <<pc[t], pc'[t]>> \in {<<"reserveNumber", "reserveSeat">>,
                                 <<"reserveSeat", "reserveSeat">>,
                                 <<"reserveSeat", "reserveUnlock">>},
           pc' = [pc EXCEPT ![t] = pc'[t]],
           res' = IF pc'[t] = "reserveUnlock"
                  THEN [res EXCEPT ![t] = Failed] ELSE res,
           rid' \in [Threads -> Nat], i' \in [Threads -> Nat \ {0}],
           UNCHANGED <<eventWriter, eventReaders, locks, printer>>
    PROVE  Core'
<1> USE ThreadsAssumption DEF locks, Core, LocksHeld
<1>1. /\ list' \in Seq(Event)
      /\ DOMAIN list' = DOMAIN list
      /\ \A m \in DOMAIN list : IsEvent(list'[m])
      /\ \A id : GetEvent(list', id) = GetEvent(list, id)
      /\ UNCHANGED <<ev, req, out>>
      /\ \A u \in Threads : u # t => i'[u] = i[u]
  BY EventChanges DEF OwnStep
<1>2. OpsTypeOK'
  BY <1>1, SMTT(20), ZenonT(40)
  DEF OpsTypeOK, Places, EventPlaces, EventWritePlaces
<1>3. ListLockHeld'
  <2>1. ListReaders' = ListReaders
    BY <1>1, ReadersKept DEF OpsTypeOK, Places, ListReadPlaces
  <2>2. \A u \in Threads : pc'[u] \in ListWritePlaces
                              <=> pc[u] \in ListWritePlaces
    BY DEF OpsTypeOK, ListWritePlaces
  <2> QED
    BY <2>1, <2>2 DEF ListLockHeld
<1>4. EventLocksHeld'
  <2>1. \A u \in Threads :
           /\ pc'[u] \in EventWritePlaces <=> pc[u] \in EventWritePlaces
           /\ pc'[u] \in EventReadPlaces <=> pc[u] \in EventReadPlaces
           /\ pc'[u] \in OutputPlaces <=> pc[u] \in OutputPlaces
           /\ pc'[u] \in EventPlaces => pc[u] \in EventPlaces
    BY DEF OpsTypeOK, EventWritePlaces, EventReadPlaces, OutputPlaces,
           EventPlaces
  <2> QED
    BY <1>1, <2>1 DEF EventLocksHeld
<1>5. CallInv'
  <2>1. \A u \in Threads :
          pc'[u] \in FoundPlaces => ev'[u] = GetEvent(list', req'[u].id)
    BY <1>1
    DEF OpsTypeOK, CallInv, FoundPlaces, EventPlaces, EventWritePlaces,
        EventReadPlaces
  <2>2. \A u \in Threads :
          /\ pc'[u] = "idle" <=> req'[u] = None
          /\ pc'[u] \in CreatePlaces => req'[u].op = "create"
          /\ pc'[u] \in ReservePlaces => req'[u].op = "reserve"
          /\ pc'[u] \in ShowPlaces => req'[u].op = "show"
          /\ pc'[u] \in ListPlaces => req'[u].op = "list"
          /\ pc'[u] \notin CountedPlaces => i'[u] = 1
    <3>1. /\ CallInv
          /\ pc[t] \in {"reserveNumber", "reserveSeat"}
          /\ pc'[t] \in {"reserveSeat", "reserveUnlock"}
          /\ req' = req
          /\ \A u \in Threads : u # t => pc'[u] = pc[u] /\ i'[u] = i[u]
      BY <1>1 DEF OpsTypeOK
    <3> HIDE DEF Core
    <3> TAKE u \in Threads
    <3>2. CASE u = t
      BY <3>1, <3>2
      DEF CallInv, CreatePlaces, ReservePlaces, ShowPlaces, ListPlaces,
          CountedPlaces, ListWritePlaces, EventWritePlaces, EventReadPlaces
    <3>3. CASE u # t
      BY <3>1, <3>3 DEF CallInv
    <3> QED
      BY <3>2, <3>3
  <2>3. \A u \in Threads : res'[u] # NoAnswer <=> pc'[u] \in DecidedPlaces
    <3>1. /\ \A u \in Threads : u # t => pc'[u] = pc[u] /\ res'[u] = res[u]
          /\ pc'[t] = "reserveUnlock" => res'[t] = Failed
          /\ pc'[t] = "reserveSeat" => res'[t] = res[t]
          /\ pc[t] \notin DecidedPlaces
          /\ pc'[t] = "reserveUnlock" \/ pc'[t] = "reserveSeat"
      BY <1>1 DEF OpsTypeOK, DecidedPlaces
    <3>2. CallInv /\ Failed # NoAnswer
      BY DEF Failed, NoAnswer
    <3> HIDE DEF Core
    <3> QED
      BY <3>1, <3>2 DEF CallInv, DecidedPlaces
  <2> QED
    BY <2>1, <2>2, <2>3 DEF CallInv
<1> QED
  BY <1>1, <1>2, <1>3, <1>4, <1>5

------------------------------------------------------------------------------
(***************************************************************************)
(* What the reservation under way does to its event.                       *)
(***************************************************************************)
Numbered(e) == SeatNumbers(e) = 1 .. e.reservations

\* Events are equal when their fields and their seats are.
LEMMA SameEvent ==
    ASSUME NEW e, IsEvent(e), NEW f, IsEvent(f),
           e.id = f.id, e.rows = f.rows, e.cols = f.cols,
           e.reservations = f.reservations,
           \A s \in DOMAIN e.data : e.data[s] = f.data[s]
    PROVE  e = f
<1>1. e.data = f.data
  <2> DEFINE S == SeatIndices(e.rows, e.cols)
             d == e.data
             c == f.data
  <2>1. d \in [S -> Nat] /\ c \in [S -> Nat] /\ \A s \in S : d[s] = c[s]
    BY EventFields
  <2> HIDE DEF S, d, c
  <2>2. d = c
    BY <2>1
  <2> QED
    BY <2>2 DEF d, c
<1> QED
  BY <1>1 DEF IsEvent

LEMMA UntakenFields ==
    ASSUME NEW e, IsEvent(e), e.reservations > 0
    PROVE  /\ IsEvent(Untaken(e))
           /\ Untaken(e).id = e.id
           /\ Untaken(e).rows = e.rows /\ Untaken(e).cols = e.cols
           /\ Untaken(e).reservations = e.reservations - 1
           /\ DOMAIN Untaken(e).data = DOMAIN e.data
           /\ \A s \in DOMAIN e.data :
                 Untaken(e).data[s] = IF e.data[s] = e.reservations
                                      THEN 0 ELSE e.data[s]
<1> DEFINE d == [s \in DOMAIN e.data |->
                    IF e.data[s] = e.reservations THEN 0 ELSE e.data[s]]
<1>1. d \in [SeatIndices(e.rows, e.cols) -> Nat]
  BY EventFields
<1>2. e.reservations - 1 \in Nat
  BY EventFields
<1>3. Untaken(e) = [e EXCEPT !.reservations = e.reservations - 1, !.data = d]
  BY DEF Untaken
<1>4. DOMAIN d = DOMAIN e.data
  OBVIOUS
<1>5. \A s \in DOMAIN e.data :
         d[s] = IF e.data[s] = e.reservations THEN 0 ELSE e.data[s]
  OBVIOUS
<1> HIDE DEF d
<1> QED
  BY <1>1, <1>2, <1>3, <1>4, <1>5 DEF IsEvent

\* The next number is on no seat yet.
LEMMA NumberUntaken ==
    ASSUME NEW e, IsEvent(e), Numbered(e)
    PROVE  LET f == [e EXCEPT !.reservations = @ + 1]
           IN  /\ IsEvent(f) /\ f.id = e.id
               /\ f.reservations = e.reservations + 1
               /\ Untaken(f) = e
               /\ \A s \in DOMAIN e.data : f.data[s] # f.reservations
<1> DEFINE f == [e EXCEPT !.reservations = @ + 1]
<1>1. /\ IsEvent(f) /\ f.id = e.id /\ f.rows = e.rows /\ f.cols = e.cols
      /\ f.reservations = e.reservations + 1 /\ f.data = e.data
  BY NumberedIsEvent DEF IsEvent
<1>2. /\ e.reservations \in Nat
      /\ e.data \in [SeatIndices(e.rows, e.cols) -> Nat]
  BY EventFields
<1> HIDE DEF f
<1>3. \A s \in DOMAIN e.data : f.data[s] # f.reservations
  <2> SUFFICES ASSUME NEW s \in DOMAIN e.data, e.data[s] = e.reservations + 1
               PROVE  FALSE
    BY <1>1
  <2>1. e.data[s] \in SeatNumbers(e)
    BY <1>2 DEF SeatNumbers
  <2> QED
    BY <1>2, <2>1 DEF Numbered
<1>4. Untaken(f) = e
  <2>1. /\ IsEvent(Untaken(f))
        /\ Untaken(f).id = e.id
        /\ Untaken(f).rows = e.rows /\ Untaken(f).cols = e.cols
        /\ Untaken(f).reservations = e.reservations
        /\ DOMAIN Untaken(f).data = DOMAIN e.data
        /\ \A s \in DOMAIN e.data : Untaken(f).data[s] = e.data[s]
    BY <1>1, <1>2, <1>3, UntakenFields
  <2> QED
    BY <2>1, SameEvent
<1> QED
  BY <1>1, <1>3, <1>4 DEF f

\* A seat that is taken does not show.
LEMMA AssignUntaken ==
    ASSUME NEW e, IsEvent(e), e.reservations > 0,
           NEW s \in DOMAIN e.data, e.data[s] = 0
    PROVE  LET f == [e EXCEPT !.data[s] = e.reservations]
           IN  /\ IsEvent(f) /\ f.id = e.id
               /\ f.rows = e.rows /\ f.cols = e.cols
               /\ f.reservations = e.reservations
               /\ f.data = [e.data EXCEPT ![s] = e.reservations]
               /\ Untaken(f) = Untaken(e)
<1> DEFINE f == [e EXCEPT !.data[s] = e.reservations]
<1>1. /\ IsEvent(f) /\ f.id = e.id
      /\ f.rows = e.rows /\ f.cols = e.cols
      /\ f.reservations = e.reservations
      /\ f.data = [e.data EXCEPT ![s] = e.reservations]
      /\ e.data \in [SeatIndices(e.rows, e.cols) -> Nat]
  BY AssignedIsEvent, EventFields DEF IsEvent
<1> HIDE DEF f
<1>2. /\ IsEvent(Untaken(f)) /\ IsEvent(Untaken(e))
      /\ Untaken(f).id = Untaken(e).id
      /\ Untaken(f).rows = Untaken(e).rows
      /\ Untaken(f).cols = Untaken(e).cols
      /\ Untaken(f).reservations = Untaken(e).reservations
      /\ DOMAIN Untaken(f).data = DOMAIN Untaken(e).data
  BY <1>1, UntakenFields
<1>3. \A q \in DOMAIN Untaken(f).data :
         Untaken(f).data[q] = Untaken(e).data[q]
  BY <1>1, UntakenFields
<1>4. Untaken(f) = Untaken(e)
  BY <1>2, <1>3, SameEvent
<1> QED
  BY <1>1, <1>4 DEF f

\* Giving the seats and the number back is to undo what does not show.
LEMMA RollbackUntaken ==
    ASSUME NEW e, IsEvent(e), e.reservations > 0, NEW taken,
           \A s \in DOMAIN e.data : e.data[s] = e.reservations <=> s \in taken
    PROVE  LET f == [e EXCEPT !.reservations = @ - 1,
                              !.data = [s \in DOMAIN @ |->
                                  IF s \in taken THEN 0 ELSE @[s]]]
           IN  IsEvent(f) /\ f.id = e.id /\ f = Untaken(e)
<1>1. [s \in DOMAIN e.data |-> IF s \in taken THEN 0 ELSE e.data[s]]
      = [s \in DOMAIN e.data |->
            IF e.data[s] = e.reservations THEN 0 ELSE e.data[s]]
  <2> DEFINE d == e.data
             r == e.reservations
  <2>1. \A s \in DOMAIN d : d[s] = r <=> s \in taken
    OBVIOUS
  <2> HIDE DEF d, r
  <2>2. [s \in DOMAIN d |-> IF s \in taken THEN 0 ELSE d[s]]
        = [s \in DOMAIN d |-> IF d[s] = r THEN 0 ELSE d[s]]
    BY <2>1
  <2> QED
    BY <2>2 DEF d, r
<1> QED
  BY <1>1, UntakenFields DEF Untaken

\* The last number shows once its seats are all taken.
LEMMA DoneNumbered ==
    ASSUME NEW e, IsEvent(e), e.reservations > 0, Numbered(Untaken(e)),
           \E s \in DOMAIN e.data : e.data[s] = e.reservations
    PROVE  Numbered(e)
<1> DEFINE r == e.reservations
           u == Untaken(e)
<1>1. /\ r \in Nat /\ e.data \in [SeatIndices(e.rows, e.cols) -> Nat]
      /\ u.reservations = r - 1
      /\ DOMAIN u.data = DOMAIN e.data
      /\ \A s \in DOMAIN e.data : u.data[s] = IF e.data[s] = r THEN 0
                                                           ELSE e.data[s]
  BY EventFields, UntakenFields
<1> HIDE DEF u, r
<1>2. SeatNumbers(u) = 1 .. r - 1
  BY <1>1 DEF Numbered, u
<1>3. r > 0 /\ r = e.reservations /\ \E s \in DOMAIN e.data : e.data[s] = r
  BY DEF r
<1>4. SeatNumbers(e) = SeatNumbers(u) \cup {r}
  BY <1>1, <1>3 DEF SeatNumbers
<1> QED
  BY <1>1, <1>2, <1>3, <1>4 DEF Numbered

------------------------------------------------------------------------------
(***************************************************************************)
(* What a step leaves alone.                                               *)
(***************************************************************************)
OpsIInv == list \in Seq(Event) /\ OpsInv

\* A reservation under way, as long as nobody else changes its event.
LEMMA TakingKept ==
    ASSUME NEW u, Taking(u),
           ev'[u] = ev[u], list'[ev[u]] = list[ev[u]],
           rid'[u] = rid[u], i'[u] = i[u], req'[u] = req[u]
    PROVE  Taking(u)'
<1>1. /\ list'[ev'[u]] = list[ev[u]]
      /\ rid'[u] = rid[u] /\ i'[u] = i[u] /\ Seats(u)' = Seats(u)
  BY DEF Seats
<1>2. \A k : SeatAt(u, k)' = SeatAt(u, k)
  BY <1>1 DEF SeatAt
<1> QED
  BY <1>1, <1>2 DEF Taking

\* The store, as long as no reservation comes under way or is decided.
LEMMA StoreKept ==
    ASSUME list' = list,
           \A u \in Threads :
              /\ pc'[u] = "reserveSeat" <=> pc[u] = "reserveSeat"
              /\ pc[u] = "reserveSeat" => ev'[u] = ev[u]
    PROVE  Store' = Store
<1>1. \A n : Tentative(n)' = Tentative(n)
  BY DEF Tentative
<1> QED
  BY <1>1 DEF Store

LEMMA NumbersKept ==
    ASSUME StoreNumbered, Store' = Store, DOMAIN list' = DOMAIN list
    PROVE  StoreNumbered'
BY DEF StoreNumbered

\* What has been printed, as long as nobody else prints.
LEMMA PrintingKept ==
    ASSUME PrintingInv, out' = out,
           Len(list') = Len(list),
           \A n \in DOMAIN list : list'[n].id = list[n].id,
           DOMAIN list = 1 .. Len(list), Len(list) \in Nat,
           \A u \in Threads :
              pc'[u] \in {"showSeat", "listId"} =>
                 /\ pc[u] = pc'[u]
                 /\ i'[u] = i[u] /\ i[u] \in Nat \ {0}
                 /\ pc[u] = "showSeat" =>
                       ev'[u] = ev[u] /\ list'[ev[u]] = list[ev[u]]
    PROVE  PrintingInv'
<1>1. ASSUME NEW u \in Threads, pc'[u] = "showSeat"
      PROVE  ShowPrinted(u)'
  <2>1. /\ ShowPrinted(u)
        /\ i'[u] = i[u]
        /\ list'[ev'[u]] = list[ev[u]]
    BY <1>1 DEF PrintingInv
  <2> QED
    BY <2>1 DEF ShowPrinted
<1>2. ASSUME NEW u \in Threads, pc'[u] = "listId"
      PROVE  ListPrinted(u)'
  <2>1. ListPrinted(u) /\ i'[u] = i[u] /\ i[u] \in Nat \ {0}
    BY <1>2 DEF PrintingInv
  <2>2. i[u] - 1 <= Len(list)
    BY <2>1 DEF ListPrinted
  <2>3. \A s \in 1 .. i[u] - 1 : list'[s].id = list[s].id
    <3> SUFFICES ASSUME NEW s \in 1 .. i[u] - 1
                 PROVE  s \in DOMAIN list
      OBVIOUS
    <3> QED
      BY <2>1, <2>2
  <2> QED
    BY <2>1, <2>3 DEF ListPrinted
<1> QED
  BY <1>1, <1>2 DEF PrintingInv

\* A thread that comes to print has printed nothing.
LEMMA NothingPrinted ==
    ASSUME OpsIInv, NEW u \in Threads, i[u] = 1
    PROVE  /\ ev[u] # NULL => ShowPrinted(u)
           /\ ListPrinted(u)
<1>1. Len(out) \in Nat /\ Len(list) \in Nat
  BY LenProperties DEF OpsIInv, OpsInv, OpsTypeOK
<1>2. ListPrinted(u)
  BY <1>1 DEF ListPrinted
<1>3. ASSUME ev[u] # NULL
      PROVE  ShowPrinted(u)
  <2>1. IsEvent(list[ev[u]])
    BY <1>3 DEF OpsIInv, OpsInv, OpsTypeOK
  <2>2. list[ev[u]].rows * list[ev[u]].cols \in Nat
    BY <2>1, EventFields
  <2>3. i[u] - 1 = 0
    OBVIOUS
  <2> QED
    BY <1>1, <2>2, <2>3 DEF ShowPrinted
<1> QED
  BY <1>2, <1>3

\* A step that neither changes the list nor prints, of a thread that is not
\* about to take a seat.
LEMMA PlainInv ==
    ASSUME OpsIInv, Core', NEW t \in Threads, NEW to,
           list' = list, out' = out,
           pc' = [pc EXCEPT ![t] = to], pc[t] # "reserveSeat",
           to # "reserveSeat",
           to \in {"showSeat", "listId"} => pc[t] \notin CountedPlaces
                                             /\ UNCHANGED <<i, ev>>,
           to = "showSeat" => pc[t] \in EventPlaces,
           \A u \in Threads : u # t =>
              /\ ev'[u] = ev[u] /\ rid'[u] = rid[u] /\ i'[u] = i[u]
              /\ req'[u] = req[u]
    PROVE  OpsIInv' /\ Store' = Store
<1> USE DEF OpsIInv, OpsInv
<1>1. pc \in [Threads -> Places]
  BY DEF OpsTypeOK
<1>2. TakingInv'
  <2> SUFFICES ASSUME NEW u \in Threads, pc'[u] = "reserveSeat"
               PROVE  Taking(u)'
    BY DEF TakingInv
  <2>1. u # t /\ pc[u] = "reserveSeat"
    BY <1>1
  <2> QED
    BY <2>1, TakingKept DEF TakingInv
<1>3. Store' = Store
  BY <1>1, StoreKept
<1>4. StoreNumbered'
  BY <1>3, NumbersKept
<1>5. PrintingInv'
  <2>1. ASSUME NEW u \in Threads, u # t
        PROVE  /\ pc'[u] = "showSeat" => ShowPrinted(u)'
               /\ pc'[u] = "listId" => ListPrinted(u)'
    <3>1. /\ pc'[u] = pc[u] /\ i'[u] = i[u] /\ ev'[u] = ev[u]
          /\ list' = list /\ out' = out
      BY <1>1, <2>1
    <3>2. /\ pc[u] = "showSeat" => ShowPrinted(u)
          /\ pc[u] = "listId" => ListPrinted(u)
      BY DEF PrintingInv
    <3> QED
      BY <3>1, <3>2 DEF ShowPrinted, ListPrinted
  <2>2. ASSUME to \in {"showSeat", "listId"}
        PROVE  /\ to = "showSeat" => ShowPrinted(t)'
               /\ to = "listId" => ListPrinted(t)'
    <3>1. i[t] = 1 /\ (to = "showSeat" => ev[t] # NULL)
      BY <2>2 DEF CallInv, LocksHeld, EventLocksHeld
    <3>2. /\ to = "showSeat" => ShowPrinted(t)
          /\ ListPrinted(t)
      BY <3>1, NothingPrinted
    <3>3. i' = i /\ ev' = ev /\ list' = list /\ out' = out
      BY <2>2
    <3> QED
      BY <3>2, <3>3 DEF ShowPrinted, ListPrinted
  <2>3. pc'[t] = to
    BY <1>1
  <2> QED
    BY <2>1, <2>2, <2>3 DEF PrintingInv
<1> QED
  BY <1>2, <1>3, <1>4, <1>5 DEF Core

------------------------------------------------------------------------------
(***************************************************************************)
(* The steps that print.                                                   *)
(***************************************************************************)
\* One more item at the end of the output.
LEMMA PrintedMore ==
    ASSUME NEW o \in Seq(Int), NEW x \in Int, NEW n \in Nat, n <= Len(o)
    PROVE  LET p == Append(o, x)
           IN  /\ Len(p) = Len(o) + 1
               /\ p[Len(p) - (n + 1) + (n + 1)] = x
               /\ \A s \in 1 .. n :
                     p[Len(p) - (n + 1) + s] = o[Len(o) - n + s]
<1> DEFINE p == Append(o, x)
<1>1. /\ Len(o) \in Nat /\ Len(p) = Len(o) + 1 /\ p[Len(o) + 1] = x
      /\ \A s \in 1 .. Len(o) : p[s] = o[s]
  BY AppendProperties, LenProperties
<1> HIDE DEF p
<1>2. Len(p) - (n + 1) + (n + 1) = Len(o) + 1
  BY <1>1
<1>3. ASSUME NEW s \in 1 .. n
      PROVE  p[Len(p) - (n + 1) + s] = o[Len(o) - n + s]
  <2>1. /\ Len(p) - (n + 1) + s = Len(o) - n + s
        /\ Len(o) - n + s \in 1 .. Len(o)
    BY <1>1
  <2> QED
    BY <1>1, <2>1
<1>4. p[Len(p) - (n + 1) + (n + 1)] = x
  BY <1>1, <1>2
<1> QED
  BY <1>1, <1>3, <1>4 DEF p

\* The output is the printer's: nobody else prints.
LEMMA OnePrinter ==
    ASSUME OpsIInv, NEW t \in Threads, NEW u \in Threads,
           pc[t] \in OutputPlaces, pc[u] \in {"showSeat", "listId"}
    PROVE  u = t
BY DEF OpsIInv, OpsInv, LocksHeld, EventLocksHeld, OutputPlaces

LEMMA ShowSeatInv ==
    ASSUME OpsIInv, NEW t \in Threads, ShowSeat(t)
    PROVE  OpsIInv' /\ Store' = Store
<1> USE DEF OpsIInv, OpsInv
<1>1. Core'
  BY ShowSeatCore DEF Core
<1>2. /\ pc[t] = "showSeat" /\ pc' = pc
      /\ \A u \in Threads : u # t => i'[u] = i[u]
      /\ UNCHANGED <<list, req, ev, rid>>
  BY DEF ShowSeat, PrintItem, Go, state, OpsTypeOK
<1>3. Store' = Store
  BY <1>2, StoreKept
<1>4. StoreNumbered'
  BY <1>2, <1>3, NumbersKept
<1>5. TakingInv'
  <2> SUFFICES ASSUME NEW u \in Threads, pc'[u] = "reserveSeat"
               PROVE  Taking(u)'
    BY DEF TakingInv
  <2> QED
    BY <1>2, TakingKept DEF TakingInv
<1>6. ShowPrinted(t)'
  <2> DEFINE n == i[t] - 1
             x == list[ev[t]].data[n]
             size == list[ev[t]].rows * list[ev[t]].cols
  <2>1. IsEvent(list[ev[t]])
    BY <1>2 DEF OpsTypeOK, LocksHeld, EventLocksHeld, EventPlaces,
                EventReadPlaces
  <2>2. size \in Nat /\ n \in Nat /\ n + 1 <= size /\ out \in Seq(Int)
    BY <2>1, EventFields, SMTT(30) DEF OpsTypeOK, ShowSeat
  <2>3. x \in Int
    <3>1. n \in SeatIndices(list[ev[t]].rows, list[ev[t]].cols)
      BY <2>2 DEF SeatIndices
    <3> QED
      BY <2>1, <3>1, EventFields
  <2>4. /\ n <= Len(out)
        /\ \A s \in 1 .. n : out[Len(out) - n + s] = list[ev[t]].data[s - 1]
    BY <1>2 DEF PrintingInv, ShowPrinted
  <2>5. out' = Append(out, x) /\ i'[t] - 1 = n + 1
    BY DEF ShowSeat, PrintItem, OpsTypeOK
  <2>6. list'[ev'[t]] = list[ev[t]]
    BY <1>2
  <2> HIDE DEF n, x, size
  <2>7. /\ Len(out') = Len(out) + 1
        /\ out'[Len(out') - (n + 1) + (n + 1)] = x
        /\ \A s \in 1 .. n :
              out'[Len(out') - (n + 1) + s] = out[Len(out) - n + s]
    BY <2>2, <2>3, <2>4, <2>5, PrintedMore
  <2>8. n + 1 <= Len(out')
    BY <2>2, <2>4, <2>7, LenProperties
  <2>9. ASSUME NEW s \in 1 .. n + 1
        PROVE  out'[Len(out') - (n + 1) + s] = list[ev[t]].data[s - 1]
    <3>1. CASE s = n + 1
      <4>1. s - 1 = n
        BY <2>2, <3>1
      <4> QED
        BY <2>7, <3>1, <4>1 DEF x
    <3>2. CASE s \in 1 .. n
      BY <2>4, <2>7, <3>2
    <3> QED
      BY <2>2, <3>1, <3>2
  <2> QED
    BY <2>2, <2>5, <2>6, <2>8, <2>9 DEF ShowPrinted, size
<1>7. PrintingInv'
  <2>1. \A u \in Threads : pc'[u] \in {"showSeat", "listId"} => u = t
    BY <1>2, OnePrinter DEF OutputPlaces
  <2> QED
    BY <1>2, <1>6, <2>1 DEF PrintingInv
<1> QED
  BY <1>1, <1>3, <1>4, <1>5, <1>7 DEF Core

LEMMA ListIdInv ==
    ASSUME OpsIInv, NEW t \in Threads, ListId(t)
    PROVE  OpsIInv' /\ Store' = Store
<1> USE DEF OpsIInv, OpsInv
<1>1. Core'
  BY ListIdCore DEF Core
<1>2. /\ pc[t] = "listId" /\ pc' = pc
      /\ \A u \in Threads : u # t => i'[u] = i[u]
      /\ UNCHANGED <<list, req, ev, rid>>
  BY DEF ListId, PrintItem, Go, state, OpsTypeOK
<1>3. Store' = Store
  BY <1>2, StoreKept
<1>4. StoreNumbered'
  BY <1>2, <1>3, NumbersKept
<1>5. TakingInv'
  <2> SUFFICES ASSUME NEW u \in Threads, pc'[u] = "reserveSeat"
               PROVE  Taking(u)'
    BY DEF TakingInv
  <2> QED
    BY <1>2, TakingKept DEF TakingInv
<1>6. ListPrinted(t)'
  <2> DEFINE n == i[t] - 1
             x == list[n + 1].id
  <2>1. /\ n \in Nat /\ n + 1 = i[t] /\ n + 1 <= Len(list)
        /\ out \in Seq(Int) /\ Len(list) \in Nat
    BY LenProperties DEF OpsTypeOK, ListId
  <2>2. x \in Int
    <3>1. n + 1 \in DOMAIN list
      BY <2>1, LenProperties
    <3> QED
      BY <3>1, EventFields DEF OpsTypeOK
  <2>4. /\ n <= Len(out)
        /\ \A s \in 1 .. n : out[Len(out) - n + s] = list[s].id
    BY <1>2 DEF PrintingInv, ListPrinted
  <2>5. out' = Append(out, x) /\ i'[t] - 1 = n + 1
    BY <2>1 DEF ListId, PrintItem, OpsTypeOK
  <2> HIDE DEF n, x
  <2>7. /\ Len(out') = Len(out) + 1
        /\ out'[Len(out') - (n + 1) + (n + 1)] = x
        /\ \A s \in 1 .. n :
              out'[Len(out') - (n + 1) + s] = out[Len(out) - n + s]
    BY <2>1, <2>2, <2>4, <2>5, PrintedMore
  <2>8. n + 1 <= Len(out')
    BY <2>1, <2>4, <2>7, LenProperties
  <2>9. ASSUME NEW s \in 1 .. n + 1
        PROVE  out'[Len(out') - (n + 1) + s] = list[s].id
    <3>1. CASE s = n + 1
      BY <2>7, <3>1 DEF x
    <3>2. CASE s \in 1 .. n
      BY <2>4, <2>7, <3>2
    <3> QED
      BY <2>1, <3>1, <3>2
  <2> QED
    BY <1>2, <2>1, <2>5, <2>8, <2>9 DEF ListPrinted
<1>7. PrintingInv'
  <2>1. \A u \in Threads : pc'[u] \in {"showSeat", "listId"} => u = t
    BY <1>2, OnePrinter DEF OutputPlaces
  <2> QED
    BY <1>2, <1>6, <2>1 DEF PrintingInv
<1> QED
  BY <1>1, <1>3, <1>4, <1>5, <1>7 DEF Core

\* Whoever is printing events or seats has not begun when there are none.
LEMMA ListEmptyInv ==
    ASSUME OpsIInv, NEW t \in Threads, ListEmpty(t)
    PROVE  OpsIInv' /\ Store' = Store
<1> USE DEF OpsIInv, OpsInv
<1>1. Core'
  BY ListEmptyCore DEF Core
<1>2. /\ pc[t] = "listHead" /\ pc' = [pc EXCEPT ![t] = "listUnlock"]
      /\ list = <<>>
      /\ UNCHANGED <<list, req, ev, rid, i>>
  BY DEF ListEmpty, Go, state, locals
<1>3. pc \in [Threads -> Places] /\ i \in [Threads -> Nat \ {0}]
  BY DEF OpsTypeOK
<1>4. Store' = Store
  BY <1>2, <1>3, StoreKept
<1>5. StoreNumbered'
  BY <1>2, <1>4, NumbersKept
<1>6. TakingInv'
  <2> SUFFICES ASSUME NEW u \in Threads, pc'[u] = "reserveSeat"
               PROVE  Taking(u)'
    BY DEF TakingInv
  <2>1. pc[u] = "reserveSeat"
    BY <1>2, <1>3
  <2> QED
    BY <1>2, <2>1, TakingKept DEF TakingInv
<1>7. PrintingInv'
  <2>1. Len(out') \in Nat
    BY <1>1, LenProperties DEF Core, OpsTypeOK
  <2>2. ASSUME NEW u \in Threads, pc'[u] = "showSeat"
        PROVE  FALSE
    <3>1. ev[u] \in DOMAIN list
      BY <1>2, <1>3, <2>2
      DEF OpsTypeOK, LocksHeld, EventLocksHeld, EventPlaces, EventReadPlaces
    <3> QED
      BY <1>2, <3>1
  <2>3. ASSUME NEW u \in Threads, pc'[u] = "listId"
        PROVE  ListPrinted(u)'
    <3>1. ListPrinted(u)
      BY <1>2, <1>3, <2>3 DEF PrintingInv
    <3>2. i'[u] = 1 /\ Len(list) = 0
      BY <1>2, <1>3, <3>1 DEF ListPrinted
    <3> QED
      BY <1>2, <2>1, <3>2 DEF ListPrinted
  <2> QED
    BY <2>2, <2>3 DEF PrintingInv
<1> QED
  BY <1>1, <1>4, <1>5, <1>6, <1>7 DEF Core

------------------------------------------------------------------------------
(***************************************************************************)
(* The steps that change the list.                                         *)
(***************************************************************************)
\* The new event shows in the store, with no reservation; nobody is printing the
\* list, which is locked.
LEMMA CreateAppendInv ==
    ASSUME OpsIInv, NEW t \in Threads, CreateAppend(t)
    PROVE  OpsIInv' /\ Store' = Append(Store, NewEvent(req[t]))
<1> USE DEF OpsIInv, OpsInv
<1> DEFINE e == NewEvent(req[t])
<1>1. Core'
  BY CreateAppendCore DEF Core
<1>2. /\ pc[t] = "createAppend" /\ pc' = [pc EXCEPT ![t] = "createUnlock"]
      /\ list' = Append(list, e)
      /\ UNCHANGED <<req, ev, rid, i, out>>
  BY DEF CreateAppend, Go, locals, output
<1>3. pc \in [Threads -> Places]
  BY DEF OpsTypeOK
<1>4. e \in Event /\ IsEvent(e) /\ SeatNumbers(e) = {} /\ e.reservations = 0
  <2>1. req[t] \in CreateRequest
    BY <1>2, RequestTypes DEF CreatePlaces, ListWritePlaces, Core
  <2>2. IsEvent(e) /\ e \in Event
    BY <2>1, NewEventIsEvent, IsEventIsEvent
  <2>3. /\ e.reservations = 0
        /\ e.data = [s \in SeatIndices(req[t].rows, req[t].cols) |-> 0]
    BY DEF NewEvent
  <2> QED
    BY <2>2, <2>3 DEF SeatNumbers
<1> HIDE DEF e
<1>5. /\ Len(list) \in Nat /\ DOMAIN list = 1 .. Len(list)
      /\ Len(list') = Len(list) + 1 /\ DOMAIN list' = 1 .. Len(list) + 1
      /\ \A n \in DOMAIN list : list'[n] = list[n]
      /\ list'[Len(list) + 1] = e
  BY <1>2, <1>4, LenProperties, AppendProperties
<1>6. \A u \in Threads :
         /\ pc'[u] = "reserveSeat" <=> pc[u] = "reserveSeat"
         /\ pc[u] = "reserveSeat" => ev[u] \in DOMAIN list
         /\ pc'[u] = "showSeat" => pc[u] = "showSeat" /\ ev[u] \in DOMAIN list
         /\ pc'[u] # "listId"
  <2>1. writer = t
    BY <1>2 DEF LocksHeld, ListLockHeld, ListWritePlaces
  <2>2. \A u \in Threads : u \notin ListReaders
    BY <2>1, ReadersFinite, ThreadsAssumption DEF LocksHeld, ListLockHeld
  <2> QED
    BY <1>2, <1>3, <2>2
    DEF ListReaders, ListReadPlaces, OpsTypeOK, LocksHeld, EventLocksHeld,
        EventPlaces, EventWritePlaces, EventReadPlaces
<1>7. TakingInv'
  <2> SUFFICES ASSUME NEW u \in Threads, pc'[u] = "reserveSeat"
               PROVE  Taking(u)'
    BY DEF TakingInv
  <2>1. list'[ev[u]] = list[ev[u]]
    BY <1>5, <1>6
  <2> QED
    BY <1>2, <1>6, <2>1, TakingKept DEF TakingInv
<1>8. /\ \A n \in DOMAIN list : Store'[n] = Store[n]
      /\ Store'[Len(list) + 1] = e
  <2>1. \A n \in DOMAIN list : Tentative(n)' = Tentative(n)
    BY <1>2, <1>6 DEF Tentative
  <2>2. \A n : n = Len(list) + 1 => Tentative(n)' = {}
    BY <1>2, <1>5, <1>6 DEF Tentative
  <2>3. ASSUME NEW n \in DOMAIN list
        PROVE  Store'[n] = Store[n]
    <3>1. list'[n] = list[n] /\ n \in 1 .. Len(list')
      BY <1>5
    <3> QED
      BY <1>5, <2>1, <3>1 DEF Store
  <2>4. Store'[Len(list) + 1] = e
    <3>1. Len(list) + 1 \in 1 .. Len(list')
      BY <1>5
    <3> QED
      BY <1>5, <2>2, <3>1 DEF Store
  <2> QED
    BY <2>3, <2>4
<1>9. Store' = Append(Store, e)
  <2>1. /\ DOMAIN Store = 1 .. Len(list) /\ DOMAIN Store' = 1 .. Len(list) + 1
    BY <1>5 DEF Store
  <2>2. Store' = [n \in 1 .. Len(list) + 1 |-> Store'[n]]
    BY <1>5 DEF Store
  <2>3. Store = [n \in 1 .. Len(list) |-> Store[n]]
    BY DEF Store
  <2> DEFINE S == {Store'[n] : n \in 1 .. Len(list) + 1}
             m == Len(list)
             a == Append(Store, e)
  <2>4. Store \in [1 .. m -> S] /\ e \in S /\ m \in Nat
    BY <1>5, <1>8, <2>3
  <2> HIDE DEF S, m, a
  <2>5. a \in [1 .. m + 1 -> S]
    BY <2>4, FunctionAppended DEF a
  <2>6. a[m + 1] = e
    BY <2>4, FunctionAppended DEF a
  <2>7. \A n \in 1 .. m : a[n] = Store[n]
    BY <2>4, FunctionAppended DEF a
  <2>8. \A n \in 1 .. m + 1 : a[n] = Store'[n]
    BY <1>5, <1>8, <2>4, <2>6, <2>7 DEF m
  <2>9. a = [n \in 1 .. m + 1 |-> Store'[n]]
    BY <2>5, <2>8
  <2> QED
    BY <2>2, <2>9 DEF m, a
<1>10. StoreNumbered'
  <2> SUFFICES ASSUME NEW n \in DOMAIN list'
               PROVE  SeatNumbers(Store'[n]) = 1 .. Store'[n].reservations
    BY DEF StoreNumbered
  <2>1. CASE n \in DOMAIN list
    BY <1>8, <2>1 DEF StoreNumbered
  <2>2. CASE n = Len(list) + 1
    <3>1. Store'[n] = e
      BY <1>8, <2>2
    <3>2. SeatNumbers(e) = 1 .. e.reservations
      BY <1>4
    <3> QED
      BY <3>1, <3>2
  <2> QED
    BY <1>5, <2>1, <2>2
<1>11. PrintingInv'
  <2>1. ASSUME NEW u \in Threads, pc'[u] = "showSeat"
        PROVE  ShowPrinted(u)'
    <3>1. ShowPrinted(u) /\ list'[ev'[u]] = list[ev[u]] /\ i' = i /\ out' = out
      BY <1>2, <1>5, <1>6, <2>1 DEF PrintingInv
    <3> QED
      BY <3>1 DEF ShowPrinted
  <2> QED
    BY <1>6, <2>1 DEF PrintingInv
<1> QED
  BY <1>1, <1>7, <1>9, <1>10, <1>11 DEF Core, e

\* The reservations under way in an event are the one that has its lock.
LEMMA TentativeIs ==
    ASSUME LocksHeld, NEW t \in Threads, pc[t] \in EventWritePlaces,
           ev[t] \in DOMAIN list
    PROVE  Tentative(ev[t]) = IF pc[t] = "reserveSeat" THEN {t} ELSE {}
BY DEF LocksHeld, EventLocksHeld, EventWritePlaces, Tentative

\* A reservation changes its own event, and nobody else is at work on it.
LEMMA OwnEvent ==
    ASSUME OpsIInv, NEW t \in Threads, pc[t] \in EventWritePlaces
    PROVE  /\ ev[t] \in DOMAIN list
           /\ DOMAIN list = 1 .. Len(list) /\ Len(list) \in Nat
           /\ IsEvent(list[ev[t]])
           /\ \A u \in Threads :
                 u # t /\ pc[u] \in {"reserveSeat", "showSeat"} =>
                     ev[u] # ev[t]
<1> USE DEF OpsIInv, OpsInv
<1>1. ev[t] \in DOMAIN list /\ IsEvent(list[ev[t]])
  BY DEF OpsTypeOK, LocksHeld, EventLocksHeld, EventPlaces
<1>2. ASSUME NEW u \in Threads, u # t, ev[u] = ev[t],
             pc[u] \in {"reserveSeat", "showSeat"}
      PROVE  FALSE
  <2>1. eventWriter[ev[t]] = t /\ eventReaders[ev[t]] = {}
    BY <1>1, ThreadsAssumption DEF LocksHeld, EventLocksHeld
  <2>2. CASE pc[u] = "reserveSeat"
    BY <1>1, <1>2, <2>1, <2>2
    DEF LocksHeld, EventLocksHeld, EventWritePlaces
  <2>3. CASE pc[u] = "showSeat"
    BY <1>1, <1>2, <2>1, <2>3
    DEF LocksHeld, EventLocksHeld, EventReadPlaces
  <2> QED
    BY <1>2, <2>2, <2>3
<1> QED
  BY <1>1, <1>2, LenProperties

\* What the store shows of its event.
Shown(t) == IF pc[t] = "reserveSeat" THEN Untaken(list[ev[t]]) ELSE list[ev[t]]

LEMMA OwnShown ==
    ASSUME OpsIInv, NEW t \in Threads, pc[t] \in EventWritePlaces
    PROVE  Store[ev[t]] = Shown(t) /\ Numbered(Shown(t))
<1>1. ev[t] \in DOMAIN list /\ DOMAIN list = 1 .. Len(list)
  BY OwnEvent
<1>2. Tentative(ev[t]) = IF pc[t] = "reserveSeat" THEN {t} ELSE {}
  BY <1>1, TentativeIs DEF OpsIInv, OpsInv
<1>3. Store[ev[t]] = Shown(t)
  BY <1>1, <1>2 DEF Store, Shown
<1>4. Numbered(Store[ev[t]])
  BY <1>1 DEF StoreNumbered, Numbered, OpsIInv, OpsInv
<1> QED
  BY <1>3, <1>4

\* So the store changes at that event at most.
LEMMA StoreChanges ==
    ASSUME OpsIInv, NEW t \in Threads, OwnStep(t)
    PROVE  /\ DOMAIN Store = DOMAIN list /\ DOMAIN Store' = DOMAIN list
           /\ \A m \in DOMAIN list : m # ev[t] => Store'[m] = Store[m]
           /\ Store'[ev[t]] = Shown(t)'
<1> USE DEF OwnStep
<1>1. ev[t] \in DOMAIN list /\ DOMAIN list = 1 .. Len(list)
  BY OwnEvent
<1>2. Tentative(ev[t])' = IF pc'[t] = "reserveSeat" THEN {t} ELSE {}
  <2>1. \A u \in Threads : u # t => ~(pc[u] = "reserveSeat" /\ ev[u] = ev[t])
    BY OwnEvent
  <2> QED
    BY <2>1 DEF Tentative
<1>3. \A m : m # ev[t] => Tentative(m)' = Tentative(m)
  BY DEF Tentative
<1>4. \A m \in DOMAIN list : m # ev[t] => Store'[m] = Store[m]
  BY <1>1, <1>3 DEF Store
<1>5. Store'[ev[t]] = Shown(t)'
  BY <1>1, <1>2 DEF Store, Shown
<1>6. DOMAIN Store = DOMAIN list /\ DOMAIN Store' = DOMAIN list
  BY <1>1 DEF Store
<1> QED
  BY <1>4, <1>5, <1>6

\* When the event shows as before, so does the store.
LEMMA StoreSame ==
    ASSUME OpsIInv, NEW t \in Threads, OwnStep(t), Shown(t)' = Shown(t)
    PROVE  Store' = Store
<1>1. /\ DOMAIN Store = DOMAIN list /\ DOMAIN Store' = DOMAIN list
      /\ \A m \in DOMAIN list : m # ev[t] => Store'[m] = Store[m]
      /\ Store'[ev[t]] = Shown(t)'
  BY StoreChanges
<1>2. Store[ev[t]] = Shown(t)
  BY OwnShown DEF OwnStep
<1>3. /\ Store = [m \in DOMAIN Store |-> Store[m]]
      /\ Store' = [m \in DOMAIN Store' |-> Store'[m]]
  BY DEF Store
<1> QED
  BY <1>1, <1>2, <1>3

\* What is left to show of a step of a reservation.
LEMMA ReserveInv ==
    ASSUME OpsIInv, Core', NEW t \in Threads, OwnStep(t),
           pc'[t] = "reserveSeat" => Taking(t)',
           Numbered(Shown(t)')
    PROVE  OpsIInv'
<1> USE DEF OpsIInv, OpsInv, OwnStep
<1>1. /\ ev[t] \in DOMAIN list
      /\ DOMAIN list = 1 .. Len(list) /\ Len(list) \in Nat
      /\ \A u \in Threads :
            u # t /\ pc[u] \in {"reserveSeat", "showSeat"} => ev[u] # ev[t]
  BY OwnEvent
<1>3. pc \in [Threads -> Places] /\ i \in [Threads -> Nat \ {0}]
  BY DEF OpsTypeOK
<1>4. \A u \in Threads :
         u # t /\ pc[u] \in {"reserveSeat", "showSeat"} =>
             ev[u] \in DOMAIN list /\ list'[ev[u]] = list[ev[u]]
  BY <1>1
  DEF OpsTypeOK, LocksHeld, EventLocksHeld, EventPlaces, EventWritePlaces,
      EventReadPlaces
<1>5. TakingInv'
  <2> SUFFICES ASSUME NEW u \in Threads, pc'[u] = "reserveSeat"
               PROVE  Taking(u)'
    BY DEF TakingInv
  <2>1. CASE u = t
    BY <1>3, <2>1
  <2>2. CASE u # t
    <3>1. pc[u] = "reserveSeat" /\ list'[ev[u]] = list[ev[u]]
      BY <1>3, <1>4, <2>2
    <3> QED
      BY <2>2, <3>1, TakingKept DEF TakingInv
  <2> QED
    BY <2>1, <2>2
<1>a. /\ \A m \in DOMAIN list : m # ev[t] => Store'[m] = Store[m]
      /\ Store'[ev[t]] = Shown(t)'
  BY StoreChanges
<1>6. StoreNumbered'
  <2> SUFFICES ASSUME NEW n \in DOMAIN list
               PROVE  Numbered(Store'[n])
    BY DEF StoreNumbered, Numbered
  <2>1. CASE n = ev[t]
    BY <1>a, <2>1
  <2>2. CASE n # ev[t]
    <3>1. Store'[n] = Store[n]
      BY <1>a, <2>2
    <3> QED
      BY <3>1 DEF StoreNumbered, Numbered
  <2> QED
    BY <2>1, <2>2
<1>7. PrintingInv'
  <2>1. \A n \in DOMAIN list : list'[n].id = list[n].id
    BY <1>1
  <2>2. \A u \in Threads :
          pc'[u] \in {"showSeat", "listId"} =>
             /\ pc[u] = pc'[u]
             /\ i'[u] = i[u] /\ i[u] \in Nat \ {0}
             /\ pc[u] = "showSeat" =>
                   ev'[u] = ev[u] /\ list'[ev[u]] = list[ev[u]]
    <3> SUFFICES ASSUME NEW u \in Threads, pc'[u] \in {"showSeat", "listId"}
                 PROVE  /\ pc[u] = pc'[u]
                        /\ i'[u] = i[u] /\ i[u] \in Nat \ {0}
                        /\ pc[u] = "showSeat" =>
                              ev'[u] = ev[u] /\ list'[ev[u]] = list[ev[u]]
      OBVIOUS
    <3>1. u # t
      BY <1>3 DEF EventWritePlaces
    <3> QED
      BY <1>3, <1>4, <3>1
  <2> QED
    BY <1>1, <2>1, <2>2, PrintingKept
<1> QED
  BY <1>5, <1>6, <1>7 DEF Core

\* A reservation that has its number has taken no seat.
LEMMA ReserveNumberInv ==
    ASSUME OpsIInv, NEW t \in Threads, ReserveNumber(t)
    PROVE  OpsIInv' /\ Store' = Store
<1> DEFINE n == ev[t]
           e == [list[n] EXCEPT !.reservations = @ + 1]
<1>1. /\ pc[t] = "reserveNumber" /\ pc[t] \in EventWritePlaces
      /\ pc' = [pc EXCEPT ![t] = "reserveSeat"]
      /\ list' = [list EXCEPT ![n] = e]
      /\ rid' = [rid EXCEPT ![t] = list[n].reservations + 1]
      /\ UNCHANGED <<eventWriter, eventReaders, locks, output, req, res, ev, i>>
  BY DEF ReserveNumber, Go, EventWritePlaces
<1>2. n \in DOMAIN list /\ DOMAIN list = 1 .. Len(list) /\ IsEvent(list[n])
  BY <1>1, OwnEvent
<1>3. Shown(t) = list[n] /\ Numbered(list[n])
  BY <1>1, OwnShown DEF Shown
<1>4. /\ IsEvent(e) /\ e.id = list[n].id
      /\ e.reservations = list[n].reservations + 1
      /\ Untaken(e) = list[n]
      /\ \A s \in DOMAIN list[n].data : e.data[s] # e.reservations
  BY <1>2, <1>3, NumberUntaken
<1>5. DOMAIN e.data = DOMAIN list[n].data
  BY <1>2 DEF IsEvent
<1>6. list[n].reservations \in Nat
  BY <1>2, EventFields
<1> HIDE DEF e, n
<1>7. /\ rid \in [Threads -> Nat] /\ i \in [Threads -> Nat \ {0}]
      /\ i[t] = 1
  BY <1>1 DEF OpsIInv, OpsInv, OpsTypeOK, CallInv, CountedPlaces
<1>p. pc \in [Threads -> Places] /\ pc'[t] = "reserveSeat"
  BY <1>1 DEF OpsIInv, OpsInv, OpsTypeOK
<1>q. /\ list' \in Seq(Event)
      /\ Len(list') = Len(list) /\ DOMAIN list' = DOMAIN list
      /\ \A m \in DOMAIN list : m # n => list'[m] = list[m]
      /\ list'[n] = e
  <2>1. e \in Event /\ n \in 1 .. Len(list) /\ list \in Seq(Event)
    BY <1>2, <1>4, IsEventIsEvent DEF OpsIInv
  <2> QED
    BY <1>1, <1>2, <2>1, ExceptSeq, LenProperties
<1>r. OwnStep(t)
  BY <1>1, <1>4, <1>7, <1>p, <1>q DEF OwnStep, n, output, EventWritePlaces
<1>8. Core'
  <2>1. Core
    BY DEF OpsIInv, OpsInv, Core
  <2>2. rid' \in [Threads -> Nat] /\ i' \in [Threads -> Nat \ {0}]
    BY <1>1, <1>6, <1>7
  <2>3. /\ <<pc[t], pc'[t]>> \in {<<"reserveNumber", "reserveSeat">>,
                                 <<"reserveSeat", "reserveSeat">>,
                                 <<"reserveSeat", "reserveUnlock">>}
        /\ pc' = [pc EXCEPT ![t] = pc'[t]]
        /\ res' = IF pc'[t] = "reserveUnlock"
                  THEN [res EXCEPT ![t] = Failed] ELSE res
        /\ UNCHANGED <<eventWriter, eventReaders, locks, printer>>
    BY <1>1, <1>p DEF output
  <2> QED
    BY <1>r, <2>1, <2>2, <2>3, ReserveCore
<1>9. Taking(t)'
  <2>1. list'[ev'[t]] = e
    BY <1>1, <1>2 DEF n
  <2>2. rid'[t] = e.reservations /\ rid'[t] > 0
    BY <1>1, <1>4, <1>6, <1>7
  <2>3. i'[t] = 1 /\ Len(Seats(t)') \in Nat
    <3>1. Len(Seats(t)) \in Nat
      BY <1>1, RequestTypes DEF ReservePlaces, OpsIInv, OpsInv
    <3>2. Seats(t)' = Seats(t)
      BY <1>1 DEF Seats
    <3> QED
      BY <1>1, <1>7, <3>1, <3>2
  <2>4. 1 .. i'[t] - 1 = {} /\ i'[t] <= Len(Seats(t)') + 1
    BY <2>3
  <2>5. \A s \in DOMAIN e.data : e.data[s] # rid'[t]
    BY <1>4, <1>5, <2>2
  <2> QED
    BY <2>1, <2>2, <2>4, <2>5 DEF Taking
<1>11. Shown(t)' = Shown(t)
  BY <1>1, <1>3, <1>4, <1>p, <1>q DEF Shown, n
<1>12. OpsIInv'
  BY <1>3, <1>8, <1>9, <1>r, <1>11, ReserveInv
<1>13. Store' = Store
  BY <1>r, <1>11, StoreSame
<1> QED
  BY <1>12, <1>13


\* A reservation at the loop over its seats.
LEMMA TakingFacts ==
    ASSUME OpsIInv, NEW t \in Threads, pc[t] = "reserveSeat"
    PROVE  /\ ev[t] \in DOMAIN list /\ IsEvent(list[ev[t]])
           /\ Taking(t)
           /\ rid[t] = list[ev[t]].reservations /\ rid[t] \in Nat \ {0}
           /\ i[t] \in Nat \ {0} /\ i[t] <= Len(Seats(t)) + 1
           /\ Len(Seats(t)) \in Nat \ {0}
           /\ DOMAIN Seats(t) = 1 .. Len(Seats(t))
           /\ \A k \in 1 .. i[t] - 1 : SeatAt(t, k) \in DOMAIN list[ev[t]].data
<1>1. ev[t] \in DOMAIN list /\ IsEvent(list[ev[t]])
  BY OwnEvent DEF EventWritePlaces
<1>2. Taking(t)
  BY DEF OpsIInv, OpsInv, TakingInv
<1>3. rid[t] \in Nat /\ i[t] \in Nat \ {0}
  BY DEF OpsIInv, OpsInv, OpsTypeOK
<1>4. /\ rid[t] = list[ev[t]].reservations /\ rid[t] > 0
      /\ i[t] <= Len(Seats(t)) + 1
  BY <1>2 DEF Taking
<1>5. /\ Len(Seats(t)) \in Nat \ {0}
      /\ DOMAIN Seats(t) = 1 .. Len(Seats(t))
  BY RequestTypes DEF ReservePlaces, EventWritePlaces, OpsIInv, OpsInv
<1>6. ASSUME NEW k \in 1 .. i[t] - 1
      PROVE  SeatAt(t, k) \in DOMAIN list[ev[t]].data
  <2> DEFINE e == list[ev[t]]
  <2>1. Seats(t)[k][1] \in 1 .. e.rows /\ Seats(t)[k][2] \in 1 .. e.cols
    BY <1>2 DEF Taking
  <2>2. /\ e.rows \in Nat /\ e.cols \in Nat
        /\ DOMAIN e.data = SeatIndices(e.rows, e.cols)
    BY <1>1, EventFields
  <2> HIDE DEF e
  <2>3. SeatIndex(e, Seats(t)[k][1], Seats(t)[k][2]) \in DOMAIN e.data
    BY <2>1, <2>2, SeatIndexInRange
  <2> QED
    BY <2>3 DEF SeatAt, e
<1> QED
  BY <1>1, <1>2, <1>3, <1>4, <1>5, <1>6

\* The seat it is about to take.
LEMMA NextSeat ==
    ASSUME OpsIInv, NEW t \in Threads, pc[t] = "reserveSeat",
           i[t] <= Len(Seats(t)), SeatFree(t)
    PROVE  /\ Seats(t)[i[t]][1] \in 1 .. list[ev[t]].rows
           /\ Seats(t)[i[t]][2] \in 1 .. list[ev[t]].cols
           /\ SeatAt(t, i[t]) \in DOMAIN list[ev[t]].data
           /\ list[ev[t]].data[SeatAt(t, i[t])] = 0
<1> DEFINE e == list[ev[t]]
           q == Seats(t)[i[t]]
<1>1. /\ InBounds(e, <<q>>) /\ e.data[SeatAt(t, i[t])] = 0
      /\ SeatAt(t, i[t]) = SeatIndex(e, q[1], q[2])
  BY DEF SeatFree, SeatAt
<1>2. /\ e.rows \in Nat /\ e.cols \in Nat
      /\ DOMAIN e.data = SeatIndices(e.rows, e.cols)
  BY TakingFacts, EventFields
<1> HIDE DEF e, q
<1>3. q[1] \in 1 .. e.rows /\ q[2] \in 1 .. e.cols
  BY <1>1 DEF InBounds
<1>4. SeatIndex(e, q[1], q[2]) \in DOMAIN e.data
  BY <1>2, <1>3, SeatIndexInRange
<1> QED
  BY <1>1, <1>3, <1>4 DEF e, q

\* A seat that is taken does not show yet, and it is one more of those that
\* carry the number.
LEMMA ReserveSeatInv ==
    ASSUME OpsIInv, NEW t \in Threads, ReserveSeat(t)
    PROVE  OpsIInv' /\ Store' = Store
<1> DEFINE n == ev[t]
           e == list[n]
           s0 == SeatAt(t, i[t])
           f == [e EXCEPT !.data[s0] = e.reservations]
<1>1. /\ pc[t] = "reserveSeat" /\ pc' = pc
      /\ pc[t] \in EventWritePlaces
      /\ i[t] <= Len(Seats(t)) /\ SeatFree(t)
      /\ list' = [list EXCEPT ![n].data[s0] = rid[t]]
      /\ i' = [i EXCEPT ![t] = i[t] + 1]
      /\ UNCHANGED <<eventWriter, eventReaders, locks, output, req, res, ev, rid>>
  BY DEF ReserveSeat, Go, EventWritePlaces, OpsIInv, OpsInv, OpsTypeOK
<1>2. /\ n \in DOMAIN list /\ IsEvent(e)
      /\ Taking(t)
      /\ rid[t] = e.reservations /\ rid[t] \in Nat \ {0}
      /\ i[t] \in Nat \ {0}
      /\ Len(Seats(t)) \in Nat \ {0}
      /\ \A k \in 1 .. i[t] - 1 : SeatAt(t, k) \in DOMAIN e.data
  BY <1>1, TakingFacts
<1>3. /\ Seats(t)[i[t]][1] \in 1 .. e.rows
      /\ Seats(t)[i[t]][2] \in 1 .. e.cols
      /\ s0 \in DOMAIN e.data /\ e.data[s0] = 0
  BY <1>1, NextSeat
<1>4. list' = [list EXCEPT ![n] = f]
  BY <1>1, <1>2
<1>5. DOMAIN list = 1 .. Len(list) /\ Len(list) \in Nat
  BY LenProperties DEF OpsIInv
<1> HIDE DEF e, n, s0, f
<1>6. /\ IsEvent(f) /\ f.id = e.id
      /\ f.rows = e.rows /\ f.cols = e.cols
      /\ f.reservations = e.reservations
      /\ f.data = [e.data EXCEPT ![s0] = e.reservations]
      /\ Untaken(f) = Untaken(e)
  <2>1. e.reservations > 0
    BY <1>2
  <2> QED
    BY <1>2, <1>3, <2>1, AssignUntaken DEF f
<1>7. /\ list' \in Seq(Event)
      /\ Len(list') = Len(list) /\ DOMAIN list' = DOMAIN list
      /\ \A m \in DOMAIN list : m # n => list'[m] = list[m]
      /\ list'[n] = f
  <2>1. f \in Event /\ n \in 1 .. Len(list) /\ list \in Seq(Event)
    BY <1>2, <1>5, <1>6, IsEventIsEvent DEF OpsIInv
  <2> QED
    BY <1>2, <1>4, <2>1, ExceptSeq, LenProperties
<1>8. rid \in [Threads -> Nat] /\ i \in [Threads -> Nat \ {0}]
  BY DEF OpsIInv, OpsInv, OpsTypeOK
<1>9. OwnStep(t)
  BY <1>1, <1>6, <1>7, <1>8 DEF OwnStep, n, e, output
<1>10. Core'
  <2>1. Core
    BY DEF OpsIInv, OpsInv, Core
  <2>2. rid' \in [Threads -> Nat] /\ i' \in [Threads -> Nat \ {0}]
    BY <1>1, <1>2, <1>8
  <2>3. /\ <<pc[t], pc'[t]>> \in {<<"reserveNumber", "reserveSeat">>,
                                 <<"reserveSeat", "reserveSeat">>,
                                 <<"reserveSeat", "reserveUnlock">>}
        /\ pc' = [pc EXCEPT ![t] = pc'[t]]
        /\ res' = IF pc'[t] = "reserveUnlock"
                  THEN [res EXCEPT ![t] = Failed] ELSE res
        /\ UNCHANGED <<eventWriter, eventReaders, locks, printer>>
    BY <1>1 DEF output, OpsIInv, OpsInv, OpsTypeOK
  <2> QED
    BY <1>9, <2>1, <2>2, <2>3, ReserveCore
<1>11. \A k : SeatAt(t, k)' = SeatAt(t, k)
  BY <1>1, <1>6, <1>7 DEF SeatAt, SeatIndex, Seats, n, e
<1>12. /\ list'[ev'[t]] = f /\ rid'[t] = rid[t] /\ i'[t] = i[t] + 1
       /\ Seats(t)' = Seats(t)
  BY <1>1, <1>7, <1>8 DEF Seats, n
<1>13. 1 .. i'[t] - 1 = (1 .. i[t] - 1) \cup {i[t]}
  BY <1>2, <1>12
<1>14. Taking(t)'
  <2>1. /\ \A k \in 1 .. i[t] - 1 : /\ Seats(t)[k][1] \in 1 .. e.rows
                                   /\ Seats(t)[k][2] \in 1 .. e.cols
        /\ \A s \in DOMAIN e.data :
              e.data[s] = rid[t]
                  <=> \E k \in 1 .. i[t] - 1 : s = SeatAt(t, k)
        /\ \A j, k \in 1 .. i[t] - 1 : SeatAt(t, j) = SeatAt(t, k) => j = k
    BY <1>2 DEF Taking, e, n
  <2>2. i'[t] <= Len(Seats(t)) + 1 /\ rid'[t] = f.reservations /\ rid'[t] > 0
    BY <1>1, <1>2, <1>6, <1>12
  <2>3. \A k \in 1 .. i'[t] - 1 : /\ Seats(t)[k][1] \in 1 .. f.rows
                                 /\ Seats(t)[k][2] \in 1 .. f.cols
    BY <1>3, <1>6, <1>13, <2>1
  <2>4. ASSUME NEW s \in DOMAIN f.data
        PROVE  f.data[s] = rid[t]
                   <=> \E k \in 1 .. i'[t] - 1 : s = SeatAt(t, k)
    <3>1. CASE s = s0
      <4>1. f.data[s] = rid[t]
        BY <1>2, <1>3, <1>6, <3>1
      <4>2. i[t] \in 1 .. i'[t] - 1 /\ s = SeatAt(t, i[t])
        BY <1>13, <3>1 DEF s0
      <4> QED
        BY <4>1, <4>2
    <3>2. CASE s # s0
      <4>1. s \in DOMAIN e.data /\ f.data[s] = e.data[s]
        BY <1>6, <3>2
      <4>2. s # SeatAt(t, i[t])
        BY <3>2 DEF s0
      <4> QED
        BY <1>13, <2>1, <4>1, <4>2
    <3> QED
      BY <3>1, <3>2
  <2>5. ASSUME NEW j \in 1 .. i[t] - 1
        PROVE  SeatAt(t, j) # SeatAt(t, i[t])
    <3>1. e.data[SeatAt(t, j)] = rid[t]
      BY <1>2, <2>1
    <3>2. e.data[SeatAt(t, i[t])] = 0
      BY <1>3 DEF s0
    <3> QED
      BY <1>2, <3>1, <3>2
  <2>6. ASSUME NEW j \in 1 .. i'[t] - 1, NEW k \in 1 .. i'[t] - 1,
               SeatAt(t, j) = SeatAt(t, k)
        PROVE  j = k
    <3>1. CASE j = i[t] \/ k = i[t]
      BY <1>13, <2>5, <2>6, <3>1
    <3>2. CASE j # i[t] /\ k # i[t]
      BY <1>13, <2>1, <2>6, <3>2
    <3> QED
      BY <3>1, <3>2
  <2> QED
    BY <1>11, <1>12, <2>2, <2>3, <2>4, <2>6 DEF Taking
<1>15. Shown(t)' = Shown(t) /\ Numbered(Shown(t))
  <2>1. Numbered(Shown(t))
    BY <1>1, OwnShown
  <2>2. Shown(t) = Untaken(e)
    BY <1>1 DEF Shown, e, n
  <2>3. Shown(t)' = Untaken(f)
    BY <1>1, <1>12 DEF Shown
  <2> QED
    BY <1>6, <2>1, <2>2, <2>3
<1>16. OpsIInv'
  BY <1>9, <1>10, <1>14, <1>15, ReserveInv
<1>17. Store' = Store
  BY <1>9, <1>15, StoreSame
<1> QED
  BY <1>16, <1>17

\* A reservation that fails gives back exactly what did not show.
LEMMA ReserveRollbackInv ==
    ASSUME OpsIInv, NEW t \in Threads, ReserveRollback(t)
    PROVE  OpsIInv' /\ Store' = Store
<1> DEFINE n == ev[t]
           e == list[n]
           taken == {SeatAt(t, k) : k \in 1 .. i[t] - 1}
           f == [e EXCEPT !.reservations = @ - 1,
                          !.data = [s \in DOMAIN @ |->
                              IF s \in taken THEN 0 ELSE @[s]]]
<1>1. /\ pc[t] = "reserveSeat" /\ pc' = [pc EXCEPT ![t] = "reserveUnlock"]
      /\ pc[t] \in EventWritePlaces
      /\ res' = [res EXCEPT ![t] = Failed]
      /\ UNCHANGED <<eventWriter, eventReaders, locks, output, req, ev, rid, i>>
  BY DEF ReserveRollback, Go, Answer, locals, EventWritePlaces
<1>2. /\ n \in DOMAIN list /\ IsEvent(e)
      /\ Taking(t)
      /\ rid[t] = e.reservations /\ e.reservations > 0
  BY <1>1, TakingFacts
<1>3. list' = [list EXCEPT ![n] = f]
  BY <1>2 DEF ReserveRollback
<1>4. \A s \in DOMAIN e.data : e.data[s] = e.reservations <=> s \in taken
  BY <1>2 DEF Taking
<1>5. DOMAIN list = 1 .. Len(list) /\ Len(list) \in Nat
  BY LenProperties DEF OpsIInv
<1> HIDE DEF e, n, taken
<1>6. IsEvent(f) /\ f.id = e.id /\ f = Untaken(e)
  BY <1>2, <1>4, RollbackUntaken
<1> HIDE DEF f
<1>7. /\ list' \in Seq(Event)
      /\ Len(list') = Len(list) /\ DOMAIN list' = DOMAIN list
      /\ \A m \in DOMAIN list : m # n => list'[m] = list[m]
      /\ list'[n] = f
  <2>1. f \in Event /\ n \in 1 .. Len(list) /\ list \in Seq(Event)
    BY <1>2, <1>5, <1>6, IsEventIsEvent DEF OpsIInv
  <2> QED
    BY <1>2, <1>3, <2>1, ExceptSeq, LenProperties
<1>8. /\ rid \in [Threads -> Nat] /\ i \in [Threads -> Nat \ {0}]
      /\ pc \in [Threads -> Places]
  BY DEF OpsIInv, OpsInv, OpsTypeOK
<1>9. pc'[t] = "reserveUnlock"
  BY <1>1, <1>8
<1>10. OwnStep(t)
  BY <1>1, <1>6, <1>7, <1>8, <1>9 DEF OwnStep, n, e, output, EventWritePlaces
<1>11. Core'
  <2>1. Core
    BY DEF OpsIInv, OpsInv, Core
  <2>2. rid' \in [Threads -> Nat] /\ i' \in [Threads -> Nat \ {0}]
    BY <1>1, <1>8
  <2>3. /\ <<pc[t], pc'[t]>> \in {<<"reserveNumber", "reserveSeat">>,
                                 <<"reserveSeat", "reserveSeat">>,
                                 <<"reserveSeat", "reserveUnlock">>}
        /\ pc' = [pc EXCEPT ![t] = pc'[t]]
        /\ res' = IF pc'[t] = "reserveUnlock"
                  THEN [res EXCEPT ![t] = Failed] ELSE res
        /\ UNCHANGED <<eventWriter, eventReaders, locks, printer>>
    BY <1>1, <1>9 DEF output
  <2> QED
    BY <1>10, <2>1, <2>2, <2>3, ReserveCore
<1>12. Shown(t)' = Shown(t) /\ Numbered(Shown(t))
  <2>1. Numbered(Shown(t))
    BY <1>1, OwnShown
  <2>2. Shown(t) = Untaken(e)
    BY <1>1 DEF Shown, e, n
  <2>3. Shown(t)' = f
    BY <1>1, <1>7, <1>9 DEF Shown, n
  <2> QED
    BY <1>6, <2>1, <2>2, <2>3
<1>13. OpsIInv'
  BY <1>9, <1>10, <1>11, <1>12, ReserveInv
<1>14. Store' = Store
  BY <1>10, <1>12, StoreSame
<1> QED
  BY <1>13, <1>14

\* The last seat taken makes the reservation show.
LEMMA ReserveDoneInv ==
    ASSUME OpsIInv, NEW t \in Threads, ReserveDone(t)
    PROVE  OpsIInv' /\ Store' = [Store EXCEPT ![ev[t]] = list[ev[t]]]
<1> DEFINE n == ev[t]
           e == list[n]
<1>1. /\ pc[t] = "reserveSeat" /\ pc' = [pc EXCEPT ![t] = "reserveUnlock"]
      /\ pc[t] \in EventWritePlaces
      /\ i[t] > Len(Seats(t))
      /\ UNCHANGED <<list, output, req, ev, rid, i>>
  BY DEF ReserveDone, Go, state, locals, EventWritePlaces
<1>2. /\ n \in DOMAIN list /\ IsEvent(e)
      /\ Taking(t)
      /\ rid[t] = e.reservations /\ e.reservations > 0
      /\ i[t] \in Nat \ {0} /\ Len(Seats(t)) \in Nat \ {0}
      /\ \A k \in 1 .. i[t] - 1 : SeatAt(t, k) \in DOMAIN e.data
  BY <1>1, TakingFacts
<1>3. \E s \in DOMAIN e.data : e.data[s] = e.reservations
  <2>1. 1 \in 1 .. i[t] - 1
    BY <1>1, <1>2
  <2>2. SeatAt(t, 1) \in DOMAIN e.data
    BY <1>2, <2>1
  <2>3. e.data[SeatAt(t, 1)] = rid[t]
    BY <1>2, <2>1, <2>2 DEF Taking
  <2> QED
    BY <1>2, <2>2, <2>3
<1>4. pc \in [Threads -> Places] /\ list \in Seq(Event)
  BY DEF OpsIInv, OpsInv, OpsTypeOK
<1> HIDE DEF e, n
<1>5. pc'[t] = "reserveUnlock"
  BY <1>1, <1>4
<1>6. OwnStep(t)
  BY <1>1, <1>2, <1>4, <1>5 DEF OwnStep, output, EventWritePlaces, n, e
<1>7. Core'
  BY ReserveDoneCore DEF OpsIInv, OpsInv, Core
<1>8. Shown(t)' = e
  BY <1>1, <1>5 DEF Shown, n, e
<1>9. Numbered(e)
  <2>1. Numbered(Untaken(e))
    BY <1>1, OwnShown DEF Shown, n, e
  <2> QED
    BY <1>2, <1>3, <2>1, DoneNumbered
<1>10. OpsIInv'
  BY <1>5, <1>6, <1>7, <1>8, <1>9, ReserveInv
<1>11. Store' = [Store EXCEPT ![n] = e]
  <2>1. /\ DOMAIN Store = DOMAIN list /\ DOMAIN Store' = DOMAIN list
        /\ \A m \in DOMAIN list : m # n => Store'[m] = Store[m]
        /\ Store'[n] = e
    BY <1>6, <1>8, StoreChanges DEF n
  <2>2. /\ Store = [m \in DOMAIN Store |-> Store[m]]
        /\ Store' = [m \in DOMAIN Store' |-> Store'[m]]
    BY DEF Store
  <2> HIDE DEF Store
  <2> QED
    BY <2>1, <2>2
<1> QED
  BY <1>10, <1>11 DEF n, e

------------------------------------------------------------------------------
(***************************************************************************)
(* Every step preserves the invariant, and all but two leave the store as  *)
(* it is.                                                                  *)
(***************************************************************************)
Kept == OpsIInv' /\ Store' = Store

\* A step of an operation that moves one thread and changes no event.
LEMMA GoInv ==
    ASSUME OpsIInv, Core', NEW t \in Threads, NEW from, NEW to,
           Go(t, from, to), from # "reserveSeat", to # "reserveSeat",
           to \in {"showSeat", "listId"} =>
               <<from, to>> \in {<<"showOutput", "showSeat">>,
                               <<"listHead", "listId">>} /\ ev' = ev,
           UNCHANGED <<list, out, rid, i>>,
           \A u \in Threads : u # t => ev'[u] = ev[u]
    PROVE  Kept
<1>1. pc[t] = from /\ pc' = [pc EXCEPT ![t] = to] /\ req' = req
  BY DEF Go
<1>2. to \in {"showSeat", "listId"} =>
          pc[t] \notin CountedPlaces /\ UNCHANGED <<i, ev>>
  BY <1>1 DEF CountedPlaces
<1>3. to = "showSeat" => pc[t] \in EventPlaces
  BY <1>1 DEF EventPlaces, EventReadPlaces
<1> QED
  BY <1>1, <1>2, <1>3, PlainInv DEF Kept

LEMMA RdLockInv ==
    ASSUME OpsIInv, NEW t \in Threads, NEW from, NEW to,
           <<from, to>> \in RdLockMoves, RdLock(t, from, to)
    PROVE  Kept
<1>1. Core'
  BY RdLockCore DEF OpsIInv, OpsInv, Core
<1> QED
  BY <1>1, GoInv DEF RdLock, RdLockMoves, state, output, locals

LEMMA RdUnlockInv ==
    ASSUME OpsIInv, NEW t \in Threads, NEW from, NEW to,
           <<from, to>> \in RdUnlockMoves, RdUnlock(t, from, to),
           to \in EventPlaces => ev[t] # NULL
    PROVE  Kept
<1>1. Core'
  BY RdUnlockCore DEF OpsIInv, OpsInv, Core
<1> QED
  BY <1>1, GoInv DEF RdUnlock, RdUnlockMoves, state, output, locals

LEMMA LookupInv ==
    ASSUME OpsIInv, NEW t \in Threads, NEW from, NEW to,
           <<from, to>> \in {<<"reserveLookup", "reserveRdUnlock">>,
                           <<"showLookup", "showRdUnlock">>},
           Lookup(t, from, to)
    PROVE  Kept
<1>1. Core'
  BY LookupCore DEF OpsIInv, OpsInv, Core
<1>2. \A u \in Threads : u # t => ev'[u] = ev[u]
  BY DEF Lookup, OpsIInv, OpsInv, OpsTypeOK
<1> QED
  BY <1>1, <1>2, GoInv DEF Lookup, state, output

LEMMA NotFoundInv ==
    ASSUME OpsIInv, NEW t \in Threads,
           NEW from \in {"reserveRdUnlock", "showRdUnlock"}, NotFound(t, from)
    PROVE  Kept
<1>1. Core'
  BY NotFoundCore DEF OpsIInv, OpsInv, Core
<1> QED
  BY <1>1, GoInv DEF NotFound, state, output, locals

LEMMA TakeOutputInv ==
    ASSUME OpsIInv, NEW t \in Threads, NEW from, NEW to,
           <<from, to>> \in {<<"showOutput", "showSeat">>,
                           <<"listHead", "listId">>},
           TakeOutput(t, from, to)
    PROVE  Kept
<1>1. Core'
  BY TakeOutputCore DEF OpsIInv, OpsInv, Core
<1> QED
  BY <1>1, GoInv DEF TakeOutput, state, locals

LEMMA DropOutputInv ==
    ASSUME OpsIInv, NEW t \in Threads, NEW from \in {"showDone", "listDone"},
           DropOutput(t, from)
    PROVE  Kept
<1>1. Core'
  BY DropOutputCore DEF OpsIInv, OpsInv, Core
<1> QED
  BY <1>1, GoInv DEF DropOutput, state, locals

LEMMA BeginInv ==
    ASSUME OpsIInv, NEW t \in Threads, NEW r \in Requests, Begin(t, r)
    PROVE  Kept
<1>1. Core'
  BY BeginCore DEF OpsIInv, OpsInv, Core
<1>2. r.op \in {"create", "reserve", "show", "list"}
  <2>1. r \in Request
    BY RequestsAssumption
  <2> QED
    BY <2>1 DEF Request, CreateRequest, ReserveRequest, ShowRequest, ListRequest
<1>3. /\ pc[t] = "idle" /\ pc' = [pc EXCEPT ![t] = r.op]
      /\ UNCHANGED <<list, out, ev, rid, i>>
      /\ \A u \in Threads : u # t => req'[u] = req[u]
  BY DEF Begin, state, output, locals, OpsIInv, OpsInv, OpsTypeOK
<1> QED
  BY <1>1, <1>2, <1>3, PlainInv DEF Kept

LEMMA ReturnInv ==
    ASSUME OpsIInv, NEW t \in Threads, Return(t)
    PROVE  Kept
<1>1. Core'
  BY ReturnCore DEF OpsIInv, OpsInv, Core
<1>2. /\ pc[t] = "return" /\ pc' = [pc EXCEPT ![t] = "idle"]
      /\ UNCHANGED <<list, out>>
      /\ \A u \in Threads : u # t =>
            /\ ev'[u] = ev[u] /\ rid'[u] = rid[u] /\ i'[u] = i[u]
            /\ req'[u] = req[u]
  BY DEF Return, state, output, OpsIInv, OpsInv, OpsTypeOK
<1> QED
  BY <1>1, <1>2, PlainInv DEF Kept

LEMMA CreateStepInv ==
    ASSUME OpsIInv, NEW t \in Threads, CreateStep(t)
    PROVE  /\ OpsIInv'
           /\ CreateAppend(t) \/ Store' = Store
<1>1. CASE CreateRdLock(t)
  BY <1>1, RdLockInv DEF CreateRdLock, RdLockMoves, Kept
<1>2. CASE CreateLookup(t)
  <2>1. Core'
    BY <1>2, CreateLookupCore DEF OpsIInv, OpsInv, Core
  <2>2. PICK to \in {"return", "createRdUnlock"} : Go(t, "createLookup", to)
    BY <1>2 DEF CreateLookup
  <2>3. UNCHANGED <<list, out, rid, i, ev>>
    BY <1>2 DEF CreateLookup, state, output, locals
  <2> QED
    BY <2>1, <2>2, <2>3, GoInv DEF Kept
<1>3. CASE CreateRdUnlock(t)
  BY <1>3, RdUnlockInv
  DEF CreateRdUnlock, RdUnlockMoves, Kept, EventPlaces, EventWritePlaces,
      EventReadPlaces
<1>4. CASE CreateWrLock(t)
  <2>1. Core'
    BY <1>4, CreateWrLockCore DEF OpsIInv, OpsInv, Core
  <2> QED
    BY <1>4, <2>1, GoInv DEF CreateWrLock, Kept, state, output, locals
<1>5. CASE CreateNoMemory(t)
  <2>1. Core'
    BY <1>5, CreateNoMemoryCore DEF OpsIInv, OpsInv, Core
  <2> QED
    BY <1>5, <2>1, GoInv DEF CreateNoMemory, Kept, state, output, locals
<1>6. CASE CreateAppend(t)
  BY <1>6, CreateAppendInv
<1>7. CASE CreateUnlock(t)
  <2>1. Core'
    BY <1>7, CreateUnlockCore DEF OpsIInv, OpsInv, Core
  <2> QED
    BY <1>7, <2>1, GoInv DEF CreateUnlock, Kept, state, output, locals
<1> QED
  BY <1>1, <1>2, <1>3, <1>4, <1>5, <1>6, <1>7 DEF CreateStep

LEMMA ReserveStepInv ==
    ASSUME OpsIInv, NEW t \in Threads, ReserveStep(t)
    PROVE  /\ OpsIInv'
           /\ ReserveDone(t) \/ Store' = Store
<1>1. CASE ReserveRdLock(t)
  BY <1>1, RdLockInv DEF ReserveRdLock, RdLockMoves, Kept
<1>2. CASE ReserveLookup(t)
  BY <1>2, LookupInv DEF ReserveLookup, Kept
<1>3. CASE ReserveFound(t)
  BY <1>3, RdUnlockInv DEF ReserveFound, Found, RdUnlockMoves, Kept
<1>4. CASE ReserveNotFound(t)
  BY <1>4, NotFoundInv DEF ReserveNotFound, Kept
<1>5. CASE ReserveWrLock(t)
  <2>1. Core'
    BY <1>5, ReserveWrLockCore DEF OpsIInv, OpsInv, Core
  <2> QED
    BY <1>5, <2>1, GoInv DEF ReserveWrLock, Kept, output, locals
<1>6. CASE ReserveNumber(t)
  BY <1>6, ReserveNumberInv
<1>7. CASE ReserveSeat(t)
  BY <1>7, ReserveSeatInv
<1>8. CASE ReserveDone(t)
  BY <1>8, ReserveDoneInv
<1>9. CASE ReserveRollback(t)
  BY <1>9, ReserveRollbackInv
<1>10. CASE ReserveUnlock(t)
  <2>1. Core'
    BY <1>10, ReserveUnlockCore DEF OpsIInv, OpsInv, Core
  <2> QED
    BY <1>10, <2>1, GoInv DEF ReserveUnlock, Kept, output, locals
<1> QED
  BY <1>1, <1>2, <1>3, <1>4, <1>5, <1>6, <1>7, <1>8, <1>9, <1>10
  DEF ReserveStep

LEMMA ShowStepInv ==
    ASSUME OpsIInv, NEW t \in Threads, ShowStep(t)
    PROVE  Kept
<1>1. CASE ShowRdLock(t)
  BY <1>1, RdLockInv DEF ShowRdLock, RdLockMoves
<1>2. CASE ShowLookup(t)
  BY <1>2, LookupInv DEF ShowLookup
<1>3. CASE ShowFound(t)
  BY <1>3, RdUnlockInv DEF ShowFound, Found, RdUnlockMoves
<1>4. CASE ShowNotFound(t)
  BY <1>4, NotFoundInv DEF ShowNotFound
<1>5. CASE ShowEventLock(t)
  <2>1. Core'
    BY <1>5, ShowEventLockCore DEF OpsIInv, OpsInv, Core
  <2> QED
    BY <1>5, <2>1, GoInv DEF ShowEventLock, output, locals
<1>6. CASE ShowOutput(t)
  BY <1>6, TakeOutputInv DEF ShowOutput
<1>7. CASE ShowSeat(t)
  BY <1>7, ShowSeatInv DEF Kept
<1>8. CASE ShowEventUnlock(t)
  <2>1. Core'
    BY <1>8, ShowEventUnlockCore DEF OpsIInv, OpsInv, Core
  <2> QED
    BY <1>8, <2>1, GoInv DEF ShowEventUnlock, output, locals
<1>9. CASE ShowDone(t)
  BY <1>9, DropOutputInv DEF ShowDone
<1> QED
  BY <1>1, <1>2, <1>3, <1>4, <1>5, <1>6, <1>7, <1>8, <1>9 DEF ShowStep

LEMMA ListStepInv ==
    ASSUME OpsIInv, NEW t \in Threads, ListStep(t)
    PROVE  Kept
<1>1. CASE ListRdLock(t)
  BY <1>1, RdLockInv DEF ListRdLock, RdLockMoves
<1>2. CASE ListEmpty(t)
  BY <1>2, ListEmptyInv DEF Kept
<1>3. CASE ListUnlock(t)
  BY <1>3, RdUnlockInv
  DEF ListUnlock, RdUnlockMoves, EventPlaces, EventWritePlaces, EventReadPlaces
<1>4. CASE ListOutput(t)
  BY <1>4, TakeOutputInv DEF ListOutput
<1>5. CASE ListId(t)
  BY <1>5, ListIdInv DEF Kept
<1>6. CASE ListRdUnlock(t)
  <2>1. Core'
    BY <1>6, ListRdUnlockCore DEF OpsIInv, OpsInv, Core
  <2> QED
    BY <1>6, <2>1, GoInv DEF ListRdUnlock, state, output, locals
<1>7. CASE ListDone(t)
  BY <1>7, DropOutputInv DEF ListDone
<1> QED
  BY <1>1, <1>2, <1>3, <1>4, <1>5, <1>6, <1>7 DEF ListStep

LEMMA StutterInv ==
    ASSUME OpsIInv, UNCHANGED ops
    PROVE  Kept
<1>1. UNCHANGED <<list, eventWriter, eventReaders, writer, readers, printer,
                  out, pc, req, res, ev, rid, i>>
  BY DEF ops, state, locks, output, locals
<1>2. Store' = Store /\ ListReaders' = ListReaders
  BY <1>1 DEF Store, Tentative, ListReaders
<1>3. OpsTypeOK' /\ LocksHeld' /\ CallInv'
  BY <1>1, <1>2
  DEF OpsIInv, OpsInv, OpsTypeOK, LocksHeld, ListLockHeld, EventLocksHeld,
      CallInv
<1>4. TakingInv'
  BY <1>1, TakingKept DEF OpsIInv, OpsInv, TakingInv
<1>5. StoreNumbered'
  BY <1>1, <1>2, NumbersKept DEF OpsIInv, OpsInv
<1>6. PrintingInv'
  BY <1>1 DEF OpsIInv, OpsInv, PrintingInv, ShowPrinted, ListPrinted
<1> QED
  BY <1>1, <1>2, <1>3, <1>4, <1>5, <1>6 DEF Kept, OpsIInv, OpsInv

LEMMA OpsInitInv ==
    ASSUME OpsInit
    PROVE  OpsIInv
<1> USE DEF OpsInit
<1>1. list \in Seq(Event) /\ Len(list) = 0 /\ DOMAIN list = {}
  OBVIOUS
<1>2. OpsTypeOK
  BY <1>1 DEF OpsTypeOK, Places, NULL
<1>3. LocksHeld
  <2>1. ListReaders = {}
    BY DEF ListReaders, ListReadPlaces
  <2>2. Cardinality(ListReaders) = 0
    BY <2>1, FS_EmptySet
  <2> QED
    BY <1>1, <2>2, ThreadsAssumption
    DEF LocksHeld, ListLockHeld, EventLocksHeld, ListWritePlaces, OutputPlaces,
        EventPlaces, EventWritePlaces, EventReadPlaces
<1>4. CallInv
  BY DEF CallInv, CreatePlaces, ReservePlaces, ShowPlaces, ListPlaces,
         DecidedPlaces, CountedPlaces, FoundPlaces, EventPlaces,
         EventWritePlaces, EventReadPlaces, ListWritePlaces
<1>5. TakingInv /\ PrintingInv
  BY DEF TakingInv, PrintingInv
<1>6. StoreNumbered
  BY <1>1 DEF StoreNumbered
<1> QED
  BY <1>1, <1>2, <1>3, <1>4, <1>5, <1>6 DEF OpsIInv, OpsInv

LEMMA OpsNextInv ==
    ASSUME OpsIInv, [OpsNext]_ops
    PROVE  OpsIInv'
<1>1. ASSUME NEW t \in Threads, NEW r \in Requests, Begin(t, r)
      PROVE  OpsIInv'
  BY <1>1, BeginInv DEF Kept
<1>2. ASSUME NEW t \in Threads, Step(t)
      PROVE  OpsIInv'
  BY <1>2, CreateStepInv, ReserveStepInv, ShowStepInv, ListStepInv
  DEF Step, Kept
<1>3. ASSUME NEW t \in Threads, Return(t)
      PROVE  OpsIInv'
  BY <1>3, ReturnInv DEF Kept
<1>4. CASE UNCHANGED ops
  BY <1>4, StutterInv DEF Kept
<1> QED
  BY <1>1, <1>2, <1>3, <1>4 DEF OpsNext

\* What holds of the threads of one process at every moment, whatever they are
\* asked for.
THEOREM OpsInvariance == OpsSpec => []OpsInv
<1>1. OpsInit => OpsIInv
  BY OpsInitInv
<1>2. OpsIInv /\ [OpsNext]_ops => OpsIInv'
  BY OpsNextInv
<1>3. OpsIInv => OpsInv
  BY DEF OpsIInv
<1> QED
  BY <1>1, <1>2, <1>3, PTL DEF OpsSpec

\* However the threads interleave, every variable has its type: events keep arrays of
\* their size, and a pointer to an event is one of a node of the list.
THEOREM OpsTypeCorrect == OpsSpec => []OpsTypeOK
  BY OpsInvariance, PTL DEF OpsInv

\* However the threads interleave, each lock of the list, of an event and of the
\* output is held by who is at work with it and by nobody else.
THEOREM LocksAreHeld == OpsSpec => []LocksHeld
BY OpsInvariance, PTL DEF OpsInv

\* What a thread waits for is never held by a thread that waits as well, but for
\* the list lock that ems_create leaves behind.
LEMMA WaitsForMovers == OpsInv => StuckOnlyIfLeaked
<1> DEFINE busy == {t \in Threads : pc[t] # "idle"}
<1> SUFFICES ASSUME OpsInv, busy # {}, \A t \in busy : Waits(t)
             PROVE  Leaked /\ \A t \in busy : pc[t] = "createWrLock"
  BY DEF StuckOnlyIfLeaked
<1>1. /\ writer \in Threads \cup {NoThread} /\ printer \in Threads \cup {NoThread}
      /\ readers \in Nat /\ NoThread \notin Threads
      /\ eventWriter \in [DOMAIN list -> Threads \cup {NoThread}]
      /\ eventReaders \in [DOMAIN list -> SUBSET Threads]
      /\ ev \in [Threads -> DOMAIN list \cup {NULL}]
  BY ThreadsAssumption DEF OpsInv, OpsTypeOK
<1>2. \A t \in Threads :
         /\ pc[t] \notin ListWritePlaces \cup EventWritePlaces \cup OutputPlaces
         /\ pc[t] \notin ListReadPlaces \ {"listHead"}
  BY DEF Waits, ListWritePlaces, EventWritePlaces, OutputPlaces, ListReadPlaces
<1>3. writer = NoThread /\ printer = NoThread
  BY <1>1, <1>2 DEF OpsInv, LocksHeld, ListLockHeld, EventLocksHeld
<1>4. \A t \in Threads : pc[t] \notin {"showOutput", "listHead"}
  BY <1>3 DEF Waits
<1>5. \A n \in DOMAIN list : eventWriter[n] = NoThread /\ eventReaders[n] = {}
  <2>1. \A t \in Threads : pc[t] \notin EventWritePlaces \cup EventReadPlaces
    BY <1>2, <1>4 DEF EventReadPlaces, OutputPlaces
  <2> QED
    BY <1>1, <2>1 DEF OpsInv, LocksHeld, EventLocksHeld
<1>6. \A t \in busy : pc[t] \notin {"reserveWrLock", "showEventLock"}
  <2>1. \A t \in Threads : pc[t] \in EventPlaces => ev[t] \in DOMAIN list
    BY <1>1 DEF OpsInv, LocksHeld, EventLocksHeld
  <2> QED
    BY <1>5, <2>1 DEF Waits, EventPlaces
<1>7. \A t \in busy : pc[t] = "createWrLock" /\ readers # 0
  BY <1>3, <1>4, <1>6 DEF Waits
<1>8. ListReaders = {}
  BY <1>2, <1>4 DEF ListReaders
<1>9. Cardinality(ListReaders) = 0
  BY <1>8, FS_EmptySet
<1> QED
  BY <1>1, <1>7, <1>9 DEF Leaked

\* The threads of one process never wait for each other in a circle, for any
\* number of threads and any operations: only creates stop, and only when an
\* earlier create has kept the read lock of the list.
THEOREM StuckOnlyByLeak == OpsSpec => []StuckOnlyIfLeaked
  BY OpsInvariance, WaitsForMovers, PTL

\* A failed reservation leaves no trace, for any event and any request.
THEOREM NumbersAreAccounted == OpsSpec => []NumbersAccounted
<1>1. OpsIInv => NumbersAccounted
  <2> SUFFICES ASSUME OpsIInv, NEW n \in DOMAIN list,
                      eventWriter[n] = NoThread
               PROVE  SeatNumbers(list[n]) = 1 .. list[n].reservations
    BY DEF NumbersAccounted
  <2>1. Tentative(n) = {}
    BY ThreadsAssumption
    DEF Tentative, OpsIInv, OpsInv, LocksHeld, EventLocksHeld, EventWritePlaces
  <2>2. n \in 1 .. Len(list)
    BY LenProperties DEF OpsIInv
  <2>3. Store[n] = list[n]
    BY <2>1, <2>2 DEF Store
  <2> QED
    BY <2>3 DEF OpsIInv, OpsInv, StoreNumbered
<1>2. OpsInit => OpsIInv
  BY OpsInitInv
<1>3. OpsIInv /\ [OpsNext]_ops => OpsIInv'
  BY OpsNextInv
<1> QED
  BY <1>1, <1>2, <1>3, PTL DEF OpsSpec

------------------------------------------------------------------------------
(***************************************************************************)
(* The store implements EventStore.                                        *)
(***************************************************************************)
\* The seats of a request are different exactly when they are as many as the
\* coordinates it names.
LEMMA WantedDistinct ==
    ASSUME NEW e, NEW seats, Len(seats) \in Nat, DOMAIN seats = 1 .. Len(seats)
    PROVE  Cardinality(Wanted(e, seats)) = Len(seats)
               <=> \A j, k \in DOMAIN seats :
                      SeatIndex(e, seats[j][1], seats[j][2])
                          = SeatIndex(e, seats[k][1], seats[k][2]) => j = k
<1> DEFINE S == 1 .. Len(seats)
           T == Wanted(e, seats)
           f == [k \in S |-> SeatIndex(e, seats[k][1], seats[k][2])]
<1>1. IsFiniteSet(S) /\ Cardinality(S) = Len(seats)
  <2> DEFINE n == Len(seats)
  <2>1. n \in Nat /\ 1 \in Int /\ n \in Int
    OBVIOUS
  <2> HIDE DEF n
  <2>2. /\ IsFiniteSet(1 .. n)
        /\ Cardinality(1 .. n) = IF 1 > n THEN 0 ELSE n - 1 + 1
    BY <2>1, FS_Interval
  <2> QED
    BY <2>1, <2>2 DEF n
<1>2. T = {f[k] : k \in S}
  BY DEF Wanted
<1>3. \A j, k \in S : f[j] = f[k] <=>
        SeatIndex(e, seats[j][1], seats[j][2])
            = SeatIndex(e, seats[k][1], seats[k][2])
  OBVIOUS
<1>4. f \in [S -> T]
  BY <1>2
<1> HIDE DEF f, T
<1>5. f \in Surjection(S, T)
  BY <1>2, <1>4 DEF Surjection
<1>6. Cardinality(T) = Cardinality(S) <=> f \in Injection(S, T)
  BY <1>1, <1>5, FS_Surjection
<1>7. f \in Injection(S, T) <=> \A j, k \in S : f[j] = f[k] => j = k
  BY <1>4 DEF Injection, IsInjective
<1> QED
  BY <1>1, <1>3, <1>6, <1>7 DEF T

\* The store has the events of the list, each under its identifier.
LEMMA StoreIds ==
    ASSUME OpsIInv
    PROVE  /\ Len(Store) = Len(list) /\ DOMAIN Store = 1 .. Len(list)
           /\ DOMAIN Store = DOMAIN list /\ Len(list) \in Nat
           /\ \A n \in DOMAIN list : Store[n].id = list[n].id
           /\ \A id : GetEvent(Store, id) = GetEvent(list, id)
<1>1. /\ DOMAIN Store = 1 .. Len(list) /\ DOMAIN list = 1 .. Len(list)
      /\ Len(list) \in Nat
  BY LenProperties DEF OpsIInv, Store
<1>2. Len(Store) = Len(list)
  <2> DEFINE S == {Store[n] : n \in DOMAIN list}
             m == Len(list)
  <2>1. m \in Nat /\ Store \in [1 .. m -> S]
    BY <1>1 DEF Store
  <2> HIDE DEF S, m
  <2>2. Store \in Seq(S)
    BY <2>1, SeqDef
  <2> DEFINE l == Len(Store)
  <2>3. l \in Nat /\ DOMAIN Store = 1 .. l
    BY <2>2, LenProperties
  <2>4. DOMAIN Store = 1 .. m
    BY <2>1
  <2> HIDE DEF l
  <2>5. (l = 0 \/ l \in 1 .. m) /\ (m = 0 \/ m \in 1 .. l)
    BY <2>1, <2>3, <2>4
  <2>6. l = m
    BY <2>1, <2>3, <2>5
  <2> QED
    BY <2>6 DEF l, m
<1>3. ASSUME NEW n \in DOMAIN list
      PROVE  Store[n].id = list[n].id
  <2>1. CASE Tentative(n) = {}
    BY <1>1, <2>1 DEF Store
  <2>2. CASE Tentative(n) # {}
    <3>1. PICK t \in Threads : pc[t] = "reserveSeat" /\ ev[t] = n
      BY <2>2 DEF Tentative
    <3>2. IsEvent(list[n]) /\ list[n].reservations > 0
      BY <3>1, TakingFacts
    <3>3. Store[n] = Untaken(list[n])
      BY <1>1, <2>2 DEF Store
    <3> QED
      BY <3>2, <3>3, UntakenFields
  <2> QED
    BY <2>1, <2>2
<1>4. \A id : GetEvent(Store, id) = GetEvent(list, id)
  BY <1>1, <1>3, GetEventSameIds
<1> QED
  BY <1>1, <1>2, <1>3, <1>4

\* The operators of EventData, as EventStore has them.
LEMMA SameData ==
    /\ \A l, id : Abstract!Nodes(l, id) = Nodes(l, id)
    /\ \A l, id : Abstract!GetEvent(l, id) = GetEvent(l, id)
    /\ \A e, s : Abstract!Wanted(e, s) = Wanted(e, s)
    /\ \A e, s : Abstract!InBounds(e, s) = InBounds(e, s)
    /\ \A e, s : Abstract!Free(e, s) = Free(e, s)
    /\ \A r : Abstract!NewEvent(r) = NewEvent(r)
    /\ \A e : Abstract!Snapshot(e) = Snapshot(e)
    /\ \A l, n : Abstract!Ids(l, n) = Ids(l, n)
    /\ \A s : Abstract!Cardinality(s) = Cardinality(s)
    /\ Abstract!NULL = NULL
    /\ Abstract!Ok = Ok /\ Abstract!Failed = Failed
    /\ Abstract!NoAnswer = NoAnswer
<1>1. \A e, a, b : Abstract!SeatIndex(e, a, b) = SeatIndex(e, a, b)
  BY DEF Abstract!SeatIndex, SeatIndex
<1>2. \A l, id : Abstract!Nodes(l, id) = Nodes(l, id)
  BY DEF Abstract!Nodes, Nodes
<1>3. Abstract!NULL = NULL
  BY DEF Abstract!NULL, NULL
<1>4. \A l, id : Abstract!GetEvent(l, id) = GetEvent(l, id)
  BY DEF Abstract!GetEvent, Abstract!Nodes, Abstract!NULL, GetEvent, Nodes, NULL
<1>5. \A e, s : Abstract!Wanted(e, s) = Wanted(e, s)
  BY <1>1 DEF Abstract!Wanted, Wanted
<1>6. \A e, s : Abstract!InBounds(e, s) = InBounds(e, s)
  BY DEF Abstract!InBounds, InBounds
<1>7. \A e, s : Abstract!Free(e, s) = Free(e, s)
  BY <1>5 DEF Abstract!Free, Free
<1>8. \A r : Abstract!NewEvent(r) = NewEvent(r)
  BY DEF Abstract!NewEvent, NewEvent, Abstract!SeatIndices, SeatIndices
<1>9. /\ \A e : Abstract!Snapshot(e) = Snapshot(e)
      /\ \A l, n : Abstract!Ids(l, n) = Ids(l, n)
  BY DEF Abstract!Snapshot, Snapshot, Abstract!Ids, Ids
<1>10. /\ Abstract!Ok = Ok /\ Abstract!Failed = Failed
       /\ Abstract!NoAnswer = NoAnswer
  BY DEF Abstract!Ok, Ok, Abstract!Failed, Failed, Abstract!NoAnswer, NoAnswer
<1>11. \A s : Abstract!Cardinality(s) = Cardinality(s)
  BY DEF Abstract!Cardinality, Cardinality, Abstract!IsFiniteSet, IsFiniteSet
<1> QED
  BY <1>2, <1>3, <1>4, <1>5, <1>6, <1>7, <1>8, <1>9, <1>10, <1>11

\* A thread inside an operation that has no answer yet is waiting on it.
LEMMA IsPending ==
    ASSUME OpsIInv, NEW t \in Threads, NEW op, req' = req,
           pc[t] # "idle", pc[t] \notin DecidedPlaces, req[t].op = op
    PROVE  Abstract!Pending(t, op)
BY SameData DEF Abstract!Pending, OpsIInv, OpsInv, CallInv

\* Where a step leaves the store, the calls and the answers alone.
LEMMA StepStutters ==
    ASSUME OpsIInv, NEW t \in Threads, Step(t), res' = res
    PROVE  UNCHANGED <<Store, req, res>>
<1>1. req' = req
  BY DEF Step, CreateStep, ReserveStep, ShowStep, ListStep, Go,
         CreateRdLock, CreateLookup, CreateRdUnlock, CreateWrLock,
         CreateNoMemory, CreateAppend, CreateUnlock, ReserveRdLock,
         ReserveLookup, ReserveFound, ReserveNotFound, ReserveWrLock,
         ReserveNumber, ReserveSeat, ReserveDone, ReserveRollback,
         ReserveUnlock, ShowRdLock, ShowLookup, ShowFound, ShowNotFound,
         ShowEventLock, ShowOutput, ShowSeat, ShowEventUnlock, ShowDone,
         ListRdLock, ListEmpty, ListUnlock, ListOutput, ListId, ListRdUnlock,
         ListDone, RdLock, RdUnlock, Lookup, Found, NotFound, TakeOutput,
         DropOutput
<1>2. ~CreateAppend(t) /\ ~ReserveDone(t)
  <2>1. pc[t] \in {"createAppend", "reserveSeat"} => res[t] = NoAnswer
    BY DEF OpsIInv, OpsInv, CallInv, DecidedPlaces
  <2>2. Ok # NoAnswer /\ DOMAIN res = Threads
    BY DEF Ok, NoAnswer, OpsIInv, OpsInv, OpsTypeOK
  <2> QED
    BY <2>1, <2>2 DEF CreateAppend, ReserveDone, Answer, Go
<1>3. Store' = Store
  BY <1>2, CreateStepInv, ReserveStepInv, ShowStepInv, ListStepInv
  DEF Step, Kept
<1> QED
  BY <1>1, <1>3

LEMMA CreateRefines ==
    ASSUME OpsIInv, NEW t \in Threads, CreateStep(t)
    PROVE  Abstract!Create(t) \/ UNCHANGED <<Store, req, res>>
<1> DEFINE r == req[t]
<1>1. ASSUME pc[t] \in {"createLookup", "createAppend"}, req' = req
      PROVE  Abstract!Pending(t, "create")
  <2>1. req[t].op = "create" /\ pc[t] # "idle" /\ pc[t] \notin DecidedPlaces
    BY <1>1
    DEF OpsIInv, OpsInv, CallInv, CreatePlaces, ListWritePlaces, DecidedPlaces
  <2> QED
    BY <1>1, <2>1, IsPending
<1>2. CASE CreateLookup(t) /\ res' # res
  <2>1. /\ pc[t] = "createLookup" /\ req' = req
        /\ GetEvent(list, r.id) # NULL
        /\ res' = [res EXCEPT ![t] = Failed]
    BY <1>2 DEF CreateLookup, Go, Answer
  <2>2. Nodes(Store, r.id) # {}
    <3>1. DOMAIN Store \subseteq Nat \ {0} /\ GetEvent(Store, r.id) # NULL
      BY <2>1, StoreIds
    <3> QED
      BY <3>1, GetEventFinds
  <2>3. Store' = Store
    BY <1>2, CreateStepInv DEF CreateStep, CreateLookup, CreateAppend, Go
  <2> QED
    BY <1>1, <2>1, <2>2, <2>3, SameData DEF Abstract!Create, Abstract!Answer
<1>3. CASE CreateNoMemory(t)
  <2>1. /\ pc[t] = "createAppend" /\ req' = req /\ AllocMayFail
        /\ res' = [res EXCEPT ![t] = Failed] /\ list' = list
    BY <1>3 DEF CreateNoMemory, Go, Answer, state
  <2>2. Store' = Store
    <3>1. Core'
      BY <1>3, CreateNoMemoryCore DEF OpsIInv, OpsInv, Core
    <3> QED
      BY <1>3, <3>1, GoInv DEF CreateNoMemory, Kept, state, output, locals
  <2> QED
    BY <1>1, <2>1, <2>2, SameData DEF Abstract!Create, Abstract!Answer
<1>4. CASE CreateAppend(t)
  <2>1. /\ pc[t] = "createAppend" /\ req' = req
        /\ res' = [res EXCEPT ![t] = Ok]
    BY <1>4 DEF CreateAppend, Go, Answer
  <2>2. Store' = Append(Store, NewEvent(r))
    BY <1>4, CreateAppendInv
  <2> QED
    BY <1>1, <2>1, <2>2, SameData DEF Abstract!Create, Abstract!Answer
<1>5. CASE res' = res
  BY <1>5, StepStutters DEF Step
<1>6. res' = res \/ CreateLookup(t) \/ CreateNoMemory(t) \/ CreateAppend(t)
  BY DEF CreateStep, CreateRdLock, CreateRdUnlock, CreateWrLock, CreateUnlock,
         RdLock, RdUnlock
<1> QED
  BY <1>2, <1>3, <1>4, <1>5, <1>6

\* The printed seats are those of the event, which nobody changes meanwhile.
LEMMA ShowRefines ==
    ASSUME OpsIInv, NEW t \in Threads, ShowStep(t)
    PROVE  Abstract!Show(t) \/ UNCHANGED <<Store, req, res>>
<1> DEFINE n == GetEvent(Store, req[t].id)
<1>1. ASSUME pc[t] \in {"showRdUnlock", "showSeat"}, req' = req
      PROVE  Abstract!Pending(t, "show") /\ n = ev[t]
  <2>1. /\ req[t].op = "show" /\ pc[t] # "idle" /\ pc[t] \notin DecidedPlaces
        /\ ev[t] = GetEvent(list, req[t].id)
    BY <1>1
    DEF OpsIInv, OpsInv, CallInv, ShowPlaces, EventReadPlaces, DecidedPlaces,
        FoundPlaces, EventPlaces
  <2> QED
    BY <1>1, <2>1, IsPending, StoreIds
<1>2. Store' = Store
  BY ShowStepInv DEF Kept
<1>3. CASE ShowNotFound(t)
  <2>1. /\ pc[t] = "showRdUnlock" /\ req' = req /\ ev[t] = NULL
        /\ res' = [res EXCEPT ![t] = Failed]
    BY <1>3 DEF ShowNotFound, NotFound, Go, Answer
  <2> QED
    BY <1>1, <1>2, <2>1, SameData DEF Abstract!Show, Abstract!Answer
<1>4. CASE ShowEventUnlock(t)
  <2> DEFINE e == list[ev[t]]
             size == e.rows * e.cols
             a == [ret |-> 0, rows |-> e.rows, cols |-> e.cols,
                   data |-> [s \in SeatIndices(e.rows, e.cols) |->
                                Printed(size - 1 - s)]]
  <2>1. /\ pc[t] = "showSeat" /\ req' = req /\ i[t] > size
        /\ res' = [res EXCEPT ![t] = a]
    BY <1>4 DEF ShowEventUnlock, Go, Answer
  <2>2. /\ ev[t] \in DOMAIN list /\ IsEvent(e)
        /\ Store[ev[t]] = e /\ ev[t] # NULL
    <3>1. ev[t] \in DOMAIN list /\ t \in eventReaders[ev[t]] /\ ev[t] # NULL
      BY <2>1
      DEF OpsIInv, OpsInv, OpsTypeOK, LocksHeld, EventLocksHeld, EventPlaces,
          EventReadPlaces
    <3>2. Tentative(ev[t]) = {}
      <4> SUFFICES ASSUME NEW u \in Threads, pc[u] = "reserveSeat",
                          ev[u] = ev[t]
                   PROVE  FALSE
        BY DEF Tentative
      <4>1. eventWriter[ev[t]] = u
        BY <3>1 DEF OpsIInv, OpsInv, LocksHeld, EventLocksHeld, EventWritePlaces
      <4> QED
        BY <3>1, <4>1, ThreadsAssumption
        DEF OpsIInv, OpsInv, LocksHeld, EventLocksHeld
    <3>3. ev[t] \in 1 .. Len(list)
      BY <3>1, StoreIds
    <3> QED
      BY <3>1, <3>2, <3>3 DEF Store, OpsIInv, OpsInv, OpsTypeOK
  <2>3. a = Snapshot(e)
    <3>1. /\ size \in Nat /\ e.data \in [SeatIndices(e.rows, e.cols) -> Nat]
          /\ SeatIndices(e.rows, e.cols) = 0 .. size - 1
      BY <2>2, EventFields DEF SeatIndices
    <3>2. ShowPrinted(t) /\ i[t] \in Nat \ {0} /\ Len(out) \in Nat
      BY <2>1, LenProperties DEF OpsIInv, OpsInv, OpsTypeOK, PrintingInv
    <3>3. i[t] - 1 <= size
      BY <3>2 DEF ShowPrinted
    <3>4. i[t] - 1 = size
      <4>1. i[t] > size
        BY <2>1
      <4> HIDE DEF size
      <4> QED
        BY <3>1, <3>2, <3>3, <4>1
    <3> HIDE DEF size
    <3>5. \A s \in 1 .. size : out[Len(out) - size + s] = e.data[s - 1]
      BY <3>2, <3>4 DEF ShowPrinted
    <3> HIDE DEF e
    <3>6. ASSUME NEW s \in 0 .. size - 1
          PROVE  Printed(size - 1 - s) = e.data[s]
      <4>1. /\ s + 1 \in 1 .. size /\ s + 1 - 1 = s
            /\ Len(out) - (size - 1 - s) = Len(out) - size + (s + 1)
        BY <3>1, <3>2
      <4>2. out[Len(out) - size + (s + 1)] = e.data[s + 1 - 1]
        BY <3>5, <4>1
      <4> QED
        BY <4>1, <4>2 DEF Printed
    <3>7. [s \in SeatIndices(e.rows, e.cols) |-> Printed(size - 1 - s)] = e.data
      BY <3>1, <3>6
    <3> QED
      BY <3>7 DEF Snapshot
  <2> HIDE DEF a, e
  <2> QED
    BY <1>1, <1>2, <2>1, <2>2, <2>3, SameData
    DEF Abstract!Show, Abstract!Answer
<1>5. CASE res' = res
  BY <1>5, StepStutters DEF Step
<1>6. res' = res \/ ShowNotFound(t) \/ ShowEventUnlock(t)
  BY DEF ShowStep, ShowRdLock, ShowLookup, ShowFound, ShowEventLock,
         ShowOutput, ShowSeat, ShowDone, RdLock, Lookup, Found, RdUnlock,
         TakeOutput, DropOutput
<1> QED
  BY <1>3, <1>4, <1>5, <1>6

\* The printed identifiers are those of the list, which nobody appends to
\* meanwhile.
LEMMA ListRefines ==
    ASSUME OpsIInv, NEW t \in Threads, ListStep(t)
    PROVE  Abstract!List(t) \/ UNCHANGED <<Store, req, res>>
<1> DEFINE Answered(num, ids) == res' = [res EXCEPT ![t] =
                                    [ret |-> 0, num |-> num, ids |-> ids]]
<1>1. ASSUME pc[t] \in {"listHead", "listId"}, req' = req
      PROVE  Abstract!Pending(t, "list")
  <2>1. req[t].op = "list" /\ pc[t] # "idle" /\ pc[t] \notin DecidedPlaces
    BY <1>1 DEF OpsIInv, OpsInv, CallInv, ListPlaces, DecidedPlaces
  <2> QED
    BY <1>1, <2>1, IsPending
<1>2. Store' = Store
  BY ListStepInv DEF Kept
<1>3. ASSUME req' = req, pc[t] \in {"listHead", "listId"},
             Answered(Len(list), Ids(Store, Len(list)))
      PROVE  Abstract!List(t)
  BY <1>1, <1>2, <1>3, StoreIds, SameData DEF Abstract!List, Abstract!Answer
<1>4. CASE ListEmpty(t)
  <2>1. Len(list) = 0 /\ Ids(Store, Len(list)) = <<>>
    <3>1. Len(list) = 0
      BY <1>4 DEF ListEmpty
    <3>2. Ids(Store, 0) = <<>>
      BY DEF Ids
    <3> QED
      BY <3>1, <3>2
  <2>2. /\ req' = req /\ pc[t] = "listHead" /\ Answered(0, <<>>)
    BY <1>4 DEF ListEmpty, Go, Answer
  <2> QED
    BY <1>3, <2>1, <2>2
<1>5. CASE ListRdUnlock(t)
  <2> DEFINE num == i[t] - 1
             ids == [n \in 1 .. num |-> Printed(num - n)]
  <2>1. /\ req' = req /\ pc[t] = "listId" /\ i[t] > Len(list)
        /\ Answered(num, ids)
    BY <1>5 DEF ListRdUnlock, Go, Answer
  <2>2. ListPrinted(t) /\ i[t] \in Nat \ {0} /\ Len(out) \in Nat
    BY <2>1, LenProperties DEF OpsIInv, OpsInv, OpsTypeOK, PrintingInv
  <2>3. /\ num \in Nat /\ num <= Len(list)
        /\ \A s \in 1 .. num : out[Len(out) - num + s] = list[s].id
    BY <2>2 DEF ListPrinted
  <2>4. num = Len(list)
    BY <2>1, <2>2, <2>3, StoreIds
  <2> HIDE DEF num
  <2>5. ASSUME NEW s \in 1 .. num
        PROVE  Printed(num - s) = Store[s].id
    <3>1. Len(out) - (num - s) = Len(out) - num + s
      BY <2>2, <2>3
    <3>2. s \in DOMAIN list
      BY <2>4, StoreIds
    <3> QED
      BY <2>3, <3>1, <3>2, StoreIds DEF Printed
  <2>6. ids = Ids(Store, num)
    BY <2>5 DEF Ids
  <2> HIDE DEF ids
  <2> QED
    BY <1>3, <2>1, <2>4, <2>6
<1>6. CASE res' = res
  BY <1>6, StepStutters DEF Step
<1>7. res' = res \/ ListEmpty(t) \/ ListRdUnlock(t)
  BY DEF ListStep, ListRdLock, ListUnlock, ListOutput, ListId, ListDone,
         RdLock, RdUnlock, TakeOutput, DropOutput
<1> QED
  BY <1>4, <1>5, <1>6, <1>7

\* A reservation that is decided, seen from the store: its event is found, and
\* what it wants is what the loop looked at.
LEMMA Deciding ==
    ASSUME OpsIInv, NEW t \in Threads, pc[t] = "reserveSeat", req' = req
    PROVE  /\ Abstract!Pending(t, "reserve")
           /\ GetEvent(Store, req[t].id) = ev[t] /\ ev[t] # NULL
           /\ ev[t] \in DOMAIN Store
           /\ Store[ev[t]] = Untaken(list[ev[t]])
           /\ \A k : SeatIndex(Store[ev[t]], Seats(t)[k][1], Seats(t)[k][2])
                        = SeatAt(t, k)
<1>1. /\ req[t].op = "reserve" /\ pc[t] # "idle" /\ pc[t] \notin DecidedPlaces
      /\ ev[t] = GetEvent(list, req[t].id) /\ ev[t] # NULL
  BY DEF OpsIInv, OpsInv, LocksHeld, EventLocksHeld, CallInv, ReservePlaces,
         EventWritePlaces, DecidedPlaces, FoundPlaces, EventPlaces
<1>2. Store[ev[t]] = Untaken(list[ev[t]])
  BY OwnShown DEF Shown, EventWritePlaces
<1>3. Store[ev[t]].cols = list[ev[t]].cols
  BY <1>2, TakingFacts, UntakenFields
<1>4. \A k : SeatIndex(Store[ev[t]], Seats(t)[k][1], Seats(t)[k][2])
                = SeatAt(t, k)
  BY <1>3 DEF SeatIndex, SeatAt
<1>5. ev[t] \in DOMAIN Store
  BY TakingFacts, StoreIds
<1> QED
  BY <1>1, <1>2, <1>4, <1>5, IsPending, StoreIds

\* All its seats were free, and they are different seats.
LEMMA DoneRefines ==
    ASSUME OpsIInv, NEW t \in Threads, ReserveDone(t)
    PROVE  Abstract!Reserve(t)
<1> DEFINE n == ev[t]
           e == list[n]
           u == Store[n]
           seats == Seats(t)
           id == u.reservations + 1
           d == [s \in DOMAIN u.data |->
                    IF s \in Wanted(u, seats) THEN id ELSE u.data[s]]
<1>1. /\ pc[t] = "reserveSeat" /\ req' = req /\ i[t] > Len(seats)
      /\ res' = [res EXCEPT ![t] = Ok]
  BY DEF ReserveDone, Go, Answer
<1>2. /\ n \in DOMAIN list /\ IsEvent(e)
      /\ rid[t] = e.reservations /\ rid[t] \in Nat \ {0}
      /\ i[t] \in Nat \ {0} /\ i[t] <= Len(seats) + 1
      /\ Len(seats) \in Nat \ {0}
      /\ DOMAIN seats = 1 .. Len(seats)
      /\ \A k \in 1 .. i[t] - 1 : SeatAt(t, k) \in DOMAIN e.data
  BY <1>1, TakingFacts
<1>3. 1 .. i[t] - 1 = DOMAIN seats
  BY <1>1, <1>2
<1>4. /\ \A k \in DOMAIN seats : /\ seats[k][1] \in 1 .. e.rows
                                /\ seats[k][2] \in 1 .. e.cols
      /\ \A s \in DOMAIN e.data :
            e.data[s] = rid[t] <=> \E k \in DOMAIN seats : s = SeatAt(t, k)
      /\ \A j, k \in DOMAIN seats : SeatAt(t, j) = SeatAt(t, k) => j = k
  <2>1. Taking(t)
    BY <1>1, TakingFacts
  <2> QED
    BY <1>1, <1>3, <2>1 DEF Taking
<1>5. /\ Abstract!Pending(t, "reserve")
      /\ GetEvent(Store, req[t].id) = n /\ n # NULL /\ n \in DOMAIN Store
      /\ u = Untaken(e)
      /\ \A k : SeatIndex(u, seats[k][1], seats[k][2]) = SeatAt(t, k)
  BY <1>1, Deciding
<1>6. /\ IsEvent(u) /\ u.id = e.id /\ u.rows = e.rows /\ u.cols = e.cols
      /\ u.reservations = e.reservations - 1
      /\ DOMAIN u.data = DOMAIN e.data
      /\ \A s \in DOMAIN e.data : u.data[s] = IF e.data[s] = e.reservations
                                             THEN 0 ELSE e.data[s]
  BY <1>2, <1>5, UntakenFields
<1>7. Store' = [Store EXCEPT ![n] = e]
  BY ReserveDoneInv
<1> HIDE DEF n, e, u, seats
<1>8. Wanted(u, seats) = {SeatAt(t, k) : k \in DOMAIN seats}
  BY <1>5 DEF Wanted
<1>9. InBounds(u, seats)
  BY <1>4, <1>6 DEF InBounds
<1>10. Free(u, seats)
  BY <1>2, <1>3, <1>4, <1>6, <1>8 DEF Free
<1>11. Cardinality(Wanted(u, seats)) = Len(seats)
  <2>1. Len(seats) \in Nat /\ DOMAIN seats = 1 .. Len(seats)
    BY <1>2
  <2>2. \A j, k \in DOMAIN seats :
            SeatIndex(u, seats[j][1], seats[j][2])
                = SeatIndex(u, seats[k][1], seats[k][2]) => j = k
    <3> SUFFICES ASSUME NEW j \in DOMAIN seats, NEW k \in DOMAIN seats,
                        SeatIndex(u, seats[j][1], seats[j][2])
                            = SeatIndex(u, seats[k][1], seats[k][2])
                 PROVE  j = k
      OBVIOUS
    <3>1. SeatAt(t, j) = SeatAt(t, k)
      BY <1>5
    <3> QED
      BY <1>4, <3>1
  <2> QED
    BY <2>1, <2>2, WantedDistinct
<1>12. Abstract!Possible(u, seats)
  BY <1>9, <1>10, <1>11, SameData DEF Abstract!Possible
<1>13. d = e.data /\ id = e.reservations
  <2>1. id = e.reservations
    BY <1>2, <1>6
  <2>2. \A s \in DOMAIN e.data : d[s] = e.data[s]
    BY <1>2, <1>4, <1>6, <1>8, <2>1
  <2>3. d = [s \in DOMAIN e.data |-> d[s]]
    BY <1>6
  <2>4. e.data = [s \in DOMAIN e.data |-> e.data[s]]
    BY <1>2, EventFields
  <2> HIDE DEF d
  <2> QED
    BY <2>1, <2>2, <2>3, <2>4
<1>14. e = [u EXCEPT !.reservations = id, !.data = d]
  <2> HIDE DEF d, id
  <2> DEFINE g == [u EXCEPT !.reservations = id, !.data = d]
  <2>1. g.id = e.id /\ g.rows = e.rows /\ g.cols = e.cols
    BY <1>6 DEF IsEvent
  <2>2. g.reservations = e.reservations /\ g.data = e.data
    BY <1>6, <1>13 DEF IsEvent
  <2>3. IsEvent(g)
    BY <1>2, <1>6, <2>1, <2>2, EventFields DEF IsEvent
  <2> HIDE DEF g
  <2>4. g = e
    BY <1>2, <2>1, <2>2, <2>3, SameEvent
  <2> QED
    BY <2>4 DEF g
<1>15. Store' = [Store EXCEPT ![n].reservations = id, ![n].data = d]
  <2> HIDE DEF d, id
  <2> QED
    BY <1>5, <1>7, <1>14 DEF u
<1>16. Store' = [Store EXCEPT ![n].reservations = id,
                              ![n].data = [s \in DOMAIN @ |->
                                  IF s \in Wanted(u, seats)
                                  THEN id ELSE @[s]]]
  BY <1>5, <1>15 DEF u
<1> QED
  BY <1>1, <1>5, <1>12, <1>16, SameData
  DEF Abstract!Reserve, Abstract!Answer, u, seats, Seats

\* The coordinate that is refused is not there, or somebody has its seat, or the
\* same request does.
LEMMA RollbackRefines ==
    ASSUME OpsIInv, NEW t \in Threads, ReserveRollback(t)
    PROVE  Abstract!Reserve(t)
<1> DEFINE n == ev[t]
           e == list[n]
           u == Store[n]
           seats == Seats(t)
           j == i[t]
           q == seats[j]
<1>1. /\ pc[t] = "reserveSeat" /\ req' = req /\ j <= Len(seats)
      /\ ~SeatFree(t)
      /\ res' = [res EXCEPT ![t] = Failed]
  BY DEF ReserveRollback, Go, Answer
<1>2. /\ IsEvent(e)
      /\ rid[t] = e.reservations /\ rid[t] \in Nat \ {0}
      /\ j \in Nat \ {0}
      /\ Len(seats) \in Nat \ {0}
      /\ DOMAIN seats = 1 .. Len(seats)
  BY <1>1, TakingFacts
<1>3. /\ \A s \in DOMAIN e.data :
            e.data[s] = rid[t] <=> \E k \in 1 .. j - 1 : s = SeatAt(t, k)
  BY <1>1, TakingFacts DEF Taking
<1>4. j \in DOMAIN seats /\ \A k \in 1 .. j - 1 : k \in DOMAIN seats /\ k # j
  BY <1>1, <1>2
<1>5. /\ Abstract!Pending(t, "reserve")
      /\ GetEvent(Store, req[t].id) = n
      /\ u = Untaken(e)
      /\ \A k : SeatIndex(u, seats[k][1], seats[k][2]) = SeatAt(t, k)
  BY <1>1, Deciding
<1>6. /\ IsEvent(u) /\ u.rows = e.rows /\ u.cols = e.cols
      /\ DOMAIN u.data = DOMAIN e.data
      /\ \A s \in DOMAIN e.data : u.data[s] = IF e.data[s] = e.reservations
                                             THEN 0 ELSE e.data[s]
  BY <1>2, <1>5, UntakenFields
<1>7. ~SeatFree(t) <=> \/ q[1] \notin 1 .. e.rows \/ q[2] \notin 1 .. e.cols
                       \/ e.data[SeatAt(t, j)] # 0
  BY DEF SeatFree, InBounds
<1>8. Store' = Store
  BY ReserveRollbackInv
<1> HIDE DEF n, e, u, seats, j
<1>9. Wanted(u, seats) = {SeatAt(t, k) : k \in DOMAIN seats}
  BY <1>5 DEF Wanted
<1>10. ~(InBounds(u, seats) /\ Free(u, seats)
         /\ Cardinality(Wanted(u, seats)) = Len(seats))
  <2> SUFFICES ASSUME InBounds(u, seats), Free(u, seats),
                      Cardinality(Wanted(u, seats)) = Len(seats)
               PROVE  FALSE
    OBVIOUS
  <2>1. q[1] \in 1 .. e.rows /\ q[2] \in 1 .. e.cols
    BY <1>4, <1>6 DEF InBounds
  <2>2. e.data[SeatAt(t, j)] # 0
    BY <1>1, <1>7, <2>1
  <2>3. SeatAt(t, j) \in DOMAIN e.data
    <3>1. e.rows \in Nat /\ e.cols \in Nat
          /\ DOMAIN u.data = SeatIndices(u.rows, u.cols)
      BY <1>6, <1>2, EventFields
    <3>2. SeatIndex(u, q[1], q[2]) \in SeatIndices(u.rows, u.cols)
      <4>1. u.rows \in Nat /\ u.cols \in Nat
            /\ q[1] \in 1 .. u.rows /\ q[2] \in 1 .. u.cols
        BY <1>6, <2>1, <3>1
      <4> HIDE DEF q
      <4> QED
        BY <4>1, SeatIndexInRange
    <3> QED
      BY <1>5, <1>6, <3>1, <3>2
  <2>4. u.data[SeatAt(t, j)] = 0
    BY <1>4, <1>9 DEF Free
  <2>5. e.data[SeatAt(t, j)] = rid[t]
    BY <1>2, <1>6, <2>2, <2>3, <2>4
  <2>6. PICK k \in 1 .. j - 1 : SeatAt(t, j) = SeatAt(t, k)
    BY <1>3, <2>3, <2>5
  <2>7. k \in DOMAIN seats /\ k # j
    BY <1>4
  <2>8. \A a, b \in DOMAIN seats : SeatAt(t, a) = SeatAt(t, b) => a = b
    BY <1>2, <1>5, WantedDistinct
  <2> QED
    BY <1>4, <2>6, <2>7, <2>8
<1>11. ~Abstract!Possible(u, seats)
  BY <1>10, SameData DEF Abstract!Possible
<1> QED
  BY <1>1, <1>5, <1>8, <1>11, SameData
  DEF Abstract!Reserve, Abstract!Answer, u, seats, Seats

LEMMA ReserveRefines ==
    ASSUME OpsIInv, NEW t \in Threads, ReserveStep(t)
    PROVE  Abstract!Reserve(t) \/ UNCHANGED <<Store, req, res>>
<1>1. CASE ReserveNotFound(t)
  <2>1. /\ pc[t] = "reserveRdUnlock" /\ req' = req /\ ev[t] = NULL
        /\ res' = [res EXCEPT ![t] = Failed]
    BY <1>1 DEF ReserveNotFound, NotFound, Go, Answer
  <2>2. Store' = Store
    BY <1>1, NotFoundInv DEF ReserveNotFound, Kept
  <2>3. /\ req[t].op = "reserve" /\ pc[t] # "idle"
        /\ pc[t] \notin DecidedPlaces
        /\ GetEvent(list, req[t].id) = NULL
    BY <2>1
    DEF OpsIInv, OpsInv, CallInv, ReservePlaces, DecidedPlaces, FoundPlaces
  <2>4. Abstract!Pending(t, "reserve") /\ GetEvent(Store, req[t].id) = NULL
    BY <2>1, <2>3, IsPending, StoreIds
  <2> QED
    BY <2>1, <2>2, <2>4, SameData DEF Abstract!Reserve, Abstract!Answer
<1>2. CASE ReserveDone(t)
  BY <1>2, DoneRefines
<1>3. CASE ReserveRollback(t)
  BY <1>3, RollbackRefines
<1>4. CASE res' = res
  BY <1>4, StepStutters DEF Step
<1>5. res' = res \/ ReserveNotFound(t) \/ ReserveDone(t) \/ ReserveRollback(t)
  BY DEF ReserveStep, ReserveRdLock, ReserveLookup, ReserveFound,
         ReserveWrLock, ReserveNumber, ReserveSeat, ReserveUnlock, RdLock,
         Lookup, Found, RdUnlock
<1> QED
  BY <1>1, <1>2, <1>3, <1>4, <1>5

LEMMA StepRefines ==
    ASSUME OpsIInv, [OpsNext]_ops
    PROVE  [Abstract!Next]_<<Store, req, res>>
<1>1. ASSUME NEW t \in Threads, NEW r \in Requests, Begin(t, r)
      PROVE  Abstract!Call(t)
  <2>1. req[t] = None /\ req' = [req EXCEPT ![t] = r] /\ res' = res
    BY <1>1 DEF Begin, OpsIInv, OpsInv, CallInv
  <2>2. Store' = Store
    BY <1>1, BeginInv DEF Kept
  <2> QED
    BY <2>1, <2>2 DEF Abstract!Call
<1>2. ASSUME NEW t \in Threads, Return(t)
      PROVE  Abstract!Return(t)
  <2>1. /\ req' = [req EXCEPT ![t] = None]
        /\ res' = [res EXCEPT ![t] = NoAnswer]
        /\ res[t] # NoAnswer
    BY <1>2 DEF Return, OpsIInv, OpsInv, CallInv, DecidedPlaces
  <2>2. Store' = Store
    BY <1>2, ReturnInv DEF Kept
  <2> QED
    BY <2>1, <2>2, SameData DEF Abstract!Return
<1>3. ASSUME NEW t \in Threads, Step(t)
      PROVE  \/ Abstract!Create(t) \/ Abstract!Reserve(t)
             \/ Abstract!Show(t) \/ Abstract!List(t)
             \/ UNCHANGED <<Store, req, res>>
  BY <1>3, CreateRefines, ReserveRefines, ShowRefines, ListRefines DEF Step
<1>4. CASE UNCHANGED ops
  <2>1. UNCHANGED <<req, res>>
    BY <1>4 DEF ops
  <2> QED
    BY <1>4, <2>1, StutterInv DEF Kept
<1>5. CASE OpsNext
  <2>1. PICK t \in Threads : \/ \E r \in Requests : Begin(t, r)
                             \/ Step(t)
                             \/ Return(t)
    BY <1>5 DEF OpsNext
  <2> QED
    BY <1>1, <1>2, <1>3, <2>1 DEF Abstract!Next
<1> QED
  BY <1>4, <1>5

\* The operations take effect in one step each: for any number of threads, any
\* requests and any number of events, what the callers see is what EventStore
\* promises.
THEOREM OpsImplementStore == OpsSpec => StoreSpec
<1>1. OpsInit => Abstract!Init
  <2> SUFFICES ASSUME OpsInit
               PROVE  Abstract!Init
    OBVIOUS
  <2>1. Store = <<>>
    <3>1. OpsIInv /\ Len(list) = 0
      BY OpsInitInv DEF OpsInit
    <3> QED
      BY <3>1 DEF Store
  <2> QED
    BY <2>1, SameData DEF OpsInit, Abstract!Init
<1>2. OpsInit => OpsIInv
  BY OpsInitInv
<1>3. OpsIInv /\ [OpsNext]_ops => OpsIInv'
  BY OpsNextInv
<1>4. OpsIInv /\ [OpsNext]_ops => [Abstract!Next]_(Abstract!vars)
  BY StepRefines DEF Abstract!vars
<1> QED
  BY <1>1, <1>2, <1>3, <1>4, PTL DEF OpsSpec, StoreSpec, Abstract!Spec
==============================================================================
