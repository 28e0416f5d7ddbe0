--------------------------- MODULE JobPoolProofs ----------------------------
(***************************************************************************)
(* The process pool: its bound and its reports, for any directory and any  *)
(* MAX_PROC, and what is proved of the operations and of the threads       *)
(* carried over to the process that is observed.                           *)
(***************************************************************************)
EXTENDS JobPool, JobThreadsProofs, LocalOpsProofs

------------------------------------------------------------------------------
(***************************************************************************)
(* The observed process is a process of JobThreads, and its threads are    *)
(* threads of LocalOps.                                                    *)
(***************************************************************************)
LEMMA ThreadsAreOps ==
    ASSUME Inv, [ThreadsNext]_threads
    PROVE  [OpsNext]_ops
<1>1. ASSUME NEW t \in Threads, RunLine(t)
      PROVE  OpsNext
  <2>1. Lines[line[t] + 1] \in Requests
    BY <1>1, FilesAssumption DEF RunLine, Inv, Lines
  <2> QED
    BY <1>1, <2>1 DEF RunLine, OpsNext
<1>2. ASSUME NEW t \in Threads, RunOperation(t)
      PROVE  OpsNext
  BY <1>2 DEF RunOperation, OpsNext
<1>3. ASSUME NEW t \in Threads,
             StopAtBarrier(t) \/ SkipLine(t) \/ EndOfFile(t)
      PROVE  UNCHANGED ops
  BY <1>3 DEF StopAtBarrier, SkipLine, EndOfFile
<1>4. CASE MainStep \/ UNCHANGED threads
  BY <1>4 DEF MainStep, StartThread, JoinThread, RestartThread, threads
<1> QED
  BY <1>1, <1>2, <1>3, <1>4 DEF ThreadsNext, ThreadStep

LEMMA ThreadsRunOps == ThreadsSpec => OpsSpec
<1>1. ThreadsInit => OpsInit
  BY DEF ThreadsInit
<1> QED
  BY <1>1, InvAlways, ThreadsAreOps, PTL DEF ThreadsSpec, OpsSpec

LEMMA PoolRunsThreads == Spec => ThreadsSpec
<1>1. Init => ThreadsInit
  BY DEF Init
<1>2. [Next]_vars => [ThreadsNext]_threads
  BY DEF Next, At, vars
<1> QED
  BY <1>1, <1>2, PTL DEF Spec, ThreadsSpec

\* Each operation of the observed process takes effect in one step: whatever the
\* threads, the jobs files and the pool are.
THEOREM JobsImplementStore == Spec => StoreSpec
BY PoolRunsThreads, ThreadsRunOps, OpsImplementStore, PTL

\* Its threads hold each lock while they are at work with it and no longer, and
\* a reservation that failed leaves no trace.
THEOREM JobsKeepOps == Spec => []OpsInv /\ []NumbersAccounted
BY PoolRunsThreads, ThreadsRunOps, OpsInvariance, NumbersAreAccounted, PTL

\* They never wait for each other in a circle.
THEOREM JobsStopByLeak == Spec => []StuckOnlyIfLeaked
BY PoolRunsThreads, ThreadsRunOps, StuckOnlyByLeak, PTL

\* They run the lines of the file, each once, in the order that JobOrder allows.
THEOREM JobsRunInOrder == Spec => OrderSpec /\ []EveryLineRan
BY PoolRunsThreads, OrderKept, EveryLineRuns, PTL

------------------------------------------------------------------------------
(***************************************************************************)
(* The pool.                                                               *)
(***************************************************************************)
\* The children that have not been forked are those of the entries to come, and
\* each child that was waited for is either reported or in the buffer, which is
\* not used on a terminal.
PoolInv ==
    /\ terminal \in BOOLEAN
    /\ entry \in Nat \ {0}
    /\ counter \in Nat
    /\ parent \in {"reading", "forking", "draining", "exited"}
    /\ child \in [Entries -> {"unborn", "running", "hung", "zombie", "reaped"}]
    /\ buffer \subseteq Entries
    /\ inherited \in [Entries -> SUBSET Entries]
    /\ reports \in [Entries -> Nat]
    /\ \A e \in Entries : e >= entry => child[e] = "unborn"
    /\ parent = "forking" => entry \in Entries
    /\ counter = Cardinality(Alive) /\ counter <= MaxProc
    /\ parent = "exited" => counter = 0
    /\ terminal =>
          /\ buffer = {} /\ \A e \in Entries : inherited[e] = {}
          /\ \A e \in Entries :
                reports[e] = IF child[e] = "reaped" THEN 1 ELSE 0
    /\ ~terminal =>
          \A e \in Entries : child[e] = "reaped" =>
              e \in buffer /\ (parent = "exited" => reports[e] >= 1)

LEMMA AliveFinite ==
    ASSUME NEW S \in SUBSET Entries
    PROVE  IsFiniteSet(S) /\ Cardinality(S) \in Nat
<1>1. Entries = 1 .. Len(Directory) /\ Len(Directory) \in Nat
  BY PoolAssumption, LenProperties DEF Entries
<1>2. IsFiniteSet(Entries)
  BY <1>1, FS_Interval
<1> QED
  BY <1>2, FS_Subset, FS_CardinalityType

LEMMA PoolInitInv == Init => PoolInv
<1> SUFFICES ASSUME Init
             PROVE  PoolInv
  OBVIOUS
<1>1. Alive = {}
  BY DEF Init, Alive
<1>2. Cardinality(Alive) = 0
  BY <1>1, FS_EmptySet
<1>3. MaxProc \in Nat \ {0}
  BY PoolAssumption
<1> QED
  BY <1>2, <1>3 DEF Init, PoolInv

\* A child keeps its place in the pool from its fork to its wait.
LEMMA AliveKept ==
    ASSUME PoolInv, NEW e \in Entries, NEW to \in {"running", "hung", "zombie"},
           child[e] \in {"running", "hung", "zombie"},
           child' = [child EXCEPT ![e] = to]
    PROVE  Alive' = Alive
BY DEF PoolInv, Alive

LEMMA ParentInv ==
    ASSUME PoolInv, ParentStep, UNCHANGED terminal
    PROVE  PoolInv'
<1> USE DEF PoolInv
<1>1. CASE ReadEntry
  <2>1. Alive' = Alive
    BY <1>1 DEF ReadEntry, Alive
  <2>2. \A e \in Entries : e \in Nat
    BY PoolAssumption, LenProperties DEF Entries
  <2>3. UNCHANGED <<counter, child, buffer, inherited, reports>>
    BY <1>1 DEF ReadEntry
  <2>4. /\ parent' \in {"draining", "forking", "reading"}
        /\ parent' = "forking" => entry' \in Entries
        /\ entry' = entry \/ entry' = entry + 1
    BY <1>1 DEF ReadEntry
  <2>5. \A e \in Entries : e >= entry' => child[e] = "unborn"
    BY <2>2, <2>4
  <2> QED
    BY <1>1, <2>1, <2>3, <2>4, <2>5 DEF ReadEntry
<1>2. CASE Fork
  <2>1. entry \in Entries /\ child[entry] = "unborn"
    BY <1>2 DEF Fork
  <2>2. Alive' = Alive \cup {entry} /\ entry \notin Alive
    BY <1>2, <2>1 DEF Fork, Alive
  <2>3. Cardinality(Alive') = Cardinality(Alive) + 1
    <3>1. IsFiniteSet(Alive)
      BY AliveFinite DEF Alive
    <3> QED
      BY <2>2, <3>1, FS_AddElement
  <2>4. counter' = Cardinality(Alive)' /\ counter' <= MaxProc /\ counter' \in Nat
    BY <1>2, <2>3, PoolAssumption DEF Fork
  <2>5. \A e \in Entries : e \in Nat
    BY PoolAssumption, LenProperties DEF Entries
  <2>6. \A e \in Entries : e >= entry' => child'[e] = "unborn"
    BY <1>2, <2>1, <2>5 DEF Fork
  <2>7. \A e \in Entries : child'[e] = "reaped" <=> child[e] = "reaped"
    BY <1>2, <2>1 DEF Fork
  <2>8. /\ inherited' \in [Entries -> SUBSET Entries]
        /\ terminal => \A e \in Entries : inherited'[e] = {}
    BY <1>2, <2>1 DEF Fork
  <2>9. /\ child' \in [Entries -> {"unborn", "running", "hung", "zombie",
                                  "reaped"}]
        /\ parent' = "reading" /\ entry' = entry + 1
        /\ UNCHANGED <<buffer, reports>>
    BY <1>2, <2>1 DEF Fork
  <2> QED
    BY <1>2, <2>1, <2>4, <2>6, <2>7, <2>8, <2>9
<1>3. CASE ForkFails
  <2>1. Alive' = Alive
    BY <1>3 DEF ForkFails, Alive
  <2>2. \A e \in Entries : e \in Nat
    BY PoolAssumption, LenProperties DEF Entries
  <2> QED
    BY <1>3, <2>1, <2>2 DEF ForkFails
<1>4. ASSUME NEW e \in Entries, Reap(e)
      PROVE  PoolInv'
  <2> USE <1>4 DEF Reap
  <2>1. Alive' = Alive \ {e} /\ e \in Alive
    BY DEF Alive
  <2>2. Cardinality(Alive') = Cardinality(Alive) - 1 /\ Cardinality(Alive') \in Nat
    <3>1. IsFiniteSet(Alive)
      BY AliveFinite DEF Alive
    <3>2. Cardinality(Alive') \in Nat
      BY AliveFinite DEF Alive
    <3> QED
      BY <2>1, <3>1, <3>2, FS_RemoveElement
  <2>3. counter' = Cardinality(Alive)' /\ counter' <= MaxProc /\ counter' \in Nat
    BY <2>2, PoolAssumption
  <2>4. CASE terminal
    <3>1. reports' = Flushed({e}) /\ buffer' = buffer
      BY <2>4
    <3>2. /\ reports' \in [Entries -> Nat]
          /\ reports'[e] = reports[e] + 1
          /\ \A f \in Entries : f # e => reports'[f] = reports[f]
      BY <3>1 DEF Flushed
    <3>3. /\ child' = [child EXCEPT ![e] = "reaped"] /\ child[e] = "zombie"
          /\ UNCHANGED <<entry, parent, inherited, terminal>>
          /\ parent \in {"forking", "draining"}
      OBVIOUS
    <3>4. \A f \in Entries :
             reports'[f] = IF child'[f] = "reaped" THEN 1 ELSE 0
      <4>1. \A f \in Entries :
               reports[f] = IF child[f] = "reaped" THEN 1 ELSE 0
        BY <2>4
      <4>2. \A f \in Entries :
               child'[f] = IF f = e THEN "reaped" ELSE child[f]
        BY <3>3
      <4> HIDE DEF Reap, PoolInv
      <4> QED
        BY <3>2, <3>3, <4>1, <4>2
    <3> HIDE DEF Reap
    <3> QED
      BY <2>3, <2>4, <3>1, <3>2, <3>3, <3>4
  <2>5. CASE ~terminal
    BY <2>3, <2>5
  <2> QED
    BY <2>4, <2>5
<1>5. CASE ParentExit
  <2>1. Alive' = Alive
    BY <1>5 DEF ParentExit, Alive
  <2>2. /\ reports' \in [Entries -> Nat]
        /\ \A e \in Entries :
              /\ e \in buffer => reports'[e] = reports[e] + 1
              /\ e \notin buffer => reports'[e] = reports[e]
    BY <1>5 DEF ParentExit, Flushed
  <2>3. /\ parent' = "exited" /\ counter = 0
        /\ UNCHANGED <<entry, counter, child, buffer, inherited>>
    BY <1>5 DEF ParentExit
  <2>4. terminal =>
           \A e \in Entries :
              reports'[e] = IF child[e] = "reaped" THEN 1 ELSE 0
    BY <2>2
  <2>5. ~terminal =>
           \A e \in Entries :
              child[e] = "reaped" => e \in buffer /\ reports'[e] >= 1
    BY <2>2
  <2> QED
    BY <2>1, <2>2, <2>3, <2>4, <2>5
<1> QED
  BY <1>1, <1>2, <1>3, <1>4, <1>5 DEF ParentStep

LEMMA ChildInv ==
    ASSUME PoolInv, NEW e \in Entries, ChildEnds(e) \/ ChildKilled(e),
           UNCHANGED terminal
    PROVE  PoolInv'
<1> USE DEF PoolInv
<1>1. PICK to \in {"hung", "zombie"} :
          /\ child[e] \in {"running", "hung"}
          /\ child' = [child EXCEPT ![e] = to]
  BY DEF ChildEnds, ChildExit, ChildHangs, ChildKilled
<1>2. Alive' = Alive
  BY <1>1, AliveKept
<1>3. UNCHANGED <<entry, counter, parent, buffer, inherited>>
  BY DEF ChildEnds, ChildExit, ChildHangs, ChildKilled
<1>4. \A f \in Entries : /\ child'[f] = "reaped" <=> child[f] = "reaped"
                         /\ f >= entry => child'[f] = "unborn"
  BY <1>1
<1>5. \E w \in SUBSET Entries :
         /\ terminal => w = {}
         /\ reports' = [f \in Entries |-> reports[f] + IF f \in w THEN 1 ELSE 0]
  <2>1. CASE ChildExit(e)
    BY <2>1 DEF ChildExit, Flushed
  <2>2. CASE reports' = reports
    <3>1. reports' = [f \in Entries |-> reports[f] + IF f \in {} THEN 1 ELSE 0]
      BY <2>2
    <3> WITNESS {} \in SUBSET Entries
    <3> QED
      BY <3>1
  <2> QED
    BY <2>1, <2>2 DEF ChildEnds, ChildHangs, ChildKilled
<1>6. /\ reports' \in [Entries -> Nat]
      /\ \A f \in Entries : reports'[f] >= reports[f]
      /\ terminal => \A f \in Entries : reports'[f] = reports[f]
  <2>1. PICK w \in SUBSET Entries :
           /\ terminal => w = {}
           /\ reports' = [f \in Entries |->
                             reports[f] + IF f \in w THEN 1 ELSE 0]
    BY <1>5
  <2>2. \A f \in Entries :
           reports[f] \in Nat
           /\ reports'[f] = reports[f] + IF f \in w THEN 1 ELSE 0
    BY <2>1
  <2> QED
    BY <2>1, <2>2
<1>7. /\ child' \in [Entries -> {"unborn", "running", "hung", "zombie",
                                "reaped"}]
      /\ counter' = Cardinality(Alive)'
  BY <1>1, <1>2, <1>3
<1>8. terminal => \A f \in Entries :
                     reports'[f] = IF child'[f] = "reaped" THEN 1 ELSE 0
  BY <1>4, <1>6
<1>9. ~terminal =>
         \A f \in Entries :
            child'[f] = "reaped" =>
               f \in buffer /\ (parent = "exited" => reports'[f] >= 1)
  <2> SUFFICES ASSUME ~terminal, NEW f \in Entries, child'[f] = "reaped"
               PROVE  f \in buffer /\ (parent = "exited" => reports'[f] >= 1)
    OBVIOUS
  <2>1. /\ child[f] = "reaped" /\ reports'[f] >= reports[f]
        /\ reports[f] \in Nat /\ reports'[f] \in Nat
    BY <1>4, <1>6
  <2> QED
    BY <2>1
<1> QED
  BY <1>3, <1>4, <1>6, <1>7, <1>8, <1>9

LEMMA PoolNextInv ==
    ASSUME PoolInv, [Next]_vars
    PROVE  PoolInv'
<1>1. CASE UNCHANGED <<terminal, pool>>
  BY <1>1 DEF PoolInv, pool, Alive
<1>2. CASE PoolNext /\ UNCHANGED terminal
  BY <1>2, ParentInv, ChildInv DEF PoolNext
<1> QED
  BY <1>1, <1>2 DEF Next, vars

LEMMA PoolInvAlways == Spec => []PoolInv
BY PoolInitInv, PoolNextInv, PTL DEF Spec

\* For any directory and any MAX_PROC, whatever fork() does and however the
\* children end, there are never more of them than MAX_PROC and none is left.
THEOREM PoolIsBounded == Spec => []PoolBound
<1>1. PoolInv => PoolBound
  <2> SUFFICES ASSUME PoolInv
               PROVE  PoolBound
    OBVIOUS
  <2>1. parent = "exited" => Alive = {}
    <3>1. Cardinality(Alive) = 0 <=> Alive = {}
      BY AliveFinite, FS_EmptySet DEF Alive
    <3> QED
      BY <3>1 DEF PoolInv
  <2> QED
    BY <2>1 DEF PoolInv, PoolBound
<1> QED
  BY <1>1, PoolInvAlways, PTL

\* The end of each child is reported by the time the parent ends, and once if
\* the report goes to a terminal.
THEOREM EndsAreReported == Spec => []EndsReported
<1>1. PoolInv => EndsReported
  BY DEF PoolInv, EndsReported, JobFiles
<1> QED
  BY <1>1, PoolInvAlways, PTL

==============================================================================
