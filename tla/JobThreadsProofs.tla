-------------------------- MODULE JobThreadsProofs ---------------------------
(***************************************************************************)
(* Every line runs once and in order, for any number of threads and any    *)
(* jobs file.  The threads' part of the argument is ThreadsInv: what each  *)
(* thread has read is what was run, and no thread passes a BARRIER that    *)
(* another one has not reached.                                            *)
(***************************************************************************)
EXTENDS JobThreads, FiniteSetTheorems, TLAPS

\* The invariant, with the types that the threads' part of it leaves out.
Inv == /\ ThreadsInv
       /\ file \in Files
       /\ req \in [Threads -> Requests \cup {None}]

\* The lines of a jobs file are numbered from 1.
LEMMA LineNumbers ==
    ASSUME file \in Files
    PROVE  /\ Len(Lines) \in Nat
           /\ DOMAIN Lines = 1 .. Len(Lines)
           /\ Barriers \subseteq 1 .. Len(Lines)
BY FilesAssumption DEF Lines, Barriers

\* Each line is some thread's, and only one's.
LEMMA OneOwner ==
    ASSUME NEW l \in Nat
    PROVE  /\ \E t \in Threads : Executes(t, l)
           /\ \A t, u \in Threads : Executes(t, l) /\ Executes(u, l) => t = u
<1>1. l % MaxThreads \in 0 .. MaxThreads - 1
  BY MaxThreadsAssumption
<1>2. CASE l % MaxThreads = 0
  BY <1>2, MaxThreadsAssumption DEF Executes
<1>3. CASE l % MaxThreads # 0
  BY <1>1, <1>3, MaxThreadsAssumption DEF Executes
<1> QED
  BY <1>2, <1>3

LEMMA InitInv == ThreadsInit => Inv
<1> SUFFICES ASSUME ThreadsInit PROVE Inv
  OBVIOUS
<1> USE MaxThreadsAssumption DEF ThreadsInit
<1>1. file \in Files /\ req \in [Threads -> Requests \cup {None}]
  BY DEF OpsInit
<1>2. ThreadsTypeOK
  BY <1>1, LineNumbers DEF ThreadsTypeOK
<1>3. LinesInv
  BY <1>1, LineNumbers DEF LinesInv, OpsInit
<1>4. MainInv
  BY <1>1 DEF MainInv
<1>5. StepInv
  BY <1>1, LineNumbers DEF StepInv, Passed
<1> QED
  BY <1>1, <1>2, <1>3, <1>4, <1>5 DEF Inv, ThreadsInv

------------------------------------------------------------------------------
(***************************************************************************)
(* The steps of a thread.                                                  *)
(***************************************************************************)
\* A thread that stops at a barrier has reached it.
LEMMA StopAtBarrierInv ==
    ASSUME Inv, NEW t \in Threads, StopAtBarrier(t)
    PROVE  Inv'
<1> USE LineNumbers, MaxThreadsAssumption
    DEF StopAtBarrier, AtLoop, ops, Inv, ThreadsInv, ThreadsTypeOK
<1>1. Lines' = Lines /\ Barriers' = Barriers
  BY DEF Lines, Barriers
<1>2. ThreadsTypeOK'
  BY <1>1
<1>3. LinesInv'
  BY <1>1 DEF LinesInv
<1>4. MainInv'
  BY DEF MainInv
<1>5. StepInv'
  BY <1>1, SMTT(20), ZenonT(40) DEF StepInv, Passed, Reached, MainInv
<1> QED
  BY <1>1, <1>2, <1>3, <1>4, <1>5

\* Reading a line at which no barrier holds the thread changes nothing about the
\* barriers it has passed or reached.
LEMMA NextLinePasses ==
    ASSUME Inv, NEW t \in Threads, AtLoop(t), NextLine(t), file' = file,
           life[t] = "running",
           life' = life \/ life' = [life EXCEPT ![t] = "ended"],
           line[t] + 1 \in 1 .. Len(Lines) + 1
    PROVE  /\ Barriers' = Barriers
           /\ \A u \in Threads : \A b \in Barriers :
                 /\ Passed(u, b)' <=> Passed(u, b)
                 /\ Reached(u, b)' <=> Reached(u, b)
<1> USE LineNumbers DEF Inv, ThreadsInv, ThreadsTypeOK
<1>1. Barriers' = Barriers
  BY DEF Barriers, Lines
<1>2. ASSUME NEW u \in Threads, NEW b \in Barriers
      PROVE  /\ Passed(u, b)' <=> Passed(u, b)
             /\ Reached(u, b)' <=> Reached(u, b)
  <2>1. b \in Nat /\ line[u] \in Nat /\ line[t] \in Nat
    OBVIOUS
  <2>2. CASE u = t
    BY <2>1, <2>2 DEF NextLine, Passed, Reached
  <2>3. CASE u # t
    BY <2>1, <2>3 DEF NextLine, Passed, Reached
  <2> QED
    BY <2>2, <2>3
<1> QED
  BY <1>1, <1>2

\* Nor does it change how far the threads are from one another.
LEMMA NextLineStep ==
    ASSUME Inv, NEW t \in Threads, AtLoop(t), NextLine(t),
           UNCHANGED <<file, results, main, k>>,
           life' = life \/ life' = [life EXCEPT ![t] = "ended"],
           line[t] + 1 \in 1 .. Len(Lines) + 1
    PROVE  StepInv'
<1> USE LineNumbers DEF Inv, ThreadsInv, ThreadsTypeOK
<1>1. life[t] = "running"
  BY DEF AtLoop
<1>2. /\ Barriers' = Barriers
      /\ \A u \in Threads : \A b \in Barriers :
            /\ Passed(u, b)' <=> Passed(u, b)
            /\ Reached(u, b)' <=> Reached(u, b)
  BY <1>1, NextLinePasses
<1>3. ASSUME main = "restart", NEW u \in Threads, NEW v \in Threads,
             v >= k, results[v] = 1
      PROVE  /\ life'[v] = "stopped"
             /\ u < k => Passed(u, line[v])'
             /\ u >= k => line'[u] = line'[v]
  <2>1. life[v] = "stopped"
    BY <1>3 DEF StepInv
  <2>2. v # t
    BY <1>1, <2>1
  <2>3. line'[v] = line[v] /\ life'[v] = "stopped"
    BY <2>1, <2>2 DEF NextLine
  <2>4. line[v] \in Barriers
    BY <2>1 DEF LinesInv
  <2>5. ASSUME u < k PROVE Passed(u, line[v])'
    <3>1. Passed(u, line[v])
      BY <1>3, <2>5 DEF StepInv
    <3>2. line'[u] >= line[u]
      BY DEF NextLine
    <3>3. CASE u = t
      BY <1>1, <2>3, <2>4, <3>1, <3>3 DEF Passed, NextLine
    <3>4. CASE u # t
      BY <2>3, <3>1, <3>4 DEF Passed, NextLine
    <3> QED
      BY <3>3, <3>4
  <2>6. ASSUME u >= k PROVE line'[u] = line'[v]
    <3>1. life[u] = "stopped"
      BY <1>3, <2>6 DEF StepInv, MainInv
    <3>2. line[u] = line[v]
      BY <1>3, <2>6 DEF StepInv
    <3> QED
      BY <1>1, <2>3, <3>1, <3>2 DEF NextLine
  <2> QED
    BY <2>3, <2>5, <2>6
<1> QED
  BY <1>2, <1>3 DEF StepInv

\* A line that is read over.
LEMMA SkipLineInv ==
    ASSUME Inv, NEW t \in Threads, SkipLine(t)
    PROVE  Inv'
<1>5. StepInv'
  <2>1. line[t] + 1 \in 1 .. Len(Lines) + 1
    BY LineNumbers DEF SkipLine, Inv, ThreadsInv, ThreadsTypeOK
  <2> QED
    BY <2>1, NextLineStep DEF SkipLine, NextLine
<1> USE LineNumbers, MaxThreadsAssumption
    DEF SkipLine, NextLine, AtLoop, ops, Inv, ThreadsInv, ThreadsTypeOK
<1>1. Lines' = Lines /\ Barriers' = Barriers
  BY DEF Lines, Barriers
<1>2. ThreadsTypeOK'
  BY <1>1
<1>3. LinesInv'
  BY <1>1, SMTT(20), ZenonT(40) DEF LinesInv
<1>4. MainInv'
  BY DEF MainInv
<1> QED
  BY <1>1, <1>2, <1>3, <1>4, <1>5

\* A line that is begun was not begun before: it is the thread's own.
LEMMA RunLineInv ==
    ASSUME Inv, NEW t \in Threads, RunLine(t)
    PROVE  Inv'
<1> DEFINE l == line[t] + 1
<1>0. ASSUME NEW u \in Threads, NEW m \in DOMAIN Lines, Executes(u, m)
      PROVE  ran[m] = IF m <= line[u] /\ Lines[m].op \in OpNames THEN 1 ELSE 0
  BY <1>0 DEF LinesInv, Inv, ThreadsInv
<1>1. Lines' = Lines /\ Barriers' = Barriers
  BY DEF Lines, Barriers, RunLine
<1>2. /\ l \in DOMAIN Lines
      /\ Lines[l].op \in OpNames
      /\ Executes(t, l)
      /\ life[t] = "running"
      /\ req[t] = None
      /\ line' = [line EXCEPT ![t] = l]
      /\ barried' = [barried EXCEPT ![t] = FALSE]
      /\ ran' = [ran EXCEPT ![l] = @ + 1]
      /\ req' = [req EXCEPT ![t] = Lines[l]]
      /\ UNCHANGED <<file, life, results, main, k>>
  BY DEF RunLine, NextLine, AtLoop, Begin
<1>9. ASSUME NEW u \in Threads, Executes(u, l) PROVE u = t
  <2>1. l \in Nat
    BY LineNumbers, <1>2 DEF Inv
  <2> QED
    BY <1>2, <1>9, <2>1, OneOwner
<1>3. Lines[l] \in Requests
  BY <1>2, FilesAssumption DEF Lines, Inv
<1>4. StepInv'
  <2>1. line[t] + 1 \in 1 .. Len(Lines) + 1
    BY <1>2, LineNumbers DEF Inv
  <2> QED
    BY <2>1, NextLineStep DEF RunLine, NextLine
<1> USE LineNumbers, MaxThreadsAssumption, <1>1, <1>2, <1>3
    DEF Inv, ThreadsInv, ThreadsTypeOK
<1>5. line[t] \in 0 .. Len(Lines) /\ ran[l] \in Nat /\ l \in Nat
  OBVIOUS
<1> HIDE DEF l
<1>6. ThreadsTypeOK'
  BY <1>5
<1>7. LinesInv'
  <2>1. ASSUME NEW u \in Threads, NEW m \in DOMAIN Lines, Executes(u, m)
        PROVE  ran'[m] = IF m <= line'[u] /\ Lines[m].op \in OpNames
                         THEN 1 ELSE 0
    <3>1. m \in Nat /\ line[u] \in Nat
      OBVIOUS
    <3>2. m = l => u = t
      BY <1>9, <2>1
    <3>3. ran[m] = IF m <= line[u] /\ Lines[m].op \in OpNames THEN 1 ELSE 0
      BY <1>0, <2>1
    <3>4. CASE m = l
      <4>1. u = t /\ line'[u] = l /\ line[u] < l
        BY <1>5, <3>2, <3>4 DEF l
      <4> QED
        BY <1>5, <3>3, <3>4, <4>1
    <3>5. CASE m # l
      <4>1. ran'[m] = ran[m]
        BY <3>5
      <4>2. m <= line'[u] <=> m <= line[u]
        BY <1>5, <3>1, <3>5, SMTT(20), ZenonT(40) DEF l
      <4> QED
        BY <3>3, <4>1, <4>2
    <3> QED
      BY <3>4, <3>5
  <2>2. ASSUME NEW u \in Threads, req'[u] # None
        PROVE  /\ life'[u] = "running"
               /\ line'[u] \in DOMAIN Lines
               /\ Executes(u, line'[u])
               /\ Lines[line'[u]].op \in OpNames
    BY <2>2 DEF LinesInv
  <2>3. ASSUME NEW u \in Threads
        PROVE  /\ life'[u] = "ended" <=> line'[u] > Len(Lines)
               /\ life'[u] = "stopped" => barried'[u]
               /\ barried'[u] => line'[u] \in Barriers /\ life'[u] # "none"
               /\ life'[u] = "none" => line'[u] = 0
    BY <1>5 DEF LinesInv
  <2> QED
    BY <2>1, <2>2, <2>3 DEF LinesInv
<1>8. MainInv'
  BY DEF MainInv
<1> QED
  BY <1>3, <1>4, <1>6, <1>7, <1>8

\* The end of the file.
LEMMA EndOfFileInv ==
    ASSUME Inv, NEW t \in Threads, EndOfFile(t)
    PROVE  Inv'
<1>5. StepInv'
  <2>1. line[t] + 1 \in 1 .. Len(Lines) + 1
    BY LineNumbers DEF EndOfFile, Inv, ThreadsInv, ThreadsTypeOK
  <2> QED
    BY <2>1, NextLineStep DEF EndOfFile, NextLine
<1> USE LineNumbers, MaxThreadsAssumption
    DEF EndOfFile, NextLine, AtLoop, ops, Inv, ThreadsInv, ThreadsTypeOK
<1>1. Lines' = Lines /\ Barriers' = Barriers
  BY DEF Lines, Barriers
<1>2. ThreadsTypeOK'
  BY <1>1
<1>3. LinesInv'
  BY <1>1 DEF LinesInv
<1>4. MainInv'
  BY DEF MainInv, StepInv
<1> QED
  BY <1>1, <1>2, <1>3, <1>4, <1>5

\* An operation leaves the threads where they are, and ends with no request.
LEMMA StepKeepsRequests ==
    ASSUME NEW t \in Threads, Step(t)
    PROVE  req' = req
BY DEF Step, CreateStep, ReserveStep, ShowStep, ListStep, CreateRdLock,
       CreateLookup, CreateRdUnlock, CreateWrLock, CreateNoMemory,
       CreateAppend, CreateUnlock, ReserveRdLock, ReserveLookup,
       ReserveFound, ReserveNotFound, ReserveWrLock, ReserveNumber,
       ReserveSeat, ReserveDone, ReserveRollback, ReserveUnlock, ShowRdLock,
       ShowLookup, ShowFound, ShowNotFound, ShowEventLock, ShowOutput,
       ShowSeat, ShowEventUnlock, ShowDone, ListRdLock, ListEmpty,
       ListUnlock, ListOutput, ListId, ListRdUnlock, ListDone, RdLock,
       RdUnlock, Lookup, Found, NotFound, TakeOutput, DropOutput, Go

LEMMA RunOperationInv ==
    ASSUME Inv, NEW t \in Threads, RunOperation(t)
    PROVE  Inv'
<1>1. req' = req \/ req' = [req EXCEPT ![t] = None]
  BY StepKeepsRequests DEF RunOperation, Return
<1> USE LineNumbers, <1>1
    DEF RunOperation, control, Inv, ThreadsInv, ThreadsTypeOK
<1>2. Lines' = Lines /\ Barriers' = Barriers
  BY DEF Lines, Barriers
<1>3. ThreadsTypeOK'
  BY <1>2
<1>4. LinesInv'
  BY <1>2 DEF LinesInv
<1>5. MainInv'
  BY DEF MainInv
<1>6. StepInv'
  BY <1>2 DEF StepInv, Passed, Reached
<1> QED
  BY <1>1, <1>2, <1>3, <1>4, <1>5, <1>6

------------------------------------------------------------------------------
(***************************************************************************)
(* The steps of the main thread.                                           *)
(***************************************************************************)
\* The first round: a thread that is started has passed no barrier.
LEMMA StartThreadInv ==
    ASSUME Inv, StartThread
    PROVE  Inv'
<1> USE LineNumbers, MaxThreadsAssumption
    DEF StartThread, Loop, ops, Inv, ThreadsInv, ThreadsTypeOK
<1>1. Lines' = Lines /\ Barriers' = Barriers
  BY DEF Lines, Barriers
<1>2. life[k] = "none" /\ line[k] = 0 /\ ~barried[k]
  BY DEF MainInv, LinesInv
<1>3. ThreadsTypeOK'
  BY <1>1
<1>4. LinesInv'
  BY <1>1, <1>2 DEF LinesInv
<1>5. MainInv'
  BY <1>2 DEF MainInv
<1>6. StepInv'
  <2>1. \A t \in Threads : \A b \in Barriers :
           /\ Passed(t, b)' <=> Passed(t, b)
           /\ Reached(t, b)' <=> Reached(t, b)
    BY <1>2 DEF Passed, Reached
  <2> QED
    BY <1>1, <2>1 DEF StepInv
<1> QED
  BY <1>1, <1>3, <1>4, <1>5, <1>6

\* When the last thread is joined, all are at one barrier or all have ended.
LEMMA JoinThreadInv ==
    ASSUME Inv, JoinThread
    PROVE  Inv'
<1> USE LineNumbers, MaxThreadsAssumption
    DEF JoinThread, Loop, ops, Inv, ThreadsInv, ThreadsTypeOK
<1>1. Lines' = Lines /\ Barriers' = Barriers
  BY DEF Lines, Barriers
<1>2. ThreadsTypeOK'
  BY <1>1
<1>3. LinesInv'
  BY <1>1 DEF LinesInv
<1>4. \A t \in Threads : t <= k =>
         /\ results'[t] = 0 => life[t] = "ended"
         /\ results'[t] = 1 => life[t] = "stopped"
  BY DEF MainInv
<1>5. \A t, u \in Threads : \A b \in Barriers :
         life[t] \in {"stopped", "ended"} /\ life[u] = "stopped"
         /\ line[u] = b => ~Passed(t, b)
  BY SMTT(20), ZenonT(40) DEF StepInv, Passed
<1>6. \A t, u \in Threads :
         life[t] \in {"stopped", "ended"} /\ life[u] = "stopped"
         => life[t] = "stopped" /\ line[t] = line[u]
  <2> SUFFICES ASSUME NEW t \in Threads, NEW u \in Threads,
                      life[t] \in {"stopped", "ended"}, life[u] = "stopped"
               PROVE  life[t] = "stopped" /\ line[t] = line[u]
    OBVIOUS
  <2>1. line[u] \in Barriers /\ line[t] \in Nat /\ line[u] \in Nat
    BY DEF LinesInv
  <2>2. ~(line[t] > line[u])
    BY <1>5, <2>1 DEF Passed
  <2>3. life[t] = "stopped"
    BY <2>1, <2>2 DEF LinesInv
  <2>4. line[t] \in Barriers
    BY <2>3 DEF LinesInv
  <2>5. ~(line[u] > line[t])
    BY <1>5, <2>3, <2>4 DEF Passed
  <2> QED
    BY <2>1, <2>2, <2>3, <2>5
<1>7. main' = "restart" => \A t \in Threads : t <= k
  OBVIOUS
<1>8. main' = "restart" => \A t, u \in Threads : results'[t] = results'[u]
  <2> SUFFICES ASSUME main' = "restart", NEW t \in Threads, NEW u \in Threads
               PROVE  results'[t] = results'[u]
    OBVIOUS
  <2>1. results'[t] \in {0, 1} /\ results'[u] \in {0, 1}
    BY <1>2
  <2>2. results'[t] = 1 => results'[u] = 1
    BY <1>4, <1>6, <1>7, <2>1
  <2>3. results'[u] = 1 => results'[t] = 1
    BY <1>4, <1>6, <1>7, <2>1
  <2> QED
    BY <2>1, <2>2, <2>3
<1>9. MainInv'
  <2>1. \A t \in Threads : results'[t] = 0 => life'[t] = "ended"
    BY DEF MainInv
  <2>2. main' = "join" =>
           \A t \in Threads : t < k' /\ results'[t] = 1 => life'[t] = "stopped"
    BY <1>4
  <2>3. \A t \in Threads : life'[t] # "none"
    BY DEF MainInv
  <2> QED
    BY <1>8, <2>1, <2>2, <2>3 DEF MainInv
<1>10. StepInv'
  <2>1. \A t \in Threads : \A b \in Barriers :
           /\ Passed(t, b)' <=> Passed(t, b)
           /\ Reached(t, b)' <=> Reached(t, b)
    BY DEF Passed, Reached
  <2>2. main' = "restart" =>
          \A t, u \in Threads :
              u >= k' /\ results'[u] = 1 =>
                  /\ life'[u] = "stopped"
                  /\ t < k' => Passed(t, line[u])'
                  /\ t >= k' => line'[t] = line'[u]
    BY <1>4, <1>6, <1>7, <1>8, SMTT(20), ZenonT(40)
  <2> QED
    BY <1>1, <2>1, <2>2, SMTT(20), ZenonT(40) DEF StepInv
<1> QED
  BY <1>1, <1>2, <1>3, <1>9, <1>10

\* A thread that is started again passes the barrier at which all others are, or
\* which they have passed.
LEMMA RestartThreadInv ==
    ASSUME Inv, RestartThread
    PROVE  Inv'
<1> USE LineNumbers, MaxThreadsAssumption
    DEF RestartThread, Loop, ops, Inv, ThreadsInv, ThreadsTypeOK
<1>1. Lines' = Lines /\ Barriers' = Barriers
  BY DEF Lines, Barriers
<1>2. ThreadsTypeOK'
  BY <1>1
<1>3. results[k] = 1 => life[k] = "stopped" /\ line[k] \in Barriers
  BY DEF StepInv, LinesInv
<1>4. LinesInv'
  BY <1>1, <1>3, SMTT(20), ZenonT(40) DEF LinesInv
<1>5. MainInv'
  BY <1>3 DEF MainInv
<1>6. CASE results[k] # 1
  <2>1. \A t \in Threads : results[t] = 0
    BY <1>6 DEF MainInv
  <2>2. main' # "join" /\ main' # "create"
    BY <2>1
  <2>3. \A t \in Threads : \A b \in Barriers :
           /\ Passed(t, b)' <=> Passed(t, b)
           /\ Reached(t, b)' <=> Reached(t, b)
    BY <1>6 DEF Passed, Reached
  <2>4. \A u \in Threads : results'[u] # 1
    BY <2>1
  <2>5. \A t, u \in Threads : \A b \in Barriers :
           Passed(t, b)' => Reached(u, b)'
    BY <2>3 DEF StepInv
  <2> QED
    BY <1>1, <1>2, <1>4, <1>5, <2>2, <2>4, <2>5 DEF StepInv
<1>7. CASE results[k] = 1
  <2>0. PICK at \in Barriers : at = line[k]
    BY <1>3, <1>7
  <2>1. /\ at = line[k] /\ at \in Nat
        /\ life[k] = "stopped" /\ barried[k]
        /\ \A t \in Threads : results[t] = 1
    BY <1>3, <1>7, <2>0 DEF MainInv, LinesInv
  <2>2. \A t \in Threads : t < k => Passed(t, at)
    BY <1>7, <2>1 DEF StepInv
  <2>3. \A t \in Threads : t >= k =>
           line[t] = at /\ life[t] = "stopped" /\ barried[t]
    BY <1>7, <2>1 DEF StepInv, LinesInv
  <2>4. \A t \in Threads : \A b \in Barriers :
           /\ Reached(t, b)' <=> Reached(t, b)
           /\ Passed(t, b)' <=> (Passed(t, b) \/ (t = k /\ b = at))
    BY <1>7, <2>1 DEF Passed, Reached
  <2>5. \A t, u \in Threads : \A b \in Barriers :
            Passed(t, b)' => Reached(u, b)'
    <3>1. \A t \in Threads : Reached(t, at)
      BY <2>2, <2>3 DEF Passed, Reached
    <3> QED
      BY <2>4, <3>1 DEF StepInv
  <2>6. main' = "join" =>
           \A t, u \in Threads : \A b \in Barriers :
               Passed(t, b)' => Passed(u, b)'
    <3> SUFFICES ASSUME main' = "join", NEW t \in Threads, NEW u \in Threads,
                        NEW b \in Barriers, Passed(t, b)'
                 PROVE  Passed(u, b)'
      OBVIOUS
    <3>1. k = MaxThreads /\ b \in Nat
      BY <2>1
    <3>2. Reached(k, b)
      BY <2>4, <2>5
    <3>3. b <= at
      BY <2>1, <3>1, <3>2 DEF Reached
    <3>4. Passed(u, at)'
      BY <2>1, <2>2, <2>4, <3>1
    <3>5. line'[u] \in Nat /\ line'[u] >= at
      BY <2>1, <3>4 DEF Passed
    <3> QED
      BY <2>1, <3>1, <3>3, <3>4, <3>5 DEF Passed
  <2>7. main' = "restart" =>
           \A t, u \in Threads :
              u >= k' /\ results'[u] = 1 =>
                  /\ life'[u] = "stopped"
                  /\ t < k' => Passed(t, line[u])'
                  /\ t >= k' => line'[t] = line'[u]
    <3> SUFFICES ASSUME main' = "restart", NEW t \in Threads,
                        NEW u \in Threads, u >= k'
                 PROVE  /\ life'[u] = "stopped"
                        /\ t < k' => Passed(t, line[u])'
                        /\ t >= k' => line'[t] = line'[u]
      BY SMTT(20), ZenonT(40)
    <3>1. k' = k + 1 /\ u > k /\ u # k
      BY <2>1
    <3>2. line[u] = at /\ life'[u] = "stopped"
      BY <1>7, <2>3, <3>1
    <3>3. t < k' => Passed(t, at)'
      BY <2>1, <2>2, <2>4, <3>1
    <3>4. t >= k' => line'[t] = at
      BY <2>3, <3>1
    <3> QED
      BY <3>2, <3>3, <3>4
  <2>8. main' # "create"
    BY <2>1
  <2> QED
    BY <1>1, <1>2, <1>4, <1>5, <2>5, <2>6, <2>7, <2>8 DEF StepInv
<1> QED
  BY <1>1, <1>2, <1>4, <1>5, <1>6, <1>7

------------------------------------------------------------------------------
LEMMA NextInv ==
    ASSUME Inv, [ThreadsNext]_threads
    PROVE  Inv'
<1>1. CASE MainStep
  BY <1>1, StartThreadInv, JoinThreadInv, RestartThreadInv DEF MainStep
<1>2. ASSUME NEW t \in Threads, ThreadStep(t)
      PROVE  Inv'
  BY <1>2, StopAtBarrierInv, SkipLineInv, RunLineInv, EndOfFileInv,
     RunOperationInv DEF ThreadStep
<1>3. CASE UNCHANGED threads
  BY <1>3 DEF threads, control, ops, Inv, ThreadsInv, ThreadsTypeOK, LinesInv,
              MainInv, StepInv, Passed, Reached, Lines, Barriers
<1> QED
  BY <1>1, <1>2, <1>3 DEF ThreadsNext

LEMMA InvAlways == ThreadsSpec => []Inv
BY InitInv, NextInv, PTL DEF ThreadsSpec

\* For any number of threads and any jobs files: the invariant that relates the
\* lines the threads have read, the operations begun, the barriers passed and
\* the place of the main thread holds in every state.
THEOREM ThreadsInvariance == ThreadsSpec => []ThreadsInv
BY InvAlways, PTL DEF Inv

\* However many threads there are and however often they are stopped and started
\* again, every operation of the file is run once before process_file returns.
THEOREM EveryLineRuns == ThreadsSpec => []EveryLineRan
<1>1. Inv => EveryLineRan
  <2> SUFFICES ASSUME Inv, main = "returned", NEW l \in DOMAIN Lines
               PROVE  ran[l] = IF Lines[l].op \in OpNames THEN 1 ELSE 0
    BY DEF EveryLineRan
  <2> USE LineNumbers DEF Inv, ThreadsInv, ThreadsTypeOK
  <2>1. l \in Nat
    OBVIOUS
  <2>2. PICK t \in Threads : Executes(t, l)
    BY <2>1, OneOwner
  <2>3. line[t] > Len(Lines)
    BY DEF MainInv, LinesInv
  <2>4. l <= line[t]
    BY <2>1, <2>3
  <2> QED
    BY <2>2, <2>4 DEF LinesInv
<1> QED
  BY InvAlways, <1>1, PTL

------------------------------------------------------------------------------
(***************************************************************************)
(* JobThreads implements JobOrder.                                         *)
(***************************************************************************)
\* Two threads never run the operation of the same line.
LEMMA OwnLine ==
    ASSUME Inv, NEW t \in Threads, NEW u \in Threads,
           req[t] # None, req[u] # None, line[t] = line[u]
    PROVE  t = u
BY LineNumbers, OneOwner DEF Inv, ThreadsInv, LinesInv

\* A thread at most runs one operation, so that fewer than MaxThreads run when
\* one of them runs none.
LEMMA FewRunning ==
    ASSUME Inv, NEW t \in Threads, req[t] = None
    PROVE  Cardinality(Running) < MaxThreads
<1> DEFINE busy == {u \in Threads : req[u] # None}
           f == [u \in busy |-> line[u]]
<1>1. IsFiniteSet(Threads) /\ Cardinality(Threads) = MaxThreads
  BY MaxThreadsAssumption, FS_Interval
<1>2. /\ IsFiniteSet(Threads \ {t})
      /\ Cardinality(Threads \ {t}) = MaxThreads - 1
  BY <1>1, FS_RemoveElement
<1>3. IsFiniteSet(busy) /\ Cardinality(busy) <= MaxThreads - 1
  BY <1>2, FS_Subset
<1>4. f \in Surjection(busy, Running)
  BY DEF Surjection, Running
<1>5. IsFiniteSet(Running) /\ Cardinality(Running) <= Cardinality(busy)
  BY <1>3, <1>4, FS_Surjection
<1>6. Cardinality(Running) \in Nat /\ Cardinality(busy) \in Nat
  BY <1>3, <1>5, FS_CardinalityType
<1> QED
  BY <1>3, <1>5, <1>6, MaxThreadsAssumption

\* A thread begins a line only when every operation before it that JobOrder has
\* it wait for was begun and has ended.
LEMMA RunLineOrdered ==
    ASSUME Inv, NEW t \in Threads, RunLine(t)
    PROVE  Order!Begin(line[t] + 1)
<1> DEFINE l == line[t] + 1
<1> USE LineNumbers DEF Inv, ThreadsInv, ThreadsTypeOK
<1>1. /\ l \in DOMAIN Lines /\ l \in Nat
      /\ Lines[l].op \in OpNames
      /\ Executes(t, l)
      /\ life[t] = "running"
      /\ req[t] = None
      /\ barried[t] \/ line[t] \notin Barriers
      /\ line' = [line EXCEPT ![t] = l]
      /\ ran' = [ran EXCEPT ![l] = @ + 1]
      /\ req' = [req EXCEPT ![t] = Lines[l]]
      /\ file' = file
  BY DEF RunLine, NextLine, AtLoop, Begin
<1>2. ran[l] = 0
  <2>1. ~(l <= line[t])
    BY <1>1
  <2> QED
    BY <1>1, <2>1 DEF LinesInv
<1>3. Lines[l] # None
  BY <1>1, FilesAssumption, RequestsAssumption DEF Lines
<1>4. Running' = Running \cup {l}
  BY <1>1, <1>3 DEF Running
<1>5. ASSUME NEW m \in Order!Operations, m < l,
             Order!BarrierBetween(m, l) \/ m % MaxThreads = l % MaxThreads
      PROVE  Order!Ended(m)
  <2>1. /\ m \in DOMAIN Lines /\ m \in Nat
        /\ Lines[m].op \in OpNames
        /\ Lines[m].op # "barrier"
    BY DEF Order!Operations, Order!Lines, Lines, OpNames
  <2>2. PICK u \in Threads : Executes(u, m)
    BY <2>1, OneOwner
  <2>3. m <= line[u] /\ (u = t \/ m < line[u])
    <3>1. CASE m % MaxThreads = l % MaxThreads
      <4>1. Executes(t, m)
        BY <1>1, <3>1 DEF Executes
      <4>2. u = t
        BY <2>1, <2>2, <4>1, OneOwner
      <4> QED
        BY <1>1, <1>5, <2>1, <4>2
    <3>2. CASE Order!BarrierBetween(m, l)
      <4>1. PICK b \in m + 1 .. l - 1 : Lines[b].op = "barrier"
        BY <3>2 DEF Order!BarrierBetween, Order!Lines, Lines
      <4>2. b \in Barriers /\ b \in Nat /\ m < b
        BY <1>1, <2>1, <4>1 DEF Barriers
      <4>3. Passed(t, b)
        BY <1>1, <4>1, <4>2 DEF Passed
      <4>4. Reached(u, b)
        BY <4>2, <4>3 DEF StepInv
      <4>5. line[u] >= b /\ line[u] \in Nat
        BY <4>2, <4>4 DEF Reached
      <4> QED
        BY <2>1, <4>2, <4>5
    <3> QED
      BY <1>5, <3>1, <3>2
  <2>4. ran[m] = 1
    BY <2>1, <2>2, <2>3 DEF LinesInv
  <2>5. m \notin Running
    <3> SUFFICES ASSUME NEW v \in Threads, req[v] # None, line[v] = m
                 PROVE  FALSE
      BY DEF Running
    <3>1. Executes(v, m)
      BY DEF LinesInv
    <3>2. v = u
      BY <2>1, <2>2, <3>1, OneOwner
    <3> QED
      BY <1>1, <2>1, <2>3, <3>2
  <2> QED
    BY <2>4, <2>5 DEF Order!Ended
<1>6. Cardinality(Running) < MaxThreads
  BY <1>1, FewRunning
<1>7. ran' = [ran EXCEPT ![l] = 1]
  BY <1>1, <1>2
<1>8. Order!Cardinality(Running) = Cardinality(Running)
  BY DEF Order!Cardinality, Cardinality
<1> QED
  BY <1>1, <1>2, <1>4, <1>5, <1>6, <1>7, <1>8 DEF Order!Begin

\* An operation that returns leaves the set of those that run.
LEMMA ReturnOrdered ==
    ASSUME Inv, NEW t \in Threads, RunOperation(t)
    PROVE  [Order!Next]_(Order!order)
<1>1. UNCHANGED <<file, ran, line>>
  BY DEF RunOperation, control
<1>2. CASE req' = req
  BY <1>1, <1>2 DEF Running, Order!order
<1>3. CASE req' = [req EXCEPT ![t] = None] /\ req[t] # None
  <2>1. Running' = Running \ {line[t]}
    BY <1>1, <1>3, OwnLine DEF Running, Inv
  <2>2. line[t] \in Running
    BY <1>3 DEF Running
  <2>3. Order!End(line[t])
    BY <1>1, <2>1 DEF Order!End
  <2> QED
    BY <2>2, <2>3 DEF Order!Next
<1>4. CASE req' = [req EXCEPT ![t] = None] /\ req[t] = None
  <2>1. req' = req
    BY <1>4 DEF Inv
  <2> QED
    BY <1>2, <2>1
<1> QED
  BY <1>2, <1>3, <1>4, StepKeepsRequests DEF RunOperation, Return

LEMMA StepOrdered ==
    ASSUME Inv, [ThreadsNext]_threads
    PROVE  [Order!Next]_(Order!order)
<1>1. ASSUME NEW t \in Threads, RunLine(t)
      PROVE  [Order!Next]_(Order!order)
  <2>1. line[t] + 1 \in Order!Operations
    BY <1>1 DEF RunLine, Order!Operations, Order!Lines, Lines, OpNames
  <2> QED
    BY <1>1, <2>1, RunLineOrdered DEF Order!Next
<1>2. ASSUME UNCHANGED <<file, ran, req>>,
             \A t \in Threads : req[t] # None => line'[t] = line[t]
      PROVE  [Order!Next]_(Order!order)
  BY <1>2 DEF Running, Order!order
<1>3. ASSUME NEW t \in Threads,
             StopAtBarrier(t) \/ SkipLine(t) \/ EndOfFile(t)
      PROVE  [Order!Next]_(Order!order)
  BY <1>2, <1>3 DEF StopAtBarrier, SkipLine, EndOfFile, NextLine, AtLoop, ops,
                    Inv, ThreadsInv, ThreadsTypeOK
<1>4. CASE MainStep \/ UNCHANGED threads
  BY <1>2, <1>4 DEF MainStep, StartThread, JoinThread, RestartThread, threads,
                    control, ops
<1> QED
  BY <1>1, <1>3, <1>4, ReturnOrdered DEF ThreadsNext, ThreadStep

\* The operations run in the order that JobOrder allows, whatever the number of
\* threads: at most MaxThreads at a time, the lines of a thread one after the
\* other, and none before all operations above the last BARRIER have ended.
THEOREM OrderKept == ThreadsSpec => OrderSpec
<1>1. ThreadsInit => Order!Init
  BY DEF ThreadsInit, OpsInit, Order!Init, Order!Lines, Lines, Running
<1> QED
  BY <1>1, InvAlways, StepOrdered, PTL
  DEF ThreadsSpec, OrderSpec, Order!Spec

==============================================================================
