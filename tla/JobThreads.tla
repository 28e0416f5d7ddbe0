----------------------------- MODULE JobThreads ------------------------------
(***************************************************************************)
(* The threads of one process at work on one jobs file.  Source:           *)
(* projeto1/threadFn.c and projeto1/processFile.c.                         *)
(*                                                                         *)
(* Every thread reads the whole file through a descriptor of its own and   *)
(* runs the operations of every MaxThreads-th line.  At a BARRIER it ends; *)
(* the main thread joins all threads and starts those again that have not  *)
(* reached the end of the file.  A WAIT only takes time.                   *)
(***************************************************************************)
EXTENDS LocalOps

CONSTANTS MaxThreads,  \* MAX_THREADS
          Files        \* the jobs files: their text and how it is read

OpNames == {"create", "reserve", "show", "list"}

ASSUME MaxThreadsAssumption ==
    MaxThreads \in Nat \ {0} /\ Threads = 1 .. MaxThreads
ASSUME FilesAssumption ==
    \A f \in Files :
        /\ f.lines \in Seq({f.lines[l] : l \in DOMAIN f.lines})
        /\ \A l \in DOMAIN f.lines :
              f.lines[l].op \in OpNames => f.lines[l] \in Requests

VARIABLES
    file,     \* the jobs file of the process
    line,     \* line_counter of each thread
    barried,  \* `barried' of each thread
    life,     \* none, running, stopped at a barrier, or ended
    results,  \* thread_results of process_file: 1 unless the thread ended
    main,     \* where the main thread of the process is
    k,        \* the thread its loop is at
    ran       \* ran[l]: how often the operation of line l was begun

control == <<file, line, barried, life, results, main, k, ran>>
threads == <<ops, control>>

Lines == file.lines

ThreadsInit ==
    /\ OpsInit
    /\ file \in Files
    /\ line    = [t \in Threads |-> 0]
    /\ barried = [t \in Threads |-> FALSE]
    /\ life    = [t \in Threads |-> "none"]
    /\ results = [t \in Threads |-> 1]
    /\ main = "create"
    /\ k = 1
    /\ ran = [l \in DOMAIN Lines |-> 0]

------------------------------------------------------------------------------
(***************************************************************************)
(* thread_fn.                                                              *)
(***************************************************************************)
\* initialize_lists has given every thread the lines of the barriers.
Barriers == {l \in DOMAIN Lines : Lines[l].op = "barrier"}

Executes(t, l) ==
    \/ l % MaxThreads = t
    \/ l % MaxThreads = 0 /\ t = MaxThreads

AtLoop(t) == life[t] = "running" /\ req[t] = None

\* Mutated form: the thread leaves as if the file had ended.
StopForgets(t) ==
    /\ AtLoop(t)
    /\ ~barried[t]
    /\ line[t] \in Barriers
    /\ life' = [life EXCEPT ![t] = "ended"]
    /\ UNCHANGED <<ops, file, line, barried, results, main, k, ran>>

StopAtBarrier(t) ==
    /\ AtLoop(t)
    /\ ~barried[t]
    /\ line[t] \in Barriers
    /\ barried' = [barried EXCEPT ![t] = TRUE]
    /\ life' = [life EXCEPT ![t] = "stopped"]
    /\ UNCHANGED <<ops, file, line, results, main, k, ran>>

NextLine(t) ==
    /\ AtLoop(t)
    /\ barried[t] \/ line[t] \notin Barriers
    /\ barried' = [barried EXCEPT ![t] = FALSE]
    /\ line' = [line EXCEPT ![t] = @ + 1]

\* A line of somebody else, or one that is no operation, is read over.
SkipLine(t) ==
    LET l == line[t] + 1
    IN  /\ NextLine(t)
        /\ l \in DOMAIN Lines
        /\ ~(Executes(t, l) /\ Lines[l].op \in OpNames)
        /\ UNCHANGED <<ops, file, life, results, main, k, ran>>

RunLine(t) ==
    LET l == line[t] + 1
    IN  /\ NextLine(t)
        /\ l \in DOMAIN Lines
        /\ Executes(t, l)
        /\ Lines[l].op \in OpNames
        /\ Begin(t, Lines[l])
        /\ ran' = [ran EXCEPT ![l] = @ + 1]
        /\ UNCHANGED <<file, life, results, main, k>>

EndOfFile(t) ==
    /\ NextLine(t)
    /\ line[t] = Len(Lines)
    /\ life' = [life EXCEPT ![t] = "ended"]
    /\ UNCHANGED <<ops, file, results, main, k, ran>>

RunOperation(t) == (Step(t) \/ Return(t)) /\ UNCHANGED control

------------------------------------------------------------------------------
(***************************************************************************)
(* process_file: create all threads, then join all of them and create      *)
(* those again that stopped at a barrier, until all have ended.            *)
(***************************************************************************)
\* Mutated form: the loops go on to MAX_THREADS + 1.
LoopOneMore(from, to) ==
    /\ main = from
    /\ IF k <= MaxThreads THEN k' = k + 1 /\ main' = from
                          ELSE k' = 1 /\ main' = to

Loop(from, to) ==
    /\ main = from
    /\ IF k < MaxThreads THEN k' = k + 1 /\ main' = from
                         ELSE k' = 1 /\ main' = to

StartThread ==
    /\ Loop("create", "join")
    /\ life' = [life EXCEPT ![k] = "running"]
    /\ UNCHANGED <<ops, file, line, barried, results, ran>>

\* Mutated form: a thread that has ended is joined again in the next round.
JoinKeepsResult ==
    /\ Loop("join", "restart")
    /\ life[k] \in {"stopped", "ended"}
    /\ UNCHANGED <<ops, file, line, barried, life, results, ran>>

\* Mutated form: the main thread does not wait for the thread to stop.
JoinNoWait ==
    /\ Loop("join", "restart")
    /\ results' = [results EXCEPT ![k] = IF life[k] = "ended" THEN 0 ELSE 1]
    /\ UNCHANGED <<ops, file, line, barried, life, ran>>

JoinThread ==
    /\ Loop("join", "restart")
    /\ results[k] = 1 => life[k] \in {"stopped", "ended"}
    /\ results' = [results EXCEPT ![k] = IF life[k] = "ended" THEN 0 ELSE 1]
    /\ UNCHANGED <<ops, file, line, barried, life, ran>>

RestartThread ==
    /\ Loop("restart", IF \A t \in Threads : results[t] = 0 THEN "returned"
                                                            ELSE "join")
    /\ life' = IF results[k] = 1 THEN [life EXCEPT ![k] = "running"] ELSE life
    /\ UNCHANGED <<ops, file, line, barried, results, ran>>

ThreadStep(t) == \/ StopAtBarrier(t)
                 \/ SkipLine(t)
                 \/ RunLine(t)
                 \/ EndOfFile(t)
                 \/ RunOperation(t)

MainStep == StartThread \/ JoinThread \/ RestartThread

ThreadsNext == MainStep \/ \E t \in Threads : ThreadStep(t)

ThreadsSpec == ThreadsInit /\ [][ThreadsNext]_threads

------------------------------------------------------------------------------
(***************************************************************************)
(* Properties.                                                             *)
(***************************************************************************)
\* Every variable has its type.
ThreadsTypeOK ==
    /\ line \in [Threads -> 0 .. Len(Lines) + 1]
    /\ barried \in [Threads -> BOOLEAN]
    /\ life \in [Threads -> {"none", "running", "stopped", "ended"}]
    /\ results \in [Threads -> {0, 1}]
    /\ main \in {"create", "join", "restart", "returned"}
    /\ k \in Threads
    /\ ran \in [DOMAIN Lines -> Nat]

\* When process_file returns, every operation of the file was run, by one
\* thread and once, however often the threads were stopped and started again.
EveryLineRan ==
    main = "returned" =>
        \A l \in DOMAIN Lines :
            ran[l] = IF Lines[l].op \in OpNames THEN 1 ELSE 0

Running == {line[t] : t \in {u \in Threads : req[u] # None}}

Order == INSTANCE JobOrder WITH running <- Running

\* The operations run in the order that JobOrder allows: none begins before all
\* operations above the last BARRIER have ended.
OrderSpec == Order!Spec

------------------------------------------------------------------------------
(***************************************************************************)
(* Why OrderSpec holds: the invariant that its proof uses.                 *)
(***************************************************************************)
\* The line of a thread is what it has read, and the operations of its own up
\* to that line, and no other, are what it has begun.
LinesInv ==
    \A t \in Threads :
        /\ \A l \in DOMAIN Lines :
              Executes(t, l) =>
                  ran[l] = IF l <= line[t] /\ Lines[l].op \in OpNames
                           THEN 1 ELSE 0
        /\ req[t] # None =>
              /\ life[t] = "running"
              /\ line[t] \in DOMAIN Lines
              /\ Executes(t, line[t])
              /\ Lines[line[t]].op \in OpNames
        /\ life[t] = "ended" <=> line[t] > Len(Lines)
        /\ life[t] = "stopped" => barried[t]
        /\ barried[t] => line[t] \in Barriers /\ life[t] # "none"
        /\ life[t] = "none" => line[t] = 0

\* Where the main thread is tells how far the threads are.
MainInv ==
    /\ main = "create" => \A t \in Threads : life[t] = "none" <=> t >= k
    /\ main # "create" => \A t \in Threads : life[t] # "none"
    /\ \A t \in Threads : results[t] = 0 => life[t] = "ended"
    /\ main = "join" =>
          \A t \in Threads : t < k /\ results[t] = 1 => life[t] = "stopped"
    /\ main = "restart" =>
          \A t, u \in Threads : results[t] = results[u]
    /\ main = "returned" => \A t \in Threads : results[t] = 0

\* A thread that has been started again after barrier b, or never saw it.
Passed(t, b) == \/ line[t] > b
                \/ line[t] = b /\ barried[t] /\ life[t] = "running"

Reached(t, b) == line[t] > b \/ (line[t] = b /\ barried[t])

\* No thread passes a barrier that another one has not reached.  While the main
\* thread joins them, all have passed the same barriers; while it starts them
\* again, those it has not come to are at the barrier that the others passed.
StepInv ==
    /\ \A t, u \in Threads : \A b \in Barriers : Passed(t, b) => Reached(u, b)
    /\ main = "create" => \A t \in Threads : \A b \in Barriers : ~Passed(t, b)
    /\ main = "join" =>
          \A t, u \in Threads : \A b \in Barriers : Passed(t, b) => Passed(u, b)
    /\ main = "restart" =>
          \A t, u \in Threads :
              u >= k /\ results[u] = 1 =>
                  /\ life[u] = "stopped"
                  /\ t < k => Passed(t, line[u])
                  /\ t >= k => line[t] = line[u]

ThreadsInv == ThreadsTypeOK /\ LinesInv /\ MainInv /\ StepInv

==============================================================================
