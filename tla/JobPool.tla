------------------------------- MODULE JobPool -------------------------------
(***************************************************************************)
(* The process pool: main() of projeto1 reads a directory and forks one    *)
(* child for each jobs file, at most MaxProc at a time.  Source:           *)
(* projeto1/main.c.                                                        *)
(*                                                                         *)
(* One of the children, the observed one, runs the threads of JobThreads;  *)
(* of the others only their life is modelled, because processes share no   *)
(* memory.  They do share what the parent has printed and not yet written  *)
(* when it forks: stdout is a buffer unless it is a terminal, a child      *)
(* inherits a copy of it and exit() writes it out.                         *)
(***************************************************************************)
EXTENDS JobThreads

CONSTANTS Directory,  \* Directory[e]: whether entry e is a .jobs file
          MaxProc     \* MAX_PROC

ASSUME PoolAssumption == Directory \in Seq(BOOLEAN) /\ MaxProc \in Nat \ {0}

VARIABLES
    terminal,   \* whether stdout is a terminal
    observed,   \* the observed child
    entry,      \* the next entry readdir returns
    counter,    \* process_counter
    parent,     \* where the parent is: reading, forking, draining, exited
    child,      \* child[e]: unborn, running, hung, zombie or reaped
    buffer,     \* the children whose end the parent has reported to its buffer
    inherited,  \* inherited[e]: what the buffer held when e was forked
    reports     \* reports[e]: how often the end of e was written to stdout

pool == <<entry, counter, parent, child, buffer, inherited, reports>>
vars == <<threads, terminal, observed, pool>>

Entries == DOMAIN Directory
JobFiles == {e \in Entries : Directory[e]}

Init ==
    /\ ThreadsInit
    /\ terminal \in BOOLEAN
    /\ observed \in JobFiles
    /\ entry = 1
    /\ counter = 0
    /\ parent = "reading"
    /\ child = [e \in Entries |-> "unborn"]
    /\ buffer = {}
    /\ inherited = [e \in Entries |-> {}]
    /\ reports = [e \in Entries |-> 0]

Flushed(written) == [e \in Entries |->
                        reports[e] + IF e \in written THEN 1 ELSE 0]

------------------------------------------------------------------------------
(***************************************************************************)
(* The parent.                                                             *)
(***************************************************************************)
ReadEntry ==
    /\ parent = "reading"
    /\ IF entry \notin Entries
       THEN parent' = "draining" /\ UNCHANGED entry
       ELSE IF Directory[entry]
       THEN parent' = "forking" /\ UNCHANGED entry
       ELSE entry' = entry + 1 /\ UNCHANGED parent
    /\ UNCHANGED <<counter, child, buffer, inherited, reports>>

Fork ==
    /\ parent = "forking"
    /\ counter < MaxProc
    /\ child' = [child EXCEPT ![entry] = "running"]
    /\ inherited' = [inherited EXCEPT ![entry] = buffer]
    /\ counter' = counter + 1
    /\ entry' = entry + 1
    /\ parent' = "reading"
    /\ UNCHANGED <<buffer, reports>>

\* Mutated form: a fork that failed is counted.
ForkFailsCounted ==
    /\ parent = "forking"
    /\ counter < MaxProc
    /\ counter' = counter + 1
    /\ entry' = entry + 1
    /\ parent' = "reading"
    /\ UNCHANGED <<child, buffer, inherited, reports>>

\* The file is left out.
ForkFails ==
    /\ parent = "forking"
    /\ counter < MaxProc
    /\ entry' = entry + 1
    /\ parent' = "reading"
    /\ UNCHANGED <<counter, child, buffer, inherited, reports>>

\* wait() returns some child that has ended, and the parent reports it.
Reap(e) ==
    /\ \/ parent = "forking" /\ counter >= MaxProc
       \/ parent = "draining" /\ counter > 0
    /\ child[e] = "zombie"
    /\ child' = [child EXCEPT ![e] = "reaped"]
    /\ counter' = counter - 1
    /\ IF terminal THEN reports' = Flushed({e}) /\ UNCHANGED buffer
                   ELSE buffer' = buffer \cup {e} /\ UNCHANGED reports
    /\ UNCHANGED <<entry, parent, inherited>>

\* Mutated form: the parent ends without writing its buffer out.
ParentExitUnflushed ==
    /\ parent = "draining"
    /\ counter = 0
    /\ parent' = "exited"
    /\ UNCHANGED <<entry, counter, child, buffer, inherited, reports>>

ParentExit ==
    /\ parent = "draining"
    /\ counter = 0
    /\ reports' = Flushed(buffer)
    /\ parent' = "exited"
    /\ UNCHANGED <<entry, counter, child, buffer, inherited>>

ParentStep == \/ ReadEntry
              \/ Fork
              \/ ForkFails
              \/ \E e \in Entries : Reap(e)
              \/ ParentExit

------------------------------------------------------------------------------
(***************************************************************************)
(* The children.                                                           *)
(***************************************************************************)
ChildExit(e) ==
    /\ child[e] = "running"
    /\ e = observed => main = "returned"
    /\ child' = [child EXCEPT ![e] = "zombie"]
    /\ reports' = Flushed(inherited[e])
    /\ UNCHANGED <<entry, counter, parent, buffer, inherited>>

\* A child that is not observed may wait for a lock for good.
ChildHangs(e) ==
    /\ child[e] = "running"
    /\ e # observed
    /\ child' = [child EXCEPT ![e] = "hung"]
    /\ UNCHANGED <<entry, counter, parent, buffer, inherited, reports>>

\* A child that is ended by a signal writes nothing.
ChildKilled(e) ==
    /\ child[e] \in {"running", "hung"}
    /\ child' = [child EXCEPT ![e] = "zombie"]
    /\ UNCHANGED <<entry, counter, parent, buffer, inherited, reports>>

ChildEnds(e) == ChildExit(e) \/ ChildHangs(e)

PoolNext == \/ ParentStep
            \/ \E e \in Entries : ChildEnds(e) \/ ChildKilled(e)

At(step) == child[observed] = "running" /\ step

Next ==
    /\ UNCHANGED <<terminal, observed>>
    /\ \/ At(ThreadsNext) /\ UNCHANGED pool
       \/ PoolNext /\ UNCHANGED threads

Spec == Init /\ [][Next]_vars

\* The scheduler runs every process and every thread that can run: all of them
\* take finitely many steps, so that one of them never keeps another one out.
\* Nobody has to be killed.
Others == UNCHANGED <<threads, terminal, observed>>

FairSpec ==
    /\ Spec
    /\ WF_vars(ParentStep /\ Others)
    /\ WF_vars((\E e \in Entries : ChildEnds(e)) /\ Others)
    /\ WF_vars(At(ThreadsNext) /\ UNCHANGED <<terminal, observed, pool>>)

------------------------------------------------------------------------------
(***************************************************************************)
(* Properties.                                                             *)
(***************************************************************************)
Alive == {e \in Entries : child[e] \in {"running", "hung", "zombie"}}

\* process_counter is the number of children that were not waited for yet, so
\* that there are never more than MAX_PROC at a time, and none is left when the
\* parent ends, whichever of them ended first, were killed or never started.
PoolBound ==
    /\ counter = Cardinality(Alive)
    /\ counter <= MaxProc
    /\ parent = "exited" => Alive = {}

\* The end of each child is reported, and once if stdout is a terminal.  (If it
\* is a file or a pipe, each child that is forked later reports it once more.)
EndsReported ==
    parent = "exited" =>
        \A e \in JobFiles : child[e] = "reaped" =>
            /\ reports[e] >= 1
            /\ terminal => reports[e] = 1

\* The parent ends, unless a child waits for good: the observed one only does
\* after an ems_create that left the list locked.
PoolEnds ==
    <>(\/ parent = "exited"
       \/ Leaked
       \/ \E e \in Entries : child[e] = "hung")

\* An operation that a thread has begun returns (operations.h:18, "@return 0 if
\* the event was created successfully, 1 otherwise").
OpsReturn ==
    \A t \in Threads :
        (req[t] # None /\ child[observed] = "running")
            ~> (req[t] = None \/ child[observed] # "running")

==============================================================================
