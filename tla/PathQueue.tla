------------------------------ MODULE PathQueue ------------------------------
(***************************************************************************)
(* The buffer between the host thread, which reads connection requests,    *)
(* and the session threads ("workers"), which serve them: a FIFO queue of  *)
(* pipe paths under a mutex, with one condition variable.                  *)
(* Source: projeto2/server/pathQueue.c, hostFn.c and sessionFn.c.          *)
(*                                                                         *)
(* A critical section of pathQueue.mutex neither blocks nor shows anything *)
(* before it releases the mutex, so each is one step.  The two paths of a  *)
(* client are enqueued in two critical sections, and the condition is      *)
(* signalled outside of both.                                              *)
(***************************************************************************)
EXTENDS Integers, Sequences

CONSTANTS Clients,  \* the client processes
          Workers,  \* the session threads
          None      \* nobody, nothing

\* A pipe path: the client that made the pipe, and what it made it for.
ReqPath(c)  == <<c, "req">>
RespPath(c) == <<c, "resp">>
Paths == {ReqPath(c) : c \in Clients} \cup {RespPath(c) : c \in Clients}

VARIABLES
    serverPipe,  \* connection requests in the server's pipe
    host,        \* where the host is
    client,      \* the client whose request the host is reading
    queue,       \* pathQueue: the paths not yet taken
    waiting,     \* the workers asleep on pathQueue.not_empty
    taken        \* taken[w]: req_pipe_path and resp_pipe_path, as far as taken

queueVars == <<serverPipe, host, client, queue, waiting, taken>>

QueueInit ==
    /\ serverPipe = <<>>
    /\ host = "read"
    /\ client = None
    /\ queue = <<>>
    /\ waiting = {}
    /\ taken = [w \in Workers |-> <<>>]

------------------------------------------------------------------------------
(***************************************************************************)
(* The host.  A connection request is one write of at most PIPE_BUF bytes, *)
(* so the host finds it whole once its first byte is there.                *)
(***************************************************************************)
\* Mutated form: the path goes to the front of the queue.
EnqueueFront(path) == queue' = <<path>> \o queue

Enqueue(path) == queue' = Append(queue, path)

HostRequest ==
    /\ host = "read"
    /\ serverPipe # <<>>
    /\ client' = Head(serverPipe)
    /\ serverPipe' = Tail(serverPipe)
    /\ Enqueue(ReqPath(client'))
    /\ host' = "response"
    /\ UNCHANGED <<waiting, taken>>

HostResponse ==
    /\ host = "response"
    /\ Enqueue(RespPath(client))
    /\ host' = "signal"
    /\ UNCHANGED <<serverPipe, client, waiting, taken>>

\* Mutated form: the signal is sent to nobody.
HostNoSignal ==
    /\ host = "signal"
    /\ host' = "read"
    /\ UNCHANGED <<serverPipe, client, queue, waiting, taken>>

HostSignal ==
    /\ host = "signal"
    /\ IF waiting = {} THEN UNCHANGED waiting
       ELSE \E w \in waiting : waiting' = waiting \ {w}
    /\ host' = "read"
    /\ UNCHANGED <<serverPipe, client, queue, taken>>

------------------------------------------------------------------------------
(***************************************************************************)
(* A worker without a session takes two paths.  Whenever it finds the      *)
(* queue empty it goes to sleep; awake again, it goes on where it was.     *)
(***************************************************************************)
Lacks(w) == 2 - Len(taken[w])

Least(m, n) == IF m < n THEN m ELSE n

\* Mutated form: the worker starts again with the first path each time.
TakePathsAnew(w) ==
    LET k == Least(Lacks(w), Len(queue))
    IN  /\ w \notin waiting
        /\ Lacks(w) > 0
        /\ taken' = [taken EXCEPT ![w] = SubSeq(queue, 1, k)]
        /\ queue' = SubSeq(queue, k + 1, Len(queue))
        /\ waiting' = IF k < Lacks(w) THEN waiting \cup {w} ELSE waiting
        /\ UNCHANGED <<serverPipe, host, client>>

TakePaths(w) ==
    LET k == Least(Lacks(w), Len(queue))
    IN  /\ w \notin waiting
        /\ Lacks(w) > 0
        /\ taken' = [taken EXCEPT ![w] = @ \o SubSeq(queue, 1, k)]
        /\ queue' = SubSeq(queue, k + 1, Len(queue))
        /\ waiting' = IF k < Lacks(w) THEN waiting \cup {w} ELSE waiting
        /\ UNCHANGED <<serverPipe, host, client>>

\* pthread_cond_wait may return without a signal.
WakeUp(w) ==
    /\ w \in waiting
    /\ waiting' = waiting \ {w}
    /\ UNCHANGED <<serverPipe, host, client, queue, taken>>

==============================================================================
