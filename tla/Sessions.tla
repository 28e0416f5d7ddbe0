------------------------------ MODULE Sessions -------------------------------
(***************************************************************************)
(* Clients, host and session threads ("workers") together: a client makes  *)
(* its two pipes, asks for a session, exchanges requests and answers with  *)
(* the worker that serves it, and quits.                                   *)
(* Source: projeto2/client/api.c, client/main.c, server/sessionFn.c and,   *)
(* through PathQueue, server/hostFn.c and server/pathQueue.c.              *)
(*                                                                         *)
(* What a request asks for does not matter here: ServerOps models that,    *)
(* and shows that every operation returns.                                 *)
(***************************************************************************)
EXTENDS PathQueue, FiniteSets

CONSTANTS MaxRequests,  \* bound: requests per client
          MayCrash,     \* the clients that may be killed
          MayFailMkfifo,\* the clients whose response pipe cannot be made
          Spaced,       \* whether clients come and go one by one
          Spurious      \* whether pthread_cond_wait may wake without a signal

ASSUME SessionsAssumption ==
    /\ MaxRequests \in Nat
    /\ MayCrash \subseteq Clients
    /\ MayFailMkfifo \subseteq Clients
    /\ Spaced \in BOOLEAN /\ Spurious \in BOOLEAN
    /\ None \notin Clients \cup Workers
    /\ Clients \cap Workers = {}

VARIABLES
    up,       \* whether the server process runs
    wpc,      \* where each worker is
    opcode,   \* OP_CODE of each worker, None before it was first read
    request,  \* request[w]: the request that w serves, <<client, number>>
    cpc,      \* where each client is
    sent,     \* sent[c]: the requests c has sent
    heard,    \* heard[c]: the answer c read last
    fifos, readers, writers, met, content

Pipes == INSTANCE NamedPipes WITH Pipes <- Paths

pipeVars == <<fifos, readers, writers, met, content>>
sessionVars == <<up, wpc, opcode, request>>
clientVars == <<cpc, sent, heard>>
vars == <<queueVars, pipeVars, sessionVars, clientVars>>

Init ==
    /\ QueueInit
    /\ Pipes!PipesInit
    /\ up = TRUE
    /\ wpc = [w \in Workers |-> "take"]
    /\ opcode = [w \in Workers |-> None]
    /\ request = [w \in Workers |-> None]
    /\ cpc = [c \in Clients |-> "start"]
    /\ sent = [c \in Clients |-> 0]
    /\ heard = [c \in Clients |-> None]

GoWorker(w, from, to) == /\ wpc[w] = from
                         /\ wpc' = [wpc EXCEPT ![w] = to]

GoClient(c, from, to) == /\ cpc[c] = from
                         /\ cpc' = [cpc EXCEPT ![c] = to]

------------------------------------------------------------------------------
(***************************************************************************)
(* The client: ems_setup, one call after the other, ems_quit.              *)
(***************************************************************************)
\* With Spaced, a client asks for a session only when the host has dealt with
\* the one before and no worker is on its way to the queue: workers without a
\* session are asleep, and those whose client has quit have noticed it.
HostIdle == serverPipe = <<>> /\ host = "read"

WorkersSettled ==
    \A w \in Workers : IF wpc[w] = "take"
                       THEN w \in waiting /\ taken[w] = <<>>
                       ELSE cpc[taken[w][1][1]] # "done"

Connect(c, made) ==
    /\ Spaced => HostIdle /\ WorkersSettled
    /\ GoClient(c, "start", "openReq")
    /\ fifos' = fifos \cup made
    /\ serverPipe' = Append(serverPipe, c)
    /\ UNCHANGED <<host, client, queue, waiting, taken, readers, writers, met,
                   content, sessionVars, sent, heard>>

Setup(c) == Connect(c, {ReqPath(c), RespPath(c)})

\* When the second mkfifo fails the first pipe is removed, but the request for
\* a session is sent all the same.
SetupWithoutPipes(c) == /\ c \in MayFailMkfifo
                        /\ Connect(c, {})

ClientOpenReq(c) ==
    /\ GoClient(c, "openReq", "openReqWait")
    /\ Pipes!OpenWrite(c, ReqPath(c))
    /\ UNCHANGED <<queueVars, sessionVars, sent, heard>>

ClientOpenFails(c) ==
    /\ ReqPath(c) \notin fifos
    /\ GoClient(c, "openReq", "dead")
    /\ UNCHANGED <<queueVars, pipeVars, sessionVars, sent, heard>>

ClientReqOpened(c) ==
    /\ Pipes!Opened(c, ReqPath(c))
    /\ GoClient(c, "openReqWait", "openResp")
    /\ UNCHANGED <<queueVars, pipeVars, sessionVars, sent, heard>>

ClientOpenResp(c) ==
    /\ GoClient(c, "openResp", "openRespWait")
    /\ Pipes!OpenRead(c, RespPath(c))
    /\ UNCHANGED <<queueVars, sessionVars, sent, heard>>

ClientRespOpened(c) ==
    /\ Pipes!Opened(c, RespPath(c))
    /\ GoClient(c, "openRespWait", "readId")
    /\ UNCHANGED <<queueVars, pipeVars, sessionVars, sent, heard>>

\* read() from the response pipe, for the session identifier or for an answer.
\* A read of nothing (end of file) is not told from a read of something.
Receive(c, from) ==
    /\ GoClient(c, from, "ready")
    /\ \/ /\ Pipes!Read(RespPath(c))
          /\ heard' = [heard EXCEPT ![c] = Head(content[RespPath(c)])]
       \/ /\ Pipes!AtEnd(RespPath(c))
          /\ UNCHANGED <<pipeVars, heard>>
    /\ UNCHANGED <<queueVars, sessionVars, sent>>

\* Mutated form: ems_setup returns without reading the session identifier.
ReadNoId(c) ==
    /\ GoClient(c, "readId", "ready")
    /\ UNCHANGED <<queueVars, pipeVars, sessionVars, sent, heard>>

ReadId(c)     == Receive(c, "readId")
ReadAnswer(c) == Receive(c, "await")

\* ems_create, ems_reserve, ems_show and ems_list_events up to the answer.
SendRequest(c) ==
    /\ sent[c] < MaxRequests
    /\ GoClient(c, "ready", "await")
    /\ Pipes!Write(ReqPath(c), <<"serve", <<c, sent[c] + 1>>>>)
    /\ sent' = [sent EXCEPT ![c] = @ + 1]
    /\ UNCHANGED <<queueVars, sessionVars, heard>>

\* ems_quit writes and closes without a pause that anybody could tell.
Quit(c) ==
    /\ Spaced => HostIdle
    /\ GoClient(c, "ready", "done")
    /\ ~ Pipes!Broken(ReqPath(c))
    /\ content' = [content EXCEPT ![ReqPath(c)] =
                       Append(@, <<"quit", None>>)]
    /\ Pipes!CloseAll({c})
    /\ UNCHANGED <<queueVars, sessionVars, sent, heard>>

\* A write to a pipe that nobody reads any more kills the client (SIGPIPE).
ClientBroken(c) ==
    /\ GoClient(c, "ready", "dead")
    /\ Pipes!Broken(ReqPath(c))
    /\ Pipes!CloseAll({c})
    /\ UNCHANGED <<queueVars, content, sessionVars, sent, heard>>

Crash(c) ==
    /\ c \in MayCrash
    /\ cpc[c] \notin {"start", "done", "dead"}
    /\ cpc' = [cpc EXCEPT ![c] = "dead"]
    /\ Pipes!CloseAll({c})
    /\ UNCHANGED <<queueVars, content, sessionVars, sent, heard>>

------------------------------------------------------------------------------
(***************************************************************************)
(* The worker: session_fn.                                                 *)
(***************************************************************************)
ReqPipe(w)  == taken[w][1]
RespPipe(w) == taken[w][2]

Take(w) ==
    /\ TakePaths(w)
    /\ GoWorker(w, "take", IF Len(taken'[w]) = 2 THEN "openReq" ELSE "take")
    /\ UNCHANGED <<pipeVars, up, opcode, request, clientVars>>

\* exit() or SIGPIPE in one thread ends the process: every end the server has
\* open is closed.
ServerDies ==
    /\ up' = FALSE
    /\ Pipes!CloseAll(Workers)
    /\ UNCHANGED <<queueVars, content, wpc, opcode, request, clientVars>>

OpenReq(w) ==
    /\ GoWorker(w, "openReq", "openReqWait")
    /\ Pipes!OpenRead(w, ReqPipe(w))
    /\ UNCHANGED <<queueVars, up, opcode, request, clientVars>>

OpenFails(w) ==
    /\ \/ wpc[w] = "openReq" /\ ReqPipe(w) \notin fifos
       \/ wpc[w] = "openResp" /\ RespPipe(w) \notin fifos
    /\ ServerDies

ReqOpened(w) ==
    /\ GoWorker(w, "openReqWait", "openResp")
    /\ Pipes!Opened(w, ReqPipe(w))
    /\ UNCHANGED <<queueVars, pipeVars, up, opcode, request, clientVars>>

OpenResp(w) ==
    /\ GoWorker(w, "openResp", "openRespWait")
    /\ Pipes!OpenWrite(w, RespPipe(w))
    /\ UNCHANGED <<queueVars, up, opcode, request, clientVars>>

RespOpened(w) ==
    /\ GoWorker(w, "openRespWait", "sendId")
    /\ Pipes!Opened(w, RespPipe(w))
    /\ UNCHANGED <<queueVars, pipeVars, up, opcode, request, clientVars>>

SendId(w) ==
    /\ GoWorker(w, "sendId", "active")
    /\ Pipes!Write(RespPipe(w), <<"id", w>>)
    /\ UNCHANGED <<queueVars, up, opcode, request, clientVars>>

EndSession(w) ==
    /\ GoWorker(w, "active", "take")
    /\ taken' = [taken EXCEPT ![w] = <<>>]
    /\ readers' = [readers EXCEPT ![ReqPipe(w)] = @ \ {w}]
    /\ writers' = [writers EXCEPT ![RespPipe(w)] = @ \ {w}]
    /\ UNCHANGED <<serverPipe, host, client, queue, waiting>>

\* Mutated form: the case of quit has no break.
ReadQuitFallsThrough(w) ==
    /\ GoWorker(w, "active", "answer")
    /\ content[ReqPipe(w)] # <<>>
    /\ Head(content[ReqPipe(w)])[1] = "quit"
    /\ Pipes!Read(ReqPipe(w))
    /\ UNCHANGED <<queueVars, up, opcode, request, clientVars>>

ReadQuit(w) ==
    /\ wpc[w] = "active"
    /\ content[ReqPipe(w)] # <<>>
    /\ Head(content[ReqPipe(w)])[1] = "quit"
    /\ content' = [content EXCEPT ![ReqPipe(w)] = Tail(@)]
    /\ opcode' = [opcode EXCEPT ![w] = "quit"]
    /\ EndSession(w)
    /\ UNCHANGED <<fifos, met, up, request, clientVars>>

ReadRequest(w) ==
    /\ GoWorker(w, "active", "answer")
    /\ content[ReqPipe(w)] # <<>>
    /\ LET m == Head(content[ReqPipe(w)])
       IN  /\ m[1] = "serve"
           /\ request' = [request EXCEPT ![w] = m[2]]
    /\ opcode' = [opcode EXCEPT ![w] = "serve"]
    /\ Pipes!Read(ReqPipe(w))
    /\ UNCHANGED <<queueVars, up, clientVars>>

\* At end of file read() returns 0 and OP_CODE keeps its value, which is
\* handled once more; before the first read it holds whatever was on the stack.
RepeatQuit(w) ==
    /\ wpc[w] = "active"
    /\ Pipes!AtEnd(ReqPipe(w))
    /\ opcode[w] \in {"quit", None}
    /\ opcode' = [opcode EXCEPT ![w] = "quit"]
    /\ EndSession(w)
    /\ UNCHANGED <<fifos, met, content, up, request, clientVars>>

RepeatRequest(w) ==
    /\ GoWorker(w, "active", "answer")
    /\ Pipes!AtEnd(ReqPipe(w))
    /\ opcode[w] \in {"serve", None}
    /\ opcode' = [opcode EXCEPT ![w] = "serve"]
    /\ UNCHANGED <<queueVars, pipeVars, up, request, clientVars>>

RepeatUnknown(w) ==
    /\ wpc[w] = "active"
    /\ Pipes!AtEnd(ReqPipe(w))
    /\ opcode[w] \in {"unknown", None}
    /\ opcode' = [opcode EXCEPT ![w] = "unknown"]
    /\ UNCHANGED <<queueVars, pipeVars, up, wpc, request, clientVars>>

SendAnswer(w) ==
    /\ GoWorker(w, "answer", "active")
    /\ Pipes!Write(RespPipe(w), <<"answer", request[w]>>)
    /\ UNCHANGED <<queueVars, up, opcode, request, clientVars>>

\* A write to a response pipe that nobody reads raises SIGPIPE.
WriteBroken(w) ==
    /\ wpc[w] \in {"sendId", "answer"}
    /\ Pipes!Broken(RespPipe(w))
    /\ ServerDies

SpuriousWakeUp(w) ==
    /\ Spurious
    /\ WakeUp(w)
    /\ UNCHANGED <<pipeVars, sessionVars, clientVars>>

------------------------------------------------------------------------------
Host ==
    /\ up
    /\ HostRequest \/ HostResponse \/ HostSignal
    /\ UNCHANGED <<pipeVars, sessionVars, clientVars>>

Worker(w) ==
    /\ up
    /\ \/ Take(w)
       \/ OpenReq(w)
       \/ OpenFails(w)
       \/ ReqOpened(w)
       \/ OpenResp(w)
       \/ RespOpened(w)
       \/ SendId(w)
       \/ ReadQuit(w)
       \/ ReadRequest(w)
       \/ RepeatQuit(w)
       \/ RepeatRequest(w)
       \/ RepeatUnknown(w)
       \/ SendAnswer(w)
       \/ WriteBroken(w)

\* What a client that has asked for a session does, unless it is killed.
Client(c) == \/ ClientOpenReq(c)
             \/ ClientOpenFails(c)
             \/ ClientReqOpened(c)
             \/ ClientOpenResp(c)
             \/ ClientRespOpened(c)
             \/ ReadId(c)
             \/ SendRequest(c)
             \/ ReadAnswer(c)
             \/ Quit(c)
             \/ ClientBroken(c)

\* Every client has ended: the server waits for more.
Quiet == /\ \A c \in Clients : cpc[c] \in {"done", "dead"}
         /\ UNCHANGED vars

Next == \/ Host
        \/ \E w \in Workers : Worker(w) \/ (up /\ SpuriousWakeUp(w))
        \/ \E c \in Clients : \/ Setup(c)
                              \/ SetupWithoutPipes(c)
                              \/ Client(c)
                              \/ Crash(c)
        \/ Quiet

Spec == Init /\ [][Next]_vars

\* Every thread and every client process that can run does run.  Nobody has to
\* come as a client, and nobody has to be killed.
FairSpec == /\ Spec
            /\ WF_vars(Host)
            /\ \A w \in Workers : WF_vars(Worker(w))
            /\ \A c \in Clients : WF_vars(Client(c))

------------------------------------------------------------------------------
(***************************************************************************)
(* Properties.                                                             *)
(***************************************************************************)
Messages == {<<"id", w>> : w \in Workers}
            \cup {<<k, <<c, n>>>> : k \in {"serve", "answer"}, c \in Clients,
                                    n \in 1 .. MaxRequests}
            \cup {<<"quit", None>>, <<"answer", None>>}

WorkerPlaces == {"take", "openReq", "openReqWait", "openResp", "openRespWait",
                 "sendId", "active", "answer"}
ClientPlaces == {"start", "openReq", "openReqWait", "openResp", "openRespWait",
                 "readId", "ready", "await", "done", "dead"}

\* Every variable has its type, and a worker is in a session exactly while it
\* has two paths.
TypeOK ==
    /\ serverPipe \in Seq(Clients)
    /\ host \in {"read", "response", "signal"}
    /\ client \in Clients \cup {None}
    /\ host # "read" => client # None
    /\ queue \in Seq(Paths)
    /\ waiting \subseteq {w \in Workers : wpc[w] = "take"}
    /\ taken \in [Workers -> Seq(Paths)]
    /\ \A w \in Workers : IF wpc[w] = "take" THEN Len(taken[w]) < 2
                                             ELSE Len(taken[w]) = 2
    /\ fifos \subseteq Paths
    /\ readers \in [Paths -> SUBSET (Clients \cup Workers)]
    /\ writers \in [Paths -> SUBSET (Clients \cup Workers)]
    /\ met \subseteq (Clients \cup Workers) \X Paths
    /\ content \in [Paths -> Seq(Messages)]
    /\ up \in BOOLEAN
    /\ wpc \in [Workers -> WorkerPlaces]
    /\ opcode \in [Workers -> {None, "serve", "quit", "unknown"}]
    /\ request \in [Workers -> (Clients \X (1 .. MaxRequests)) \cup {None}]
    /\ cpc \in [Clients -> ClientPlaces]
    /\ sent \in [Clients -> 0 .. MaxRequests]
    /\ heard \in [Clients -> Messages \cup {None}]

\* A session thread reads and writes the pipes of ONE client, each in its role.
ClientsPipes ==
    \A w \in Workers :
        Len(taken[w]) = 2 =>
            \E c \in Clients : taken[w] = <<ReqPath(c), RespPath(c)>>

\* The places where a path can be on its way from its client to a worker.
Copies(p) ==
    Cardinality({i \in DOMAIN serverPipe : serverPipe[i] = p[1]})
    + (IF host = "response" /\ p = RespPath(client) THEN 1 ELSE 0)
    + Cardinality({i \in DOMAIN queue : queue[i] = p})
    + Cardinality({w \in Workers : \E i \in DOMAIN taken[w] : taken[w][i] = p})

\* No path is lost or handed to two workers: it is in one place as long as its
\* client waits for somebody to open it, and never in two.
PathsConserved ==
    \A c \in Clients : \A p \in {ReqPath(c), RespPath(c)} :
        /\ Copies(p) <= 1
        /\ cpc[c] \in {"openReq", "openReqWait"} => Copies(p) = 1

\* The answer a client goes on with is the one to its own last request: neither
\* an earlier answer, nor the session identifier, nor another client's answer.
AnswersMatch ==
    \A c \in Clients :
        up /\ cpc[c] = "ready" =>
            IF sent[c] = 0 THEN heard[c] \in {<<"id", w>> : w \in Workers}
                           ELSE heard[c] = <<"answer", <<c, sent[c]>>>>

\* No session thread sleeps on the condition with a path in the queue, unless a
\* signal is still to come or another session thread is awake to take it.
NoLostWakeup ==
    queue # <<>> /\ host = "read" /\ waiting # {} =>
        \E w \in Workers : wpc[w] = "take" /\ w \notin waiting

\* The server ends only when some client was killed or has asked for a session
\* without having made its pipes: clients that come, are served and quit never
\* end it.
DiesOnlyOfClient ==
    ~ up => \E c \in Clients : \/ cpc[c] = "dead"
                               \/ cpc[c] # "start" /\ ReqPath(c) \notin fifos

\* A session thread begins an operation only for the request that its client is
\* waiting for, never for an earlier one: who was killed is exempt.
BeginsAsked ==
    \A w \in Workers, c \in Clients :
        wpc[w] = "active" /\ wpc'[w] = "answer" /\ ReqPipe(w) = ReqPath(c)
            => \/ cpc[c] = "dead"
               \/ cpc[c] = "await" /\ request'[w] = <<c, sent[c]>>

OperationsAreAsked == [][BeginsAsked]_vars

\* A session thread executes a request of its client once: from the end of one
\* operation it goes to another one only for a request that it has not had.
RequestsOnce ==
    [][\A w \in Workers :
          wpc[w] = "active" /\ wpc'[w] = "answer" /\ request[w] # None
             => request'[w] # request[w]]_vars

\* A client that has asked for a session gets through its requests and quits.
AllServed == \A c \in Clients : cpc[c] # "start" ~> cpc[c] = "done"

\* The clients whose second path is in a queue q of paths.  The host enqueues
\* request and response paths by turns, so that every second path of the queue is
\* a response path, from the first or the second one on.
FirstResp(q) == IF q # <<>> /\ Head(q)[2] = "resp" THEN 1 ELSE 2

Seconds(q) == [i \in 1 .. (Len(q) + 2 - FirstResp(q)) \div 2 |->
                  q[FirstResp(q) + 2 * (i - 1)][1]]

\* The clients that asked for a session and whose second path is not yet taken.
Reading == IF host = "response" THEN <<client>> ELSE <<>>

Backlog == Seconds(queue) \o Reading \o serverPipe

Serving == [w \in Workers |-> IF Len(taken[w]) = 2 THEN taken[w][1][1]
                                                  ELSE None]

Service == INSTANCE SessionService WITH backlog <- Backlog, serving <- Serving

\* Clients get sessions in the order they asked, one worker each: the queue of
\* single paths does what SessionService promises.
ServiceSpec == Service!Spec

------------------------------------------------------------------------------
(***************************************************************************)
(* The invariant that holds with any number of workers.                    *)
(***************************************************************************)
\* A path is in one place: each of these is empty but for one, which has it
\* once.
Distinct(s) == \A i, j \in DOMAIN s : s[i] = s[j] => i = j

InPipe(c)   == \E i \in DOMAIN serverPipe : serverPipe[i] = c
WithHost(p) == host = "response" /\ p = RespPath(client)
InQueue(p)  == \E i \in DOMAIN queue : queue[i] = p
Holds(w, p) == \E i \in DOMAIN taken[w] : taken[w][i] = p

PathInv(p) ==
    /\ InPipe(p[1]) => ~ WithHost(p) /\ ~ InQueue(p)
    /\ WithHost(p) => ~ InQueue(p)
    /\ \A w \in Workers : Holds(w, p) =>
          /\ ~ InPipe(p[1]) /\ ~ WithHost(p) /\ ~ InQueue(p)
          /\ \A v \in Workers : Holds(v, p) => v = w
    /\ cpc[p[1]] = "start" =>
          /\ ~ InPipe(p[1]) /\ ~ WithHost(p) /\ ~ InQueue(p)
          /\ \A w \in Workers : ~ Holds(w, p)
    /\ cpc[p[1]] \in {"openReq", "openReqWait"} =>
          \/ InPipe(p[1]) \/ WithHost(p) \/ InQueue(p)
          \/ \E w \in Workers : Holds(w, p)

PlacesInv ==
    /\ Distinct(serverPipe)
    /\ Distinct(queue)
    /\ \A w \in Workers : Distinct(taken[w])
    /\ \A p \in Paths : PathInv(p)

\* Who has which pipe open follows from where everybody is.
ReqOpen  == {"openReqWait", "openResp", "openRespWait", "sendId", "active",
             "answer"}
RespOpen == {"openRespWait", "sendId", "active", "answer"}
Talking  == {"sendId", "active", "answer"}

ClientReqOpen  == {"openReqWait", "openResp", "openRespWait", "readId", "ready",
                   "await"}
ClientRespOpen == {"openRespWait", "readId", "ready", "await"}

EndsInv ==
    /\ readers = [p \in Paths |->
          {w \in Workers : up /\ wpc[w] \in ReqOpen /\ ReqPipe(w) = p}
          \cup {c \in Clients : cpc[c] \in ClientRespOpen /\ RespPath(c) = p}]
    /\ writers = [p \in Paths |->
          {w \in Workers : up /\ wpc[w] \in RespOpen /\ RespPipe(w) = p}
          \cup {c \in Clients : cpc[c] \in ClientReqOpen /\ ReqPath(c) = p}]

\* When an open has met a partner, the pipe was made, its path has left the
\* queue, its client and the worker that has the path have opened it as what
\* it was made for.
MetInv(p) ==
    /\ p \in fifos
    /\ ~ InPipe(p[1]) /\ ~ WithHost(p) /\ ~ InQueue(p)
    /\ IF p[2] = "req"
       THEN /\ cpc[p[1]] \in ClientReqOpen \cup {"done", "dead"}
            /\ \A w \in Workers : Holds(w, p) =>
                  wpc[w] \in ReqOpen /\ ReqPipe(w) = p
       ELSE /\ cpc[p[1]] \in ClientRespOpen \cup {"done", "dead"}
            /\ \A w \in Workers : Holds(w, p) =>
                  wpc[w] \in RespOpen /\ RespPipe(w) = p

OpensInv ==
    /\ \A m \in met : MetInv(m[2])
    /\ \A w \in Workers :
          /\ wpc[w] \in ReqOpen \ {"openReqWait"} => <<w, ReqPipe(w)>> \in met
          /\ wpc[w] \in Talking => <<w, RespPipe(w)>> \in met

\* Both pipes of a client are made, or none; a request to quit is its last one.
PipesInv ==
    \A c \in Clients :
        /\ ReqPath(c) \in fifos <=> RespPath(c) \in fifos
        /\ cpc[c] = "start" => ReqPath(c) \notin fifos
        /\ \A i \in DOMAIN content[ReqPath(c)] :
              content[ReqPath(c)][i][1] = "quit" => cpc[c] = "done"

PathsInv == TypeOK /\ PlacesInv /\ EndsInv /\ OpensInv /\ PipesInv

------------------------------------------------------------------------------
(***************************************************************************)
(* The invariant of a session, which holds as long as ClientsPipes does.   *)
(***************************************************************************)
Pair(c) == <<ReqPath(c), RespPath(c)>>

Ids == {<<"id", w>> : w \in Workers}

\* What is in the two pipes of c.
InPipes(c, requests, answers) ==
    content[ReqPath(c)] = requests /\ content[RespPath(c)] = answers

HeardLast(c) == IF sent[c] = 0 THEN heard[c] \in Ids
                ELSE heard[c] = <<"answer", <<c, sent[c]>>>>

\* How far worker w and a client c that was not killed are with each other.
SessionOf(w, c) ==
    /\ wpc[w] \in {"openReq", "openReqWait", "openResp", "openRespWait", "sendId"} =>
          /\ InPipes(c, <<>>, <<>>)
          /\ cpc[c] \in {"openReq", "openReqWait", "openResp", "openRespWait",
                          "readId"}
    /\ wpc[w] = "active" =>
          \/ /\ cpc[c] \in {"openRespWait", "readId"}
             /\ InPipes(c, <<>>, << <<"id", w>> >>)
          \/ cpc[c] = "ready" /\ InPipes(c, <<>>, <<>>) /\ HeardLast(c)
          \/ /\ cpc[c] = "await"
             /\ \/ InPipes(c, << <<"serve", <<c, sent[c]>>>> >>, <<>>)
                \/ InPipes(c, <<>>, << <<"answer", <<c, sent[c]>>>> >>)
          \/ cpc[c] = "done" /\ InPipes(c, << <<"quit", None>> >>, <<>>)
    /\ wpc[w] = "answer" =>
          /\ cpc[c] = "await"
          /\ InPipes(c, <<>>, <<>>)
          /\ request[w] = <<c, sent[c]>>

\* A client that has met a worker is served by one.
ServedInv(c) ==
    cpc[c] \in ClientReqOpen /\ <<c, ReqPath(c)>> \in met =>
        \E w \in Workers : wpc[w] \in ReqOpen /\ taken[w] = Pair(c)

\* Nothing is in its pipes before a worker met it, and it met one before it
\* reads or writes.
ClientInv(c) ==
    /\ cpc[c] \in {"start", "openReq", "openReqWait", "openResp", "openRespWait",
                    "readId"} => sent[c] = 0
    /\ cpc[c] = "await" => sent[c] # 0
    /\ cpc[c] \in {"start", "openReq", "openReqWait"} => InPipes(c, <<>>, <<>>)
    /\ cpc[c] \in (ClientReqOpen \ {"openReqWait"}) \cup {"done"} =>
          <<c, ReqPath(c)>> \in met
    /\ cpc[c] \in ClientRespOpen \ {"openRespWait"} => <<c, RespPath(c)>> \in met

SessionInv ==
    /\ up => /\ \A c \in Clients : ClientInv(c) /\ ServedInv(c)
             /\ \A w \in Workers, c \in Clients :
                   taken[w] = Pair(c) /\ cpc[c] # "dead" => SessionOf(w, c)
    /\ DiesOnlyOfClient

------------------------------------------------------------------------------
(***************************************************************************)
(* The invariant of the queue, with one worker or spaced clients.          *)
(***************************************************************************)
OneWorkerOnly == \A v, w \in Workers : v = w
ClientsSpaced == Spaced /\ ~ Spurious /\ MayCrash = {}

\* A request path is followed by the response path of its client, which comes
\* from nowhere else: the path before it is in the queue or with a worker.
Followed(c, i) == IF i = Len(queue) THEN host = "response" /\ client = c
                                    ELSE queue[i + 1] = RespPath(c)

Preceded(c, i) == IF i = 1 THEN \E w \in Workers : taken[w] = <<ReqPath(c)>>
                           ELSE queue[i - 1] = ReqPath(c)

PairInv ==
    /\ \A c \in Clients :
          /\ \A i \in DOMAIN queue :
                /\ queue[i] = ReqPath(c) => Followed(c, i)
                /\ queue[i] = RespPath(c) => Preceded(c, i)
          /\ host = "response" /\ client = c => Preceded(c, Len(queue) + 1)
          /\ \A w \in Workers : taken[w] = <<ReqPath(c)>> => Followed(c, 0)
    /\ \A w \in Workers : Len(taken[w]) = 1 =>
          \E c \in Clients : taken[w] = <<ReqPath(c)>>
    /\ ClientsPipes

\* With one worker: it is not asleep beside work.
OneInv == host = "read" /\ waiting # {} => queue = <<>>

\* With spaced clients: while the host is busy nobody else is, no worker has a
\* single path, and a pair in the queue beside a sleeping worker is the one
\* that somebody was or will be woken for.
SpacedInv ==
    /\ up /\ ~ HostIdle => /\ WorkersSettled
                           /\ serverPipe # <<>> => Len(serverPipe) = 1 /\ host = "read"
    /\ \A w \in Workers : Len(taken[w]) # 1
    /\ waiting # {} /\ queue # <<>> =>
          Len(queue) = (IF host = "response" THEN 1 ELSE 2)
    /\ \A c \in Clients : up /\ cpc[c] = "dead" => ReqPath(c) \notin fifos

\* A worker takes paths only while no other has a single one.
TakesAlone ==
    \A w \in Workers : Take(w) => \A v \in Workers \ {w} : Len(taken[v]) # 1

\* The queue holds pairs, but for the halves that the host or a worker still has.
HalfTaken == \E w \in Workers : Len(taken[w]) = 1

Parity ==
    Len(queue) % 2 = IF host = "response" THEN IF HalfTaken THEN 0 ELSE 1
                                          ELSE IF HalfTaken THEN 1 ELSE 0

QueueInv ==
    /\ PairInv
    /\ NoLostWakeup
    /\ OneWorkerOnly => OneInv
    /\ ClientsSpaced => SpacedInv
    /\ Parity

\* All of it: inductive with one worker, or with spaced clients.
AllInv == PathsInv /\ SessionInv /\ QueueInv

==============================================================================
