--------------------------- MODULE SessionsProofs -----------------------------
(***************************************************************************)
(* Theorems about clients, queue and session threads.                      *)
(*                                                                         *)
(* PathsInv holds with any number of workers, and PathsConserved follows.  *)
(* SessionInv holds as long as every worker has the two pipes of one       *)
(* client (ClientsPipes), and AnswersMatch and DiesOnlyOfClient follow.    *)
(* That ClientsPipes does hold, with one worker or with clients that come  *)
(* and go one by one, is what QueueInv is for; in these two cases no       *)
(* wakeup is lost either, and Sessions implements SessionService.          *)
(***************************************************************************)
EXTENDS Sessions, SequenceTheorems, FiniteSetTheorems, TLAPS

------------------------------------------------------------------------------
(***************************************************************************)
(* Types.                                                                  *)
(***************************************************************************)

LEMMA PathFacts ==
    /\ \A c \in Clients :
          /\ ReqPath(c) \in Paths /\ ReqPath(c)[1] = c /\ ReqPath(c)[2] = "req"
          /\ RespPath(c) \in Paths /\ RespPath(c)[1] = c /\ RespPath(c)[2] = "resp"
    /\ \A p \in Paths :
          /\ p[1] \in Clients
          /\ \/ p = ReqPath(p[1]) /\ p[2] = "req"
             \/ p = RespPath(p[1]) /\ p[2] = "resp"
    /\ \A c, d \in Clients : /\ ReqPath(c) # RespPath(d)
                             /\ ReqPath(c) = ReqPath(d) => c = d
                             /\ RespPath(c) = RespPath(d) => c = d
<1>1. \A c \in Clients :
          /\ ReqPath(c) \in Paths /\ ReqPath(c)[1] = c /\ ReqPath(c)[2] = "req"
          /\ RespPath(c) \in Paths /\ RespPath(c)[1] = c /\ RespPath(c)[2] = "resp"
  BY DEF Paths, ReqPath, RespPath
<1>2. ASSUME NEW p \in Paths
      PROVE  \E c \in Clients : p = ReqPath(c) \/ p = RespPath(c)
  BY DEF Paths
<1>3. \A p \in Paths :
          /\ p[1] \in Clients
          /\ \/ p = ReqPath(p[1]) /\ p[2] = "req"
             \/ p = RespPath(p[1]) /\ p[2] = "resp"
  BY <1>1, <1>2
<1> QED
  BY <1>1, <1>3

LEMMA MessageFacts ==
    /\ \A w \in Workers : <<"id", w>> \in Messages
    /\ \A k \in {"serve", "answer"}, c \in Clients, n \in 1 .. MaxRequests :
          <<k, <<c, n>>>> \in Messages
    /\ <<"quit", None>> \in Messages /\ <<"answer", None>> \in Messages
    /\ \A m \in Messages :
          m[1] = "serve" => m[2] \in Clients \X (1 .. MaxRequests)
  BY DEF Messages

LEMMA AppendHas ==
    ASSUME NEW S, NEW s \in Seq(S), NEW e \in S, NEW p
    PROVE  (\E i \in DOMAIN Append(s, e) : Append(s, e)[i] = p)
              <=> (\E i \in DOMAIN s : s[i] = p) \/ p = e
<1>1. PICK n \in Nat : n = Len(s)
  OBVIOUS
<1>2. DOMAIN s = 1 .. n /\ DOMAIN Append(s, e) = 1 .. n + 1
  BY <1>1
<1>3. Append(s, e)[n + 1] = e /\ \A i \in 1 .. n : Append(s, e)[i] = s[i]
  BY <1>1
<1>4. n + 1 \in 1 .. n + 1 /\ \A i \in 1 .. n + 1 : i \in 1 .. n \/ i = n + 1
  OBVIOUS
<1>5. 1 .. n \subseteq 1 .. n + 1
  OBVIOUS
<1> QED
  BY <1>2, <1>3, <1>4, <1>5

LEMMA HostType ==
    ASSUME TypeOK, Host
    PROVE  TypeOK'
<1> USE DEF TypeOK, Host, pipeVars, sessionVars, clientVars
<1>1. CASE HostRequest
  <2>1. Head(serverPipe) \in Clients /\ Tail(serverPipe) \in Seq(Clients)
    BY <1>1 DEF HostRequest
  <2>2. Append(queue, ReqPath(Head(serverPipe))) \in Seq(Paths)
    BY <2>1, PathFacts
  <2> QED
    BY <1>1, <2>1, <2>2, SessionsAssumption DEF HostRequest, Enqueue
<1>2. CASE HostResponse
  <2>1. Append(queue, RespPath(client)) \in Seq(Paths)
    BY <1>2, PathFacts DEF HostResponse
  <2> QED
    BY <1>2, <2>1 DEF HostResponse, Enqueue
<1>3. CASE HostSignal
  BY <1>3 DEF HostSignal
<1> QED
  BY <1>1, <1>2, <1>3 DEF Host

LEMMA TakeType ==
    ASSUME TypeOK, NEW w \in Workers, Take(w)
    PROVE  /\ TypeOK'
           /\ \E n \in 0 .. 1, m \in Nat, k \in 0 .. 2 :
                /\ n = Len(taken[w]) /\ m = Len(queue)
                /\ k <= m /\ k <= 2 - n /\ (k = 2 - n \/ k = m)
                /\ queue' \in Seq(Paths) /\ taken'[w] \in Seq(Paths)
                /\ Len(queue') = m - k
                /\ \A i \in 1 .. m - k : queue'[i] = queue[i + k]
                /\ \A v \in Workers \ {w} : taken'[v] = taken[v]
                /\ Len(taken'[w]) = n + k
                /\ \A i \in 1 .. n + k :
                      taken'[w][i] = IF i <= n THEN taken[w][i] ELSE queue[i - n]
                /\ waiting' = IF n + k < 2 THEN waiting \cup {w} ELSE waiting
  <1>1. wpc[w] = "take"
    BY DEF Take, GoWorker
  <1>2. taken[w] \in Seq(Paths) /\ Len(taken[w]) < 2 /\ queue \in Seq(Paths)
        /\ DOMAIN taken = Workers
    BY <1>1 DEF TypeOK
  <1>3. PICK n \in 0 .. 1 : n = Len(taken[w])
    <2>1. Len(taken[w]) \in Nat
      BY <1>2, LenProperties
    <2>2. PICK l \in Nat : l = Len(taken[w])
      BY <2>1
    <2>3. l < 2
      BY <1>2, <2>2
    <2>4. l \in 0 .. 1
      BY <2>3
    <2> QED
      BY <2>2, <2>4
  <1>4. PICK m \in Nat : m = Len(queue)
    BY <1>2, LenProperties
  <1> DEFINE k == Least(2 - n, m)
  <1>5. k \in 0 .. 2 /\ k <= m /\ k <= 2 - n /\ (k = 2 - n \/ k = m)
        /\ (k < 2 - n <=> n + k < 2)
    BY DEF Least
  <1>6. /\ taken' = [taken EXCEPT ![w] = @ \o SubSeq(queue, 1, k)]
        /\ queue' = SubSeq(queue, k + 1, m)
        /\ waiting' = IF k < 2 - n THEN waiting \cup {w} ELSE waiting
        /\ UNCHANGED <<serverPipe, host, client>>
    BY <1>3, <1>4 DEF Take, TakePaths, Lacks
  <1> HIDE DEF k
  <1>7. /\ queue' \in Seq(Paths) /\ Len(queue') = m - k
        /\ \A i \in 1 .. m - k : queue'[i] = queue[i + k]
    <2>1. k + 1 \in 1 .. m + 1 /\ m - (k + 1) + 1 = m - k
      BY <1>5
    <2>2. \A i \in k + 1 .. m : queue[i] \in Paths
      <3>1. \A i \in 1 .. m : queue[i] \in Paths
        BY <1>2, <1>4, ElementOfSeq
      <3> QED
        BY <1>5, <3>1
    <2> DEFINE a == k + 1
    <2>3. a \in Int /\ m \in Int /\ \A i \in a .. m : queue[i] \in Paths
      BY <1>5, <2>2
    <2> HIDE DEF a
    <2>4. /\ SubSeq(queue, a, m) \in Seq(Paths)
          /\ Len(SubSeq(queue, a, m)) = IF a <= m THEN m - a + 1 ELSE 0
          /\ \A i \in 1 .. m - a + 1 : SubSeq(queue, a, m)[i] = queue[a + i - 1]
      BY <2>3, SubSeqProperties
    <2>5. queue' = SubSeq(queue, a, m)
      BY <1>6 DEF a
    <2>6. m - a + 1 = m - k /\ (a <= m <=> m - k # 0)
          /\ \A i \in 1 .. m - k : a + i - 1 = i + k
      BY <1>5 DEF a
    <2>7. Len(queue') = m - k
      BY <2>4, <2>5, <2>6
    <2>8. \A i \in 1 .. m - k : queue'[i] = queue[i + k]
      BY <2>4, <2>5, <2>6
    <2> QED
      BY <2>4, <2>5, <2>7, <2>8
  <1>8. /\ taken'[w] = taken[w] \o SubSeq(queue, 1, k)
        /\ \A v \in Workers \ {w} : taken'[v] = taken[v]
    BY <1>2, <1>6
  <1>9. /\ taken'[w] \in Seq(Paths) /\ Len(taken'[w]) = n + k
        /\ \A i \in 1 .. n + k :
              taken'[w][i] = IF i <= n THEN taken[w][i] ELSE queue[i - n]
    <2> DEFINE t == SubSeq(queue, 1, k)
    <2>1. t \in Seq(Paths) /\ Len(t) = k /\ \A i \in 1 .. k : t[i] = queue[i]
      BY <1>2, <1>4, <1>5
    <2> HIDE DEF t
    <2>2. taken'[w] = taken[w] \o t
      BY <1>8 DEF t
    <2> QED
      BY <1>2, <1>3, <1>5, <2>1, <2>2
  <1>10. taken' \in [Workers -> Seq(Paths)]
    BY <1>6, <1>8, <1>9 DEF TypeOK
  <1>11. TypeOK'
    <2>1. /\ wpc' = [wpc EXCEPT ![w] = IF n + k = 2 THEN "openReq" ELSE "take"]
          /\ UNCHANGED <<pipeVars, up, opcode, request, clientVars>>
      BY <1>9 DEF Take, GoWorker
    <2>2. n + k \in 0 .. 2 /\ wpc'[w] = IF n + k = 2 THEN "openReq" ELSE "take"
      BY <1>5, <2>1 DEF TypeOK
    <2>3. \A v \in Workers : IF wpc'[v] = "take" THEN Len(taken'[v]) < 2
                                               ELSE Len(taken'[v]) = 2
      <3> TAKE v \in Workers
      <3>1. CASE v = w
        <4> PICK l \in 0 .. 2 : l = n + k
          BY <2>2
        <4>1. Len(taken'[w]) = l /\ wpc'[w] = IF l = 2 THEN "openReq" ELSE "take"
          BY <1>9, <2>2
        <4> QED
          BY <3>1, <4>1
      <3>2. CASE v # w
        BY <1>8, <2>1, <3>2 DEF TypeOK
      <3> QED
        BY <3>1, <3>2
    <2>4. waiting' \subseteq {v \in Workers : wpc'[v] = "take"}
      <3>1. \A v \in waiting' : v \in Workers /\ wpc[v] = "take"
        BY <1>1, <1>6 DEF TypeOK
      <3>2. w \in waiting' => wpc'[w] = "take"
        <4>1. w \notin waiting
          BY DEF Take, TakePaths
        <4> QED
          BY <1>5, <1>6, <2>2, <4>1
      <3> QED
        BY <2>1, <3>1, <3>2 DEF TypeOK
    <2> QED
      BY <1>6, <1>7, <1>10, <2>1, <2>3, <2>4
         DEF TypeOK, pipeVars, clientVars, WorkerPlaces
  <1> QED
    BY <1>3, <1>4, <1>5, <1>6, <1>7, <1>8, <1>9, <1>11

PipesType == /\ fifos \subseteq Paths
             /\ readers \in [Paths -> SUBSET (Clients \cup Workers)]
             /\ writers \in [Paths -> SUBSET (Clients \cup Workers)]
             /\ met \subseteq (Clients \cup Workers) \X Paths
             /\ content \in [Paths -> Seq(Messages)]

LEMMA PipeOpsType ==
    ASSUME PipesType, NEW x \in Clients \cup Workers, NEW p \in Paths
    PROVE  /\ Pipes!OpenRead(x, p) => PipesType'
           /\ Pipes!OpenWrite(x, p) => PipesType'
           /\ \A m \in Messages : Pipes!Write(p, m) => PipesType'
           /\ Pipes!Read(p) => PipesType' /\ Head(content[p]) \in Messages
           /\ \A P : Pipes!CloseAll(P) /\ content' \in [Paths -> Seq(Messages)]
                    => PipesType'
<1> USE DEF PipesType
<1>1. ASSUME NEW partners \in SUBSET (Clients \cup Workers), Pipes!Meet(x, p, partners)
      PROVE  met' \subseteq (Clients \cup Workers) \X Paths
  BY <1>1 DEF Pipes!Meet
<1>2. Pipes!OpenRead(x, p) => PipesType'
  BY <1>1 DEF Pipes!OpenRead
<1>3. Pipes!OpenWrite(x, p) => PipesType'
  BY <1>1 DEF Pipes!OpenWrite
<1>4. ASSUME NEW m \in Messages, Pipes!Write(p, m)
      PROVE  PipesType'
  <2>1. Append(content[p], m) \in Seq(Messages)
    OBVIOUS
  <2> QED
    BY <1>4, <2>1 DEF Pipes!Write
<1>5. ASSUME Pipes!Read(p)
      PROVE  PipesType' /\ Head(content[p]) \in Messages
  <2>1. Tail(content[p]) \in Seq(Messages) /\ Head(content[p]) \in Messages
    BY <1>5 DEF Pipes!Read
  <2> QED
    BY <1>5, <2>1 DEF Pipes!Read
<1>6. ASSUME NEW P, Pipes!CloseAll(P), content' \in [Paths -> Seq(Messages)]
      PROVE  PipesType'
  BY <1>6 DEF Pipes!CloseAll
<1> QED
  BY <1>2, <1>3, <1>4, <1>5, <1>6

\* The paths that a worker in a session works on.
LEMMA OwnPaths ==
    ASSUME TypeOK, NEW w \in Workers, wpc[w] # "take"
    PROVE  /\ taken[w] \in Seq(Paths) /\ Len(taken[w]) = 2
           /\ ReqPipe(w) \in Paths /\ RespPipe(w) \in Paths
           /\ taken[w] = <<ReqPipe(w), RespPipe(w)>>
  BY DEF TypeOK, ReqPipe, RespPipe

LEMMA AnswerType ==
    ASSUME TypeOK, NEW w \in Workers
    PROVE  <<"answer", request[w]>> \in Messages
<1>1. CASE request[w] = None
  BY <1>1, MessageFacts
<1>2. CASE request[w] \in Clients \X (1 .. MaxRequests)
  <2>1. PICK c \in Clients, n \in 1 .. MaxRequests : request[w] = <<c, n>>
    BY <1>2
  <2> QED
    BY <2>1, MessageFacts
<1> QED
  BY <1>1, <1>2 DEF TypeOK

WorkerRest(w) == \/ OpenReq(w)     \/ OpenFails(w)     \/ ReqOpened(w)
                 \/ OpenResp(w)    \/ RespOpened(w)    \/ SendId(w)
                 \/ ReadQuit(w)    \/ ReadRequest(w)   \/ RepeatQuit(w)
                 \/ RepeatRequest(w) \/ RepeatUnknown(w) \/ SendAnswer(w)
                 \/ WriteBroken(w)

LEMMA WorkerType ==
    ASSUME TypeOK, NEW w \in Workers, WorkerRest(w)
    PROVE  TypeOK'
<1> USE DEF queueVars, clientVars
<1>0. PipesType /\ w \in Clients \cup Workers
  BY DEF TypeOK, PipesType
<1>1. ASSUME NEW to \in WorkerPlaces \ {"take"}, wpc[w] # "take",
             wpc' = [wpc EXCEPT ![w] = to], UNCHANGED <<queueVars, up, clientVars>>,
             opcode' \in [Workers -> {None, "serve", "quit", "unknown"}],
             request' \in [Workers -> (Clients \X (1 .. MaxRequests)) \cup {None}],
             PipesType'
      PROVE  TypeOK'
  BY <1>1 DEF TypeOK, WorkerPlaces, PipesType
<1>2. CASE OpenReq(w)
  <2>1. PipesType'
    BY <1>0, <1>2, OwnPaths, PipeOpsType DEF OpenReq, GoWorker
  <2> QED
    BY <1>1, <1>2, <2>1 DEF OpenReq, GoWorker, WorkerPlaces, TypeOK
<1>3. CASE ReqOpened(w)
  BY <1>0, <1>1, <1>3 DEF ReqOpened, GoWorker, WorkerPlaces, TypeOK, PipesType, pipeVars
<1>4. CASE OpenResp(w)
  <2>1. PipesType'
    BY <1>0, <1>4, OwnPaths, PipeOpsType DEF OpenResp, GoWorker
  <2> QED
    BY <1>1, <1>4, <2>1 DEF OpenResp, GoWorker, WorkerPlaces, TypeOK
<1>5. CASE RespOpened(w)
  BY <1>0, <1>1, <1>5 DEF RespOpened, GoWorker, WorkerPlaces, TypeOK, PipesType, pipeVars
<1>6. CASE SendId(w)
  <2>1. PipesType'
    BY <1>0, <1>6, OwnPaths, PipeOpsType, MessageFacts DEF SendId, GoWorker
  <2> QED
    BY <1>1, <1>6, <2>1 DEF SendId, GoWorker, WorkerPlaces, TypeOK
<1>7. CASE ReadRequest(w)
  <2>1. PipesType' /\ Head(content[ReqPipe(w)]) \in Messages
    BY <1>0, <1>7, OwnPaths, PipeOpsType DEF ReadRequest, GoWorker
  <2>2. Head(content[ReqPipe(w)])[2] \in Clients \X (1 .. MaxRequests)
    BY <1>7, <2>1, MessageFacts DEF ReadRequest
  <2>3. /\ opcode' \in [Workers -> {None, "serve", "quit", "unknown"}]
        /\ request' \in [Workers -> (Clients \X (1 .. MaxRequests)) \cup {None}]
    BY <1>7, <2>2 DEF ReadRequest, TypeOK
  <2> QED
    BY <1>1, <1>7, <2>1, <2>3 DEF ReadRequest, GoWorker, WorkerPlaces
<1>8. CASE RepeatRequest(w)
  BY <1>0, <1>1, <1>8 DEF RepeatRequest, GoWorker, WorkerPlaces, TypeOK, PipesType, pipeVars
<1>9. CASE RepeatUnknown(w)
  <2>1. wpc' = [wpc EXCEPT ![w] = "active"]
    BY <1>9 DEF RepeatUnknown, TypeOK
  <2> QED
    BY <1>0, <1>1, <1>9, <2>1
       DEF RepeatUnknown, GoWorker, WorkerPlaces, TypeOK, PipesType, pipeVars
<1>10. CASE SendAnswer(w)
  <2>1. <<"answer", request[w]>> \in Messages
    BY AnswerType
  <2>2. PipesType'
    BY <1>0, <1>10, <2>1, OwnPaths, PipeOpsType DEF SendAnswer, GoWorker
  <2> QED
    BY <1>1, <1>10, <2>2 DEF SendAnswer, GoWorker, WorkerPlaces, TypeOK
<1>11. ASSUME EndSession(w), content' \in [Paths -> Seq(Messages)],
              opcode' = [opcode EXCEPT ![w] = "quit"],
              UNCHANGED <<fifos, met, up, request, clientVars>>
       PROVE  TypeOK'
  <2>1. <<>> \in Seq(Paths) /\ Len(<<>>) = 0
    OBVIOUS
  <2>2. taken' \in [Workers -> Seq(Paths)]
    BY <1>11, <2>1 DEF EndSession, TypeOK
  <2>3. \A v \in Workers : IF wpc'[v] = "take" THEN Len(taken'[v]) < 2
                                             ELSE Len(taken'[v]) = 2
    BY <1>11, <2>1 DEF EndSession, TypeOK, GoWorker
  <2> QED
    BY <1>11, <2>2, <2>3 DEF EndSession, TypeOK, GoWorker, WorkerPlaces
<1>12. CASE ReadQuit(w)
  <2>1. content' \in [Paths -> Seq(Messages)]
    BY <1>12, OwnPaths DEF ReadQuit, TypeOK
  <2> QED
    BY <1>11, <1>12, <2>1 DEF ReadQuit
<1>13. CASE RepeatQuit(w)
  BY <1>11, <1>13 DEF RepeatQuit, TypeOK
<1>14. CASE OpenFails(w) \/ WriteBroken(w)
  <2>1. ServerDies
    BY <1>14 DEF OpenFails, WriteBroken
  <2>2. PipesType'
    BY <1>0, <2>1
       DEF ServerDies, TypeOK, PipesType, Pipes!CloseAll
  <2> QED
    BY <2>1, <2>2 DEF ServerDies, TypeOK, PipesType, WorkerPlaces
<1> QED
  BY <1>2, <1>3, <1>4, <1>5, <1>6, <1>7, <1>8, <1>9, <1>10, <1>12, <1>13, <1>14
     DEF WorkerRest

LEMMA ClientType ==
    ASSUME TypeOK, NEW c \in Clients,
           Setup(c) \/ SetupWithoutPipes(c) \/ Client(c) \/ Crash(c)
    PROVE  TypeOK'
<1> USE DEF queueVars, sessionVars
<1>0. /\ PipesType /\ c \in Clients \cup Workers
      /\ ReqPath(c) \in Paths /\ RespPath(c) \in Paths
  BY PathFacts DEF TypeOK, PipesType
<1>1. ASSUME NEW to \in ClientPlaces, cpc' = [cpc EXCEPT ![c] = to],
             UNCHANGED <<queueVars, sessionVars>>,
             sent' \in [Clients -> 0 .. MaxRequests],
             heard' \in [Clients -> Messages \cup {None}], PipesType'
      PROVE  TypeOK'
  BY <1>1 DEF TypeOK, PipesType, ClientPlaces
<1>2. ASSUME NEW made \in SUBSET Paths, Connect(c, made)
      PROVE  TypeOK'
  <2>1. Append(serverPipe, c) \in Seq(Clients)
    BY DEF TypeOK
  <2> QED
    BY <1>2, <2>1 DEF Connect, GoClient, TypeOK, ClientPlaces
<1>3. CASE Setup(c) \/ SetupWithoutPipes(c)
  BY <1>0, <1>2, <1>3 DEF Setup, SetupWithoutPipes
<1>4. CASE ClientOpenReq(c)
  <2>1. PipesType'
    BY <1>0, <1>4, PipeOpsType DEF ClientOpenReq
  <2> QED
    BY <1>1, <1>4, <2>1 DEF ClientOpenReq, GoClient, ClientPlaces, TypeOK
<1>5. CASE ClientOpenFails(c)
  BY <1>0, <1>1, <1>5
     DEF ClientOpenFails, GoClient, ClientPlaces, TypeOK, PipesType, pipeVars
<1>6. CASE ClientReqOpened(c)
  BY <1>0, <1>1, <1>6
     DEF ClientReqOpened, GoClient, ClientPlaces, TypeOK, PipesType, pipeVars
<1>7. CASE ClientOpenResp(c)
  <2>1. PipesType'
    BY <1>0, <1>7, PipeOpsType DEF ClientOpenResp
  <2> QED
    BY <1>1, <1>7, <2>1 DEF ClientOpenResp, GoClient, ClientPlaces, TypeOK
<1>8. CASE ClientRespOpened(c)
  BY <1>0, <1>1, <1>8
     DEF ClientRespOpened, GoClient, ClientPlaces, TypeOK, PipesType, pipeVars
<1>9. ASSUME NEW from, Receive(c, from)
      PROVE  TypeOK'
  <2>1. PipesType' /\ heard' \in [Clients -> Messages \cup {None}]
    BY <1>0, <1>9, PipeOpsType, SMTT(20), ZenonT(40) DEF Receive, TypeOK, PipesType, pipeVars
  <2> QED
    BY <1>1, <1>9, <2>1 DEF Receive, GoClient, ClientPlaces, TypeOK
<1>10. CASE SendRequest(c)
  <2>1. sent[c] + 1 \in 1 .. MaxRequests /\ sent' \in [Clients -> 0 .. MaxRequests]
    BY <1>10, SessionsAssumption DEF SendRequest, TypeOK
  <2>2. PipesType'
    BY <1>0, <1>10, <2>1, PipeOpsType, MessageFacts DEF SendRequest
  <2> QED
    BY <1>1, <1>10, <2>1, <2>2 DEF SendRequest, GoClient, ClientPlaces, TypeOK
<1>11. CASE Quit(c)
  <2>1. content' \in [Paths -> Seq(Messages)]
    BY <1>0, <1>11, MessageFacts DEF Quit, PipesType
  <2>2. PipesType'
    BY <1>0, <1>11, <2>1, PipeOpsType DEF Quit
  <2> QED
    BY <1>1, <1>11, <2>2 DEF Quit, GoClient, ClientPlaces, TypeOK
<1>12. CASE ClientBroken(c) \/ Crash(c)
  <2>1. PipesType'
    BY <1>0, <1>12, PipeOpsType DEF ClientBroken, Crash, PipesType
  <2> QED
    BY <1>1, <1>12, <2>1 DEF ClientBroken, Crash, GoClient, ClientPlaces, TypeOK
<1> QED
  BY <1>3, <1>4, <1>5, <1>6, <1>7, <1>8, <1>9, <1>10, <1>11, <1>12
     DEF Client, ReadId, ReadAnswer

LEMMA InitType == Init => TypeOK
<1> SUFFICES ASSUME Init PROVE TypeOK
  OBVIOUS
<1>1. \A S : <<>> \in Seq(S) /\ Len(<<>>) = 0
  OBVIOUS
<1> QED
  BY <1>1, SessionsAssumption DEF Init, QueueInit, Pipes!PipesInit, TypeOK,
         WorkerPlaces, ClientPlaces

LEMMA TypeStep == TypeOK /\ [Next]_vars => TypeOK'
<1> SUFFICES ASSUME TypeOK, [Next]_vars PROVE TypeOK'
  OBVIOUS
<1>1. CASE Host
  BY <1>1, HostType
<1>2. ASSUME NEW w \in Workers, Worker(w)
      PROVE  TypeOK'
  BY <1>2, TakeType, WorkerType DEF Worker, WorkerRest
<1>3. ASSUME NEW w \in Workers, SpuriousWakeUp(w)
      PROVE  TypeOK'
  BY <1>3 DEF SpuriousWakeUp, WakeUp, TypeOK, pipeVars, sessionVars, clientVars
<1>4. CASE UNCHANGED vars
  BY <1>4 DEF vars, queueVars, pipeVars, sessionVars, clientVars, TypeOK
<1> QED
  BY <1>1, <1>2, <1>3, <1>4, ClientType DEF Next, Quiet

\* Every variable has its type, and a worker is in a session exactly while it has
\* two paths.
THEOREM TypeCorrect == Spec => []TypeOK
  BY InitType, TypeStep, PTL DEF Spec

------------------------------------------------------------------------------
(***************************************************************************)
(* Every path is in one place.                                             *)
(***************************************************************************)
\* PlacesInv is about the queue, and about which clients wait for an open.
LEMMA PlacesSame ==
    ASSUME TypeOK, PlacesInv, UNCHANGED <<serverPipe, client, queue, taken>>,
           host' = "response" <=> host = "response",
           \A c \in Clients :
              /\ cpc'[c] = "start" => cpc[c] = "start"
              /\ cpc'[c] \in {"openReq", "openReqWait"} =>
                    cpc[c] \in {"openReq", "openReqWait"}
    PROVE  PlacesInv'
<1>1. \A p \in Paths : /\ InPipe(p[1])' <=> InPipe(p[1])
                       /\ WithHost(p)' <=> WithHost(p)
                       /\ InQueue(p)' <=> InQueue(p)
                       /\ \A w \in Workers : Holds(w, p)' <=> Holds(w, p)
  BY DEF InPipe, WithHost, InQueue, Holds
<1>2. ASSUME NEW p \in Paths
      PROVE  PathInv(p)'
  BY <1>1, <1>2, PathFacts DEF PlacesInv, PathInv
<1> QED
  BY <1>2 DEF PlacesInv, Distinct

LEMMA ConnectPlaces ==
    ASSUME TypeOK, PlacesInv, NEW c \in Clients, NEW made, Connect(c, made)
    PROVE  PlacesInv'
<1>1. /\ serverPipe \in Seq(Clients) /\ serverPipe' = Append(serverPipe, c)
      /\ UNCHANGED <<host, client, queue, taken>>
      /\ cpc[c] = "start" /\ cpc'[c] = "openReq"
      /\ \A d \in Clients \ {c} : cpc'[d] = cpc[d]
  BY DEF Connect, GoClient, TypeOK
<1>2. ASSUME NEW d \in Clients
      PROVE  InPipe(d)' <=> InPipe(d) \/ d = c
  BY <1>1 DEF InPipe
<1>3. ASSUME NEW p \in Paths
      PROVE  /\ WithHost(p)' <=> WithHost(p)
             /\ InQueue(p)' <=> InQueue(p)
             /\ \A w \in Workers : Holds(w, p)' <=> Holds(w, p)
  BY <1>1 DEF WithHost, InQueue, Holds
<1>4. ASSUME NEW p \in Paths
      PROVE  PathInv(p)'
  BY <1>1, <1>2, <1>3, <1>4, PathFacts DEF PlacesInv, PathInv
<1>5. ~ InPipe(c)
  BY <1>1, PathFacts DEF PlacesInv, PathInv
<1>6. Distinct(serverPipe)'
  BY <1>1, <1>5 DEF InPipe, PlacesInv, Distinct
<1> QED
  BY <1>1, <1>4, <1>6 DEF PlacesInv, Distinct

LEMMA HostRequestPlaces ==
    ASSUME TypeOK, PlacesInv, HostRequest, UNCHANGED clientVars
    PROVE  PlacesInv'
<1> DEFINE c == Head(serverPipe)
<1>1. /\ serverPipe \in Seq(Clients) /\ serverPipe # <<>> /\ c \in Clients
      /\ serverPipe' = Tail(serverPipe) /\ client' = c
      /\ queue \in Seq(Paths) /\ queue' = Append(queue, ReqPath(c))
      /\ ReqPath(c) \in Paths
      /\ host = "read" /\ host' = "response"
      /\ UNCHANGED <<taken, cpc>>
  BY PathFacts DEF HostRequest, Enqueue, TypeOK, clientVars
<1>2. /\ c = serverPipe[1] /\ 1 \in DOMAIN serverPipe
      /\ \A i \in DOMAIN serverPipe' : /\ serverPipe'[i] = serverPipe[i + 1]
                                      /\ i + 1 \in DOMAIN serverPipe /\ i + 1 # 1
      /\ \A i \in DOMAIN serverPipe \ {1} : /\ i - 1 \in DOMAIN serverPipe'
                                          /\ serverPipe'[i - 1] = serverPipe[i]
  BY <1>1
<1>3. \A i, j \in DOMAIN serverPipe : serverPipe[i] = serverPipe[j] => i = j
  BY DEF PlacesInv, Distinct
<1> HIDE DEF c
<1>4. ASSUME NEW d \in Clients
      PROVE  InPipe(d)' <=> InPipe(d) /\ d # c
  BY <1>2, <1>3 DEF InPipe
<1>5. ASSUME NEW p \in Paths
      PROVE  /\ ~ WithHost(p)
             /\ WithHost(p)' <=> p = RespPath(c)
             /\ InQueue(p)' <=> InQueue(p) \/ p = ReqPath(c)
             /\ \A w \in Workers : Holds(w, p)' <=> Holds(w, p)
  <2>1. ~ WithHost(p) /\ (WithHost(p)' <=> p = RespPath(c))
    BY <1>1 DEF WithHost
  <2>2. InQueue(p)' <=> InQueue(p) \/ p = ReqPath(c)
    <3>1. /\ queue \in Seq(Paths) /\ ReqPath(c) \in Paths
          /\ queue' = Append(queue, ReqPath(c))
      BY <1>1
    <3> QED
      BY <3>1, AppendHas DEF InQueue
  <2> QED
    BY <1>1, <2>1, <2>2 DEF Holds
<1>6. InPipe(c)
  BY <1>2 DEF InPipe
<1>7. ASSUME NEW p \in Paths
      PROVE  PathInv(p)'
  <2>1. CASE p[1] = c
    BY <1>1, <1>4, <1>5, <1>6, <2>1, PathFacts DEF PlacesInv, PathInv
  <2>2. CASE p[1] # c
    BY <1>1, <1>4, <1>5, <2>2, PathFacts DEF PlacesInv, PathInv
  <2> QED
    BY <2>1, <2>2
<1>8. ~ InQueue(ReqPath(c))
  BY <1>1, <1>6, PathFacts DEF PlacesInv, PathInv
<1>9. Distinct(queue)'
  BY <1>1, <1>8 DEF InQueue, PlacesInv, Distinct
<1>10. Distinct(serverPipe)'
  <2>1. ASSUME NEW i \in DOMAIN serverPipe', NEW j \in DOMAIN serverPipe',
               serverPipe'[i] = serverPipe'[j]
        PROVE  i = j
    <3>1. i \in Int /\ j \in Int
      BY <1>1
    <3>2. i + 1 = j + 1
      BY <1>2, <1>3, <2>1
    <3> QED
      BY <3>1, <3>2
  <2> QED
    BY <2>1 DEF Distinct
<1> QED
  BY <1>1, <1>7, <1>9, <1>10 DEF PlacesInv, Distinct

LEMMA HostResponsePlaces ==
    ASSUME TypeOK, PlacesInv, HostResponse, UNCHANGED clientVars
    PROVE  PlacesInv'
<1>1. /\ client \in Clients /\ RespPath(client) \in Paths
      /\ queue \in Seq(Paths) /\ queue' = Append(queue, RespPath(client))
      /\ host = "response" /\ host' = "signal"
      /\ UNCHANGED <<serverPipe, client, taken, cpc>>
  BY PathFacts DEF HostResponse, Enqueue, TypeOK, clientVars
<1>2. ASSUME NEW p \in Paths
      PROVE  /\ WithHost(p) <=> p = RespPath(client)
             /\ ~ WithHost(p)'
             /\ InPipe(p[1])' <=> InPipe(p[1])
             /\ InQueue(p)' <=> InQueue(p) \/ p = RespPath(client)
             /\ \A w \in Workers : Holds(w, p)' <=> Holds(w, p)
  BY <1>1 DEF WithHost, InQueue, InPipe, Holds
<1>3. ASSUME NEW p \in Paths
      PROVE  PathInv(p)'
  BY <1>1, <1>2, <1>3, PathFacts DEF PlacesInv, PathInv
<1>4. ~ InQueue(RespPath(client))
  BY <1>1, <1>2 DEF PlacesInv, PathInv
<1>5. Distinct(queue)'
  BY <1>1, <1>4 DEF InQueue, PlacesInv, Distinct
<1> QED
  BY <1>1, <1>3, <1>5 DEF PlacesInv, Distinct

LEMMA TakePlaces ==
    ASSUME TypeOK, PlacesInv, NEW w \in Workers, Take(w)
    PROVE  PlacesInv'
<1>1. UNCHANGED <<serverPipe, host, client, cpc>>
  BY DEF Take, TakePaths, clientVars
<1>2. PICK n \in 0 .. 1, m \in Nat, k \in 0 .. 2 :
           /\ n = Len(taken[w]) /\ m = Len(queue)
           /\ k <= m
           /\ queue' \in Seq(Paths) /\ taken'[w] \in Seq(Paths)
           /\ Len(queue') = m - k
           /\ \A i \in 1 .. m - k : queue'[i] = queue[i + k]
           /\ \A v \in Workers \ {w} : taken'[v] = taken[v]
           /\ Len(taken'[w]) = n + k
           /\ \A i \in 1 .. n + k :
                 taken'[w][i] = IF i <= n THEN taken[w][i] ELSE queue[i - n]
  BY TakeType
<1>3. /\ DOMAIN queue = 1 .. m /\ DOMAIN queue' = 1 .. m - k
      /\ DOMAIN taken[w] = 1 .. n /\ DOMAIN taken'[w] = 1 .. n + k
  BY <1>2 DEF TypeOK
<1>4. ASSUME NEW p \in Paths
      PROVE  /\ InPipe(p[1])' <=> InPipe(p[1])
             /\ WithHost(p)' <=> WithHost(p)
             /\ \A v \in Workers \ {w} : Holds(v, p)' <=> Holds(v, p)
  BY <1>1, <1>2 DEF InPipe, WithHost, Holds
<1>5. ASSUME NEW p \in Paths
      PROVE  /\ InQueue(p)' => InQueue(p) /\ ~ \E i \in 1 .. k : queue[i] = p
             /\ InQueue(p) => InQueue(p)' \/ \E i \in 1 .. k : queue[i] = p
             /\ (\E i \in 1 .. k : queue[i] = p) => InQueue(p)
             /\ Holds(w, p)' <=> Holds(w, p) \/ \E i \in 1 .. k : queue[i] = p
  <2>1. InQueue(p)' => \E i \in 1 .. m : queue[i] = p /\ i > k
    <3> SUFFICES ASSUME NEW i \in 1 .. m - k, queue'[i] = p
                 PROVE  \E j \in 1 .. m : queue[j] = p /\ j > k
      BY <1>3 DEF InQueue
    <3>1. i + k \in 1 .. m /\ i + k > k
      BY <1>2
    <3>2. queue[i + k] = p
      BY <1>2
    <3> QED
      BY <3>1, <3>2
  <2>2. (\E i \in 1 .. m : queue[i] = p /\ i > k) => InQueue(p)'
    <3> SUFFICES ASSUME NEW i \in 1 .. m, queue[i] = p, i > k PROVE InQueue(p)'
      OBVIOUS
    <3>1. i - k \in 1 .. m - k /\ (i - k) + k = i
      OBVIOUS
    <3>2. queue'[i - k] = p
      BY <1>2, <3>1
    <3> QED
      BY <1>3, <3>1, <3>2 DEF InQueue
  <2>3. \A i, j \in 1 .. m : queue[i] = queue[j] => i = j
    BY <1>3 DEF PlacesInv, Distinct
  <2>4. 1 .. k \subseteq 1 .. m /\ \A i \in 1 .. m : i > k \/ i \in 1 .. k
    BY <1>2
  <2>5. InQueue(p) <=> \E i \in 1 .. m : queue[i] = p
    BY <1>3 DEF InQueue
  <2>6. Holds(w, p)' => Holds(w, p) \/ \E i \in 1 .. k : queue[i] = p
    <3> SUFFICES ASSUME NEW i \in 1 .. n + k, taken'[w][i] = p
                 PROVE  Holds(w, p) \/ \E j \in 1 .. k : queue[j] = p
      BY <1>3 DEF Holds
    <3>1. CASE i <= n
      <4>1. i \in 1 .. n
        BY <3>1
      <4>2. taken[w][i] = p
        BY <1>2, <3>1
      <4> QED
        BY <1>3, <4>1, <4>2 DEF Holds
    <3>2. CASE i > n
      <4>1. i - n \in 1 .. k /\ ~ i <= n
        BY <3>2
      <4> QED
        BY <1>2, <4>1
    <3> QED
      BY <3>1, <3>2
  <2>7. Holds(w, p) => Holds(w, p)'
    <3> SUFFICES ASSUME NEW i \in 1 .. n, taken[w][i] = p PROVE Holds(w, p)'
      BY <1>3 DEF Holds
    <3>1. i \in 1 .. n + k /\ i <= n
      OBVIOUS
    <3> QED
      BY <1>2, <1>3, <3>1 DEF Holds
  <2>8. ASSUME NEW i \in 1 .. k, queue[i] = p
        PROVE  Holds(w, p)'
    <3>1. i + n \in 1 .. n + k /\ ~ i + n <= n /\ (i + n) - n = i
      OBVIOUS
    <3>2. taken'[w][i + n] = queue[(i + n) - n]
      BY <1>2, <3>1
    <3> QED
      BY <1>3, <2>8, <3>1, <3>2 DEF Holds
  <2> QED
    BY <2>1, <2>2, <2>3, <2>4, <2>5, <2>6, <2>7, <2>8
<1>6. ASSUME NEW p \in Paths
      PROVE  PathInv(p)'
  <2> DEFINE Got == \E i \in 1 .. k : queue[i] = p
  <2>1. /\ InQueue(p)' => InQueue(p) /\ ~ Got
        /\ InQueue(p) => InQueue(p)' \/ Got
        /\ Got => InQueue(p)
        /\ Holds(w, p)' <=> Holds(w, p) \/ Got
    BY <1>5
  <2> HIDE DEF Got
  <2> QED
    BY <1>1, <1>4, <2>1 DEF PlacesInv, PathInv
<1>7. Distinct(queue)'
  <2>1. \A i, j \in 1 .. m : queue[i] = queue[j] => i = j
    BY <1>3 DEF PlacesInv, Distinct
  <2>2. \A i \in 1 .. m - k : i + k \in 1 .. m
    BY <1>2
  <2>3. \A i, j \in 1 .. m - k : queue'[i] = queue'[j] => i + k = j + k
    BY <1>2, <2>1, <2>2
  <2>4. \A i, j \in 1 .. m - k : queue'[i] = queue'[j] => i = j
    BY <2>3
  <2> QED
    BY <1>3, <2>4 DEF Distinct
<1>8. Distinct(taken'[w])
  <2>1. \A i \in 1 .. n + k : i <= n \/ i - n \in 1 .. m
    BY <1>2
  <2>2. ASSUME NEW i \in 1 .. n, NEW j \in 1 .. m
        PROVE  taken[w][i] # queue[j]
    <3>1. taken[w][i] \in Paths /\ Holds(w, taken[w][i])
      BY <1>2, <1>3, ElementOfSeq DEF TypeOK, Holds
    <3>2. ~ InQueue(taken[w][i])
      BY <3>1 DEF PlacesInv, PathInv
    <3> QED
      BY <1>3, <3>2 DEF InQueue
  <2>3. ASSUME NEW i \in 1 .. n + k, NEW j \in 1 .. n + k, taken'[w][i] = taken'[w][j]
        PROVE  i = j
    <3>1. CASE i <= n /\ j <= n
      <4>1. i \in 1 .. n /\ j \in 1 .. n
        BY <3>1
      <4>2. taken'[w][i] = taken[w][i] /\ taken'[w][j] = taken[w][j]
        BY <1>2, <3>1
      <4>3. taken[w][i] = taken[w][j] => i = j
        BY <1>3, <4>1 DEF PlacesInv, Distinct
      <4> QED
        BY <2>3, <4>2, <4>3
    <3>2. CASE i <= n /\ ~ j <= n
      <4>1. i \in 1 .. n /\ j - n \in 1 .. m
        BY <2>1, <3>2
      <4>2. taken'[w][i] = taken[w][i] /\ taken'[w][j] = queue[j - n]
        BY <1>2, <3>2
      <4> QED
        BY <2>2, <2>3, <4>1, <4>2
    <3>3. CASE ~ i <= n /\ j <= n
      <4>1. j \in 1 .. n /\ i - n \in 1 .. m
        BY <2>1, <3>3
      <4>2. taken'[w][j] = taken[w][j] /\ taken'[w][i] = queue[i - n]
        BY <1>2, <3>3
      <4> QED
        BY <2>2, <2>3, <4>1, <4>2
    <3>4. CASE ~ i <= n /\ ~ j <= n
      <4>1. i - n \in 1 .. m /\ j - n \in 1 .. m
        BY <2>1, <3>4
      <4>2. queue[i - n] = queue[j - n]
        BY <1>2, <2>3, <3>4
      <4>3. i - n = j - n
        BY <1>3, <4>1, <4>2 DEF PlacesInv, Distinct
      <4> QED
        BY <4>3
    <3> QED
      BY <3>1, <3>2, <3>3, <3>4
  <2> QED
    BY <1>3, <2>3 DEF Distinct
<1>9. \A v \in Workers : Distinct(taken'[v])
  BY <1>2, <1>8 DEF PlacesInv
<1> QED
  BY <1>1, <1>6, <1>7, <1>9 DEF PlacesInv, Distinct

\* A session that ends may let go of its paths once nobody waits for them.
LEMMA EndPlaces ==
    ASSUME TypeOK, PlacesInv, NEW w \in Workers,
           taken' = [taken EXCEPT ![w] = <<>>],
           UNCHANGED <<serverPipe, host, client, queue, cpc>>,
           \A i \in DOMAIN taken[w] :
              cpc[taken[w][i][1]] \notin {"openReq", "openReqWait"}
    PROVE  PlacesInv'
<1>1. taken'[w] = <<>> /\ \A v \in Workers \ {w} : taken'[v] = taken[v]
  BY DEF TypeOK
<1>2. ASSUME NEW p \in Paths
      PROVE  /\ InPipe(p[1])' <=> InPipe(p[1])
             /\ WithHost(p)' <=> WithHost(p)
             /\ InQueue(p)' <=> InQueue(p)
             /\ ~ Holds(w, p)'
             /\ \A v \in Workers \ {w} : Holds(v, p)' <=> Holds(v, p)
             /\ Holds(w, p) => cpc[p[1]] \notin {"openReq", "openReqWait"}
  BY <1>1 DEF InPipe, WithHost, InQueue, Holds
<1>3. ASSUME NEW p \in Paths
      PROVE  PathInv(p)'
  BY <1>2, <1>3 DEF PlacesInv, PathInv
<1>4. \A v \in Workers : Distinct(taken'[v])
  BY <1>1 DEF PlacesInv, Distinct
<1> QED
  BY <1>3, <1>4 DEF PlacesInv, Distinct

------------------------------------------------------------------------------
(***************************************************************************)
(* Who has which pipe open.                                                *)
(***************************************************************************)
ReadersOf(p) ==
    {w \in Workers : up /\ wpc[w] \in ReqOpen /\ ReqPipe(w) = p}
    \cup {c \in Clients : cpc[c] \in ClientRespOpen /\ RespPath(c) = p}

WritersOf(p) ==
    {w \in Workers : up /\ wpc[w] \in RespOpen /\ RespPipe(w) = p}
    \cup {c \in Clients : cpc[c] \in ClientReqOpen /\ ReqPath(c) = p}

LEMMA EndsPointwise ==
    /\ EndsInv => \A p \in Paths : /\ readers[p] = ReadersOf(p)
                                  /\ writers[p] = WritersOf(p)
    /\ TypeOK /\ (\A p \in Paths : /\ readers[p] = ReadersOf(p)
                                   /\ writers[p] = WritersOf(p)) => EndsInv
  BY DEF EndsInv, ReadersOf, WritersOf, TypeOK

LEMMA EndsStep ==
    ASSUME TypeOK', EndsInv,
           \A p \in Paths : readers[p] = ReadersOf(p) /\ writers[p] = WritersOf(p)
              => readers'[p] = ReadersOf(p)' /\ writers'[p] = WritersOf(p)'
    PROVE  EndsInv'
<1>1. \A p \in Paths : readers[p] = ReadersOf(p) /\ writers[p] = WritersOf(p)
  BY EndsPointwise
<1>2. \A p \in Paths : readers'[p] = ReadersOf(p)' /\ writers'[p] = WritersOf(p)'
  BY <1>1
<1>3. (TypeOK /\ (\A p \in Paths : /\ readers[p] = ReadersOf(p)
                                   /\ writers[p] = WritersOf(p)) => EndsInv)'
  BY EndsPointwise, PTL
<1> QED
  BY <1>2, <1>3

\* Nothing is opened or closed.
LEMMA EndsSame ==
    ASSUME TypeOK', EndsInv, UNCHANGED <<readers, writers, up>>,
           \A w \in Workers :
              /\ wpc'[w] \in ReqOpen <=> wpc[w] \in ReqOpen
              /\ wpc'[w] \in RespOpen <=> wpc[w] \in RespOpen
              /\ wpc[w] \in ReqOpen => taken'[w] = taken[w],
           \A c \in Clients :
              /\ cpc'[c] \in ClientReqOpen <=> cpc[c] \in ClientReqOpen
              /\ cpc'[c] \in ClientRespOpen <=> cpc[c] \in ClientRespOpen
    PROVE  EndsInv'
<1>1. RespOpen \subseteq ReqOpen
  BY DEF RespOpen, ReqOpen
<1>2. ASSUME NEW p \in Paths
      PROVE  ReadersOf(p)' = ReadersOf(p) /\ WritersOf(p)' = WritersOf(p)
  BY <1>1 DEF ReadersOf, WritersOf, ReqPipe, RespPipe
<1> QED
  BY <1>2, EndsStep

LEMMA WorkerEnds ==
    ASSUME TypeOK, TypeOK', EndsInv, NEW w \in Workers, Worker(w)
    PROVE  EndsInv'
<1> USE DEF GoWorker, queueVars, clientVars, pipeVars
<1>1. CASE Take(w)
  <2>1. /\ UNCHANGED <<readers, writers, up, cpc>>
        /\ wpc[w] = "take" /\ wpc'[w] \in {"take", "openReq"}
        /\ \A v \in Workers \ {w} : wpc'[v] = wpc[v] /\ taken'[v] = taken[v]
    BY <1>1 DEF Take, TakePaths, TypeOK
  <2> QED
    BY <2>1, EndsSame DEF ReqOpen, RespOpen
<1>2. ASSUME UNCHANGED <<readers, writers, up, cpc, taken>>,
             \/ wpc' = wpc
             \/ \E from, to \in Talking :
                   wpc[w] = from /\ wpc' = [wpc EXCEPT ![w] = to]
             \/ wpc[w] = "openReqWait" /\ wpc' = [wpc EXCEPT ![w] = "openResp"]
             \/ wpc[w] = "openRespWait" /\ wpc' = [wpc EXCEPT ![w] = "sendId"]
      PROVE  EndsInv'
  <2>1. \A v \in Workers : /\ wpc'[v] \in ReqOpen <=> wpc[v] \in ReqOpen
                           /\ wpc'[v] \in RespOpen <=> wpc[v] \in RespOpen
    BY <1>2 DEF TypeOK, ReqOpen, RespOpen, Talking
  <2> QED
    BY <1>2, <2>1, EndsSame
<1>3. CASE ReqOpened(w) \/ RespOpened(w) \/ SendId(w) \/ ReadRequest(w)
           \/ RepeatRequest(w) \/ RepeatUnknown(w) \/ SendAnswer(w)
  BY <1>2, <1>3 DEF ReqOpened, RespOpened, SendId, ReadRequest, RepeatRequest,
       RepeatUnknown, SendAnswer, Pipes!Write, Pipes!Read, Talking
<1>4. CASE OpenReq(w)
  <2>1. ASSUME NEW p \in Paths
        PROVE  readers[p] = ReadersOf(p) /\ writers[p] = WritersOf(p)
                 => readers'[p] = ReadersOf(p)' /\ writers'[p] = WritersOf(p)'
    <3>1. /\ up /\ UNCHANGED <<taken, writers, up, cpc>>
          /\ wpc[w] = "openReq" /\ wpc'[w] = "openReqWait"
          /\ \A v \in Workers \ {w} : wpc'[v] = wpc[v]
          /\ readers' = [readers EXCEPT ![ReqPipe(w)] = @ \cup {w}]
      BY <1>4 DEF OpenReq, Pipes!OpenRead, TypeOK, Worker
    <3>2. ReadersOf(p)' = IF p = ReqPipe(w) THEN ReadersOf(p) \cup {w} ELSE ReadersOf(p)
      BY <3>1 DEF ReadersOf, ReqOpen, ReqPipe
    <3>3. WritersOf(p)' = WritersOf(p)
      BY <3>1 DEF WritersOf, RespOpen, RespPipe
    <3> QED
      BY <3>1, <3>2, <3>3, SMTT(20), ZenonT(40) DEF TypeOK
  <2> QED
    BY <2>1, EndsStep
<1>5. CASE OpenResp(w)
  <2>1. ASSUME NEW p \in Paths
        PROVE  readers[p] = ReadersOf(p) /\ writers[p] = WritersOf(p)
                 => readers'[p] = ReadersOf(p)' /\ writers'[p] = WritersOf(p)'
    <3>1. /\ up /\ UNCHANGED <<taken, readers, up, cpc>>
          /\ wpc[w] = "openResp" /\ wpc'[w] = "openRespWait"
          /\ \A v \in Workers \ {w} : wpc'[v] = wpc[v]
          /\ writers' = [writers EXCEPT ![RespPipe(w)] = @ \cup {w}]
      BY <1>5 DEF OpenResp, Pipes!OpenWrite, TypeOK, Worker
    <3>2. WritersOf(p)' = IF p = RespPipe(w) THEN WritersOf(p) \cup {w} ELSE WritersOf(p)
      BY <3>1 DEF WritersOf, RespOpen, RespPipe
    <3>3. ReadersOf(p)' = ReadersOf(p)
      BY <3>1 DEF ReadersOf, ReqOpen, ReqPipe
    <3> QED
      BY <3>1, <3>2, <3>3, SMTT(20), ZenonT(40) DEF TypeOK
  <2> QED
    BY <2>1, EndsStep
<1>6. CASE ReadQuit(w) \/ RepeatQuit(w)
  <2>1. ASSUME NEW p \in Paths
        PROVE  readers[p] = ReadersOf(p) /\ writers[p] = WritersOf(p)
                 => readers'[p] = ReadersOf(p)' /\ writers'[p] = WritersOf(p)'
    <3>1. /\ UNCHANGED <<up, cpc>>
          /\ wpc[w] = "active" /\ wpc'[w] = "take"
          /\ \A v \in Workers \ {w} : wpc'[v] = wpc[v] /\ taken'[v] = taken[v]
          /\ readers' = [readers EXCEPT ![ReqPipe(w)] = @ \ {w}]
          /\ writers' = [writers EXCEPT ![RespPipe(w)] = @ \ {w}]
      BY <1>6 DEF ReadQuit, RepeatQuit, EndSession, TypeOK
    <3>2. WritersOf(p)' = IF p = RespPipe(w) THEN WritersOf(p) \ {w} ELSE WritersOf(p)
      BY <3>1, SessionsAssumption DEF WritersOf, RespOpen, RespPipe
    <3>3. ReadersOf(p)' = IF p = ReqPipe(w) THEN ReadersOf(p) \ {w} ELSE ReadersOf(p)
      BY <3>1, SessionsAssumption DEF ReadersOf, ReqOpen, ReqPipe
    <3> QED
      BY <3>1, <3>2, <3>3, SMTT(20), ZenonT(40) DEF TypeOK
  <2> QED
    BY <2>1, EndsStep
<1>7. CASE OpenFails(w) \/ WriteBroken(w)
  <2>1. ASSUME NEW p \in Paths
        PROVE  readers[p] = ReadersOf(p) /\ writers[p] = WritersOf(p)
                 => readers'[p] = ReadersOf(p)' /\ writers'[p] = WritersOf(p)'
    <3>1. /\ ~ up' /\ UNCHANGED <<cpc>>
          /\ readers'[p] = readers[p] \ Workers /\ writers'[p] = writers[p] \ Workers
      BY <1>7 DEF OpenFails, WriteBroken, ServerDies, Pipes!CloseAll
    <3> QED
      BY <3>1, SessionsAssumption DEF ReadersOf, WritersOf
  <2> QED
    BY <2>1, EndsStep
<1> QED
  BY <1>1, <1>3, <1>4, <1>5, <1>6, <1>7 DEF Worker

LEMMA ClientEnds ==
    ASSUME TypeOK, TypeOK', EndsInv, NEW c \in Clients,
           Setup(c) \/ SetupWithoutPipes(c) \/ Client(c) \/ Crash(c)
    PROVE  EndsInv'
<1> USE DEF GoClient, queueVars, sessionVars, pipeVars
<1>1. ASSUME UNCHANGED <<readers, writers, up, taken, wpc>>,
             NEW from, NEW to, cpc[c] = from, cpc' = [cpc EXCEPT ![c] = to],
             from \in ClientReqOpen <=> to \in ClientReqOpen,
             from \in ClientRespOpen <=> to \in ClientRespOpen
      PROVE  EndsInv'
  BY <1>1, EndsSame DEF TypeOK
<1>2. CASE Setup(c) \/ SetupWithoutPipes(c)
  BY <1>1, <1>2 DEF Setup, SetupWithoutPipes, Connect, ClientReqOpen, ClientRespOpen
<1>3. CASE ClientOpenFails(c) \/ ClientReqOpened(c) \/ ClientRespOpened(c)
           \/ SendRequest(c)
  BY <1>1, <1>3 DEF ClientOpenFails, ClientReqOpened, ClientRespOpened, SendRequest,
       Pipes!Write, ClientReqOpen, ClientRespOpen
<1>4. CASE ReadId(c) \/ ReadAnswer(c)
  BY <1>1, <1>4 DEF ReadId, ReadAnswer, Receive, Pipes!Read, ClientReqOpen,
       ClientRespOpen
<1>5. CASE ClientOpenReq(c)
  <2>1. ASSUME NEW p \in Paths
        PROVE  readers[p] = ReadersOf(p) /\ writers[p] = WritersOf(p)
                 => readers'[p] = ReadersOf(p)' /\ writers'[p] = WritersOf(p)'
    <3>1. /\ UNCHANGED <<taken, readers, up, wpc>>
          /\ cpc[c] = "openReq" /\ cpc'[c] = "openReqWait"
          /\ \A d \in Clients \ {c} : cpc'[d] = cpc[d]
          /\ writers' = [writers EXCEPT ![ReqPath(c)] = @ \cup {c}]
      BY <1>5 DEF ClientOpenReq, Pipes!OpenWrite, TypeOK
    <3>2. WritersOf(p)' = IF p = ReqPath(c) THEN WritersOf(p) \cup {c} ELSE WritersOf(p)
      BY <3>1 DEF WritersOf, ClientReqOpen, RespPipe
    <3>3. ReadersOf(p)' = ReadersOf(p)
      BY <3>1 DEF ReadersOf, ClientRespOpen, ReqPipe
    <3> QED
      BY <3>1, <3>2, <3>3, SMTT(20), ZenonT(40) DEF TypeOK
  <2> QED
    BY <2>1, EndsStep
<1>6. CASE ClientOpenResp(c)
  <2>1. ASSUME NEW p \in Paths
        PROVE  readers[p] = ReadersOf(p) /\ writers[p] = WritersOf(p)
                 => readers'[p] = ReadersOf(p)' /\ writers'[p] = WritersOf(p)'
    <3>1. /\ UNCHANGED <<taken, writers, up, wpc>>
          /\ cpc[c] = "openResp" /\ cpc'[c] = "openRespWait"
          /\ \A d \in Clients \ {c} : cpc'[d] = cpc[d]
          /\ readers' = [readers EXCEPT ![RespPath(c)] = @ \cup {c}]
      BY <1>6 DEF ClientOpenResp, Pipes!OpenRead, TypeOK
    <3>2. ReadersOf(p)' = IF p = RespPath(c) THEN ReadersOf(p) \cup {c} ELSE ReadersOf(p)
      BY <3>1 DEF ReadersOf, ClientRespOpen, ReqPipe
    <3>3. WritersOf(p)' = WritersOf(p)
      BY <3>1 DEF WritersOf, ClientReqOpen, RespPipe
    <3> QED
      BY <3>1, <3>2, <3>3, SMTT(20), ZenonT(40) DEF TypeOK
  <2> QED
    BY <2>1, EndsStep
<1>7. CASE Quit(c) \/ ClientBroken(c) \/ Crash(c)
  <2>1. ASSUME NEW p \in Paths
        PROVE  readers[p] = ReadersOf(p) /\ writers[p] = WritersOf(p)
                 => readers'[p] = ReadersOf(p)' /\ writers'[p] = WritersOf(p)'
    <3>1. /\ UNCHANGED <<taken, up, wpc>>
          /\ cpc'[c] \in {"done", "dead"}
          /\ \A d \in Clients \ {c} : cpc'[d] = cpc[d]
          /\ readers'[p] = readers[p] \ {c} /\ writers'[p] = writers[p] \ {c}
      BY <1>7 DEF Quit, ClientBroken, Crash, Pipes!CloseAll, TypeOK
    <3>2. ReadersOf(p)' = ReadersOf(p) \ {c}
      BY <3>1, SessionsAssumption DEF ReadersOf, ClientRespOpen, ReqPipe
    <3>3. WritersOf(p)' = WritersOf(p) \ {c}
      BY <3>1, SessionsAssumption DEF WritersOf, ClientReqOpen, RespPipe
    <3> QED
      BY <3>1, <3>2, <3>3
  <2> QED
    BY <2>1, EndsStep
<1> QED
  BY <1>2, <1>3, <1>4, <1>5, <1>6, <1>7 DEF Client

LEMMA OtherEnds ==
    ASSUME TypeOK, TypeOK', EndsInv,
           \/ Host
           \/ \E w \in Workers : SpuriousWakeUp(w)
           \/ UNCHANGED vars
    PROVE  EndsInv'
<1>1. UNCHANGED <<readers, writers, up, wpc, cpc, taken>>
  BY DEF Host, HostRequest, HostResponse, HostSignal, SpuriousWakeUp, WakeUp, vars,
         queueVars, pipeVars, sessionVars, clientVars
<1> QED
  BY <1>1, EndsSame

------------------------------------------------------------------------------
(***************************************************************************)
(* Which opens have met a partner.                                         *)
(***************************************************************************)
WaitedFor(p) == InPipe(p[1]) \/ WithHost(p) \/ InQueue(p)

\* What keeps true what MetInv says of a path.
LEMMA MetKept ==
    ASSUME NEW p \in Paths, MetInv(p), p \in fifos', ~ WaitedFor(p)',
           \A places \in {ClientReqOpen, ClientRespOpen} :
              cpc[p[1]] \in places \cup {"done", "dead"} =>
                 cpc'[p[1]] \in places \cup {"done", "dead"},
           \A w \in Workers : Holds(w, p)' =>
              /\ Holds(w, p)
              /\ taken'[w] = taken[w]
              /\ wpc[w] \in ReqOpen => wpc'[w] \in ReqOpen
              /\ wpc[w] \in RespOpen => wpc'[w] \in RespOpen
    PROVE  MetInv(p)'
<1>1. ClientReqOpen \in {ClientReqOpen, ClientRespOpen}
      /\ ClientRespOpen \in {ClientReqOpen, ClientRespOpen}
  OBVIOUS
<1> QED
  BY <1>1 DEF MetInv, WaitedFor, ReqPipe, RespPipe

\* Steps that take no path and open nothing.
LEMMA MetSame ==
    ASSUME TypeOK, OpensInv, UNCHANGED <<queue, taken, client>>,
           host' = "response" => host = "response",
           fifos \subseteq fifos',
           \A c \in Clients : InPipe(c)' => InPipe(c) \/ cpc[c] = "start",
           \A w \in Workers : /\ wpc[w] \in ReqOpen => wpc'[w] \in ReqOpen
                              /\ wpc[w] \in RespOpen => wpc'[w] \in RespOpen,
           \A c \in Clients : \A places \in {ClientReqOpen, ClientRespOpen} :
              cpc[c] \in places \cup {"done", "dead"} =>
                 cpc'[c] \in places \cup {"done", "dead"}
    PROVE  \A m \in met : MetInv(m[2])'
<1> SUFFICES ASSUME NEW m \in met PROVE MetInv(m[2])'
  OBVIOUS
<1> DEFINE p == m[2]
<1>1. p \in Paths /\ MetInv(p) /\ p[1] \in Clients
  BY PathFacts DEF TypeOK, OpensInv
<1> HIDE DEF p
<1>2. ~ WaitedFor(p)'
  BY <1>1 DEF WaitedFor, MetInv, WithHost, InQueue, ClientReqOpen, ClientRespOpen
<1>3. \A w \in Workers : Holds(w, p)' <=> Holds(w, p)
  BY DEF Holds
<1>4. MetInv(p)'
  BY <1>1, <1>2, <1>3, MetKept DEF MetInv
<1> QED
  BY <1>4 DEF p

HasMet(w) ==
    /\ wpc[w] \in ReqOpen \ {"openReqWait"} => <<w, ReqPipe(w)>> \in met
    /\ wpc[w] \in Talking => <<w, RespPipe(w)>> \in met

LEMMA OpensSplit ==
    OpensInv <=> /\ \A m \in met : MetInv(m[2])
                 /\ \A w \in Workers : HasMet(w)
  BY DEF OpensInv, HasMet

LEMMA OpensStep ==
    ASSUME \A m \in met' : MetInv(m[2])', \A w \in Workers : HasMet(w)'
    PROVE  OpensInv'
  BY DEF OpensInv, HasMet

LEMMA HasMetKept ==
    ASSUME NEW w \in Workers, OpensInv, met \subseteq met',
           wpc'[w] = wpc[w],
           wpc[w] # "take" => taken'[w] = taken[w]
    PROVE  HasMet(w)'
  BY DEF OpensInv, HasMet, ReqPipe, RespPipe, ReqOpen, Talking

LEMMA HostOpens ==
    ASSUME TypeOK, PlacesInv, OpensInv, Host
    PROVE  OpensInv'
<1>1. UNCHANGED <<met, wpc, taken, cpc, fifos>>
  BY DEF Host, HostRequest, HostResponse, HostSignal, pipeVars, sessionVars, clientVars
<1>2. ASSUME NEW p \in Paths, MetInv(p), ~ WaitedFor(p)'
      PROVE  MetInv(p)'
  <2>1. \A w \in Workers : Holds(w, p)' <=> Holds(w, p)
    BY <1>1 DEF Holds
  <2> QED
    BY <1>1, <1>2, <2>1, MetKept DEF MetInv
<1>3. ASSUME NEW p \in Paths, ~ WaitedFor(p)
      PROVE  ~ WaitedFor(p)'
  <2>1. CASE HostRequest
    <3> DEFINE c == Head(serverPipe)
    <3>1. /\ serverPipe \in Seq(Clients) /\ serverPipe # <<>> /\ c \in Clients
          /\ serverPipe' = Tail(serverPipe) /\ client' = c
          /\ queue \in Seq(Paths) /\ queue' = Append(queue, ReqPath(c))
          /\ ReqPath(c) \in Paths
      BY <2>1, PathFacts DEF HostRequest, Enqueue, TypeOK
    <3>2. c = serverPipe[1] /\ 1 \in DOMAIN serverPipe
      BY <3>1
    <3>3. \A i \in DOMAIN serverPipe' : /\ serverPipe'[i] = serverPipe[i + 1]
                                       /\ i + 1 \in DOMAIN serverPipe
      BY <3>1
    <3> HIDE DEF c
    <3>4. InPipe(c) /\ (InPipe(p[1])' => InPipe(p[1]))
      BY <3>2, <3>3 DEF InPipe
    <3>5. p[1] # c
      BY <1>3, <3>4 DEF WaitedFor
    <3>6. queue \in Seq(Paths) /\ ReqPath(c) \in Paths /\ queue' = Append(queue, ReqPath(c))
      BY <3>1
    <3>7. ~ InQueue(p)'
      BY <1>3, <3>1, <3>5, <3>6, PathFacts, AppendHas DEF InQueue, WaitedFor
    <3>8. ~ WithHost(p)'
      BY <3>1, <3>5, PathFacts DEF WithHost
    <3> QED
      BY <1>3, <3>4, <3>7, <3>8 DEF WaitedFor
  <2>2. CASE HostResponse
    <3>1. /\ queue \in Seq(Paths) /\ RespPath(client) \in Paths
          /\ queue' = Append(queue, RespPath(client))
      BY <2>2, PathFacts DEF HostResponse, Enqueue, TypeOK
    <3>2. p # RespPath(client)
      BY <1>3, <2>2 DEF HostResponse, WaitedFor, WithHost
    <3>3. ~ InQueue(p)'
      BY <1>3, <3>1, <3>2, AppendHas DEF InQueue, WaitedFor
    <3> QED
      BY <1>3, <2>2, <3>3 DEF HostResponse, WaitedFor, WithHost, InPipe
  <2>3. CASE HostSignal
    BY <1>3, <2>3 DEF HostSignal, WaitedFor, WithHost, InPipe, InQueue
  <2> QED
    BY <2>1, <2>2, <2>3 DEF Host
<1>4. ASSUME NEW m \in met'
      PROVE  MetInv(m[2])'
  <2>1. m[2] \in Paths /\ MetInv(m[2])
    BY <1>1, <1>4 DEF TypeOK, OpensInv
  <2>2. ~ WaitedFor(m[2])
    BY <2>1 DEF MetInv, WaitedFor
  <2> QED
    BY <1>2, <1>3, <2>1, <2>2
<1> QED
  BY <1>1, <1>4, HasMetKept, OpensStep

LEMMA TakeOpens ==
    ASSUME TypeOK, PlacesInv, OpensInv, NEW w \in Workers, Take(w)
    PROVE  OpensInv'
<1>1. /\ UNCHANGED <<serverPipe, host, client, cpc, met, fifos>>
      /\ wpc[w] = "take" /\ wpc'[w] \in {"take", "openReq"}
      /\ \A v \in Workers \ {w} : wpc'[v] = wpc[v]
  BY DEF Take, TakePaths, GoWorker, TypeOK, pipeVars, clientVars
<1>2. PICK n \in 0 .. 1, m \in Nat, k \in 0 .. 2 :
           /\ n = Len(taken[w]) /\ m = Len(queue)
           /\ k <= m
           /\ queue' \in Seq(Paths) /\ taken'[w] \in Seq(Paths)
           /\ Len(queue') = m - k
           /\ \A i \in 1 .. m - k : queue'[i] = queue[i + k]
           /\ \A v \in Workers \ {w} : taken'[v] = taken[v]
           /\ Len(taken'[w]) = n + k
           /\ \A i \in 1 .. n + k :
                 taken'[w][i] = IF i <= n THEN taken[w][i] ELSE queue[i - n]
  BY TakeType
<1>3. /\ DOMAIN queue = 1 .. m /\ DOMAIN queue' = 1 .. m - k
      /\ DOMAIN taken[w] = 1 .. n /\ DOMAIN taken'[w] = 1 .. n + k
  BY <1>2 DEF TypeOK
<1>4. ASSUME NEW p
      PROVE  /\ InQueue(p)' => InQueue(p)
             /\ Holds(w, p)' => Holds(w, p) \/ InQueue(p)
  <2>1. \A i \in 1 .. m - k : i + k \in 1 .. m
    BY <1>2
  <2>2. \A i \in 1 .. n + k : i \in 1 .. n \/ (i - n \in 1 .. m /\ ~ i <= n)
    BY <1>2
  <2>3. InQueue(p)' => InQueue(p)
    BY <1>2, <1>3, <2>1 DEF InQueue
  <2>4. Holds(w, p)' => Holds(w, p) \/ InQueue(p)
    <3> SUFFICES ASSUME NEW i \in 1 .. n + k, taken'[w][i] = p
                 PROVE  Holds(w, p) \/ InQueue(p)
      BY <1>3 DEF Holds
    <3>1. CASE i \in 1 .. n
      <4>1. i <= n
        BY <3>1
      <4> QED
        BY <1>2, <1>3, <3>1, <4>1 DEF Holds
    <3>2. CASE i - n \in 1 .. m /\ ~ i <= n
      BY <1>2, <1>3, <3>2 DEF InQueue
    <3> QED
      BY <2>2, <3>1, <3>2
  <2> QED
    BY <2>3, <2>4
<1>5. ASSUME NEW m2 \in met'
      PROVE  MetInv(m2[2])'
  <2> DEFINE p == m2[2]
  <2>1. p \in Paths /\ MetInv(p)
    BY <1>1, <1>5 DEF TypeOK, OpensInv
  <2> HIDE DEF p
  <2>2. ~ InQueue(p) /\ ~ Holds(w, p)
    BY <1>1, <2>1, PathFacts DEF MetInv, ReqOpen, RespOpen
  <2>3. ~ WaitedFor(p)'
    BY <1>1, <1>4, <2>1 DEF MetInv, WaitedFor, WithHost, InPipe
  <2>4. \A v \in Workers : Holds(v, p)' => Holds(v, p) /\ v # w
    BY <1>2, <1>4, <2>2 DEF Holds
  <2>5. MetInv(p)'
    BY <1>1, <1>2, <2>1, <2>3, <2>4, MetKept DEF MetInv
  <2> QED
    BY <2>5 DEF p
<1>6. \A v \in Workers : HasMet(v)'
  <2>1. HasMet(w)'
    BY <1>1 DEF HasMet, ReqOpen, Talking
  <2> QED
    BY <1>1, <1>2, <2>1, HasMetKept
<1> QED
  BY <1>5, <1>6, OpensStep

LEMMA EndOpens ==
    ASSUME TypeOK, OpensInv, NEW w \in Workers, EndSession(w),
           UNCHANGED <<fifos, met, cpc>>
    PROVE  OpensInv'
<1>1. /\ UNCHANGED <<serverPipe, host, client, queue>>
      /\ wpc'[w] = "take" /\ taken'[w] = <<>>
      /\ \A v \in Workers \ {w} : wpc'[v] = wpc[v] /\ taken'[v] = taken[v]
  BY DEF EndSession, GoWorker, TypeOK
<1>2. ASSUME NEW m \in met'
      PROVE  MetInv(m[2])'
  <2> DEFINE p == m[2]
  <2>1. p \in Paths /\ MetInv(p)
    BY <1>2 DEF TypeOK, OpensInv
  <2> HIDE DEF p
  <2>2. \A v \in Workers : Holds(v, p)' => Holds(v, p) /\ v # w
    BY <1>1 DEF Holds
  <2>3. ~ WaitedFor(p)'
    BY <1>1, <2>1 DEF MetInv, WaitedFor, WithHost, InPipe, InQueue
  <2>4. MetInv(p)'
    BY <1>1, <2>1, <2>2, <2>3, MetKept DEF MetInv
  <2> QED
    BY <2>4 DEF p
<1>3. HasMet(w)'
  BY <1>1 DEF HasMet, ReqOpen, Talking
<1> QED
  BY <1>1, <1>2, <1>3, HasMetKept, OpensStep

\* Two workers never have one path.
LEMMA OneHolder ==
    ASSUME TypeOK, PlacesInv, NEW w \in Workers, wpc[w] # "take"
    PROVE  /\ Holds(w, ReqPipe(w)) /\ Holds(w, RespPipe(w))
           /\ ReqPipe(w) # RespPipe(w)
           /\ \A v \in Workers : /\ Holds(v, ReqPipe(w)) => v = w
                                 /\ Holds(v, RespPipe(w)) => v = w
           /\ ~ WaitedFor(ReqPipe(w)) /\ ~ WaitedFor(RespPipe(w))
<1>1. /\ taken[w] \in Seq(Paths) /\ Len(taken[w]) = 2
      /\ ReqPipe(w) \in Paths /\ RespPipe(w) \in Paths
  BY OwnPaths
<1>2. 1 \in DOMAIN taken[w] /\ 2 \in DOMAIN taken[w]
  BY <1>1
<1>3. Holds(w, ReqPipe(w)) /\ Holds(w, RespPipe(w))
  BY <1>2 DEF Holds, ReqPipe, RespPipe
<1>4. ReqPipe(w) # RespPipe(w)
  BY <1>2 DEF PlacesInv, Distinct, ReqPipe, RespPipe
<1> QED
  BY <1>1, <1>3, <1>4 DEF PlacesInv, PathInv, WaitedFor


\* An open that meets a partner: nobody but the client and the worker of a path
\* open its pipe.
LEMMA MeetStep ==
    ASSUME NEW x, NEW p \in Paths, NEW partners, Pipes!Meet(x, p, partners),
           \A m \in met : MetInv(m[2])',
           partners # {} => MetInv(p)'
    PROVE  /\ met \subseteq met'
           /\ \A m \in met' : MetInv(m[2])'
<1>1. CASE partners = {}
  BY <1>1 DEF Pipes!Meet
<1>2. CASE partners # {}
  <2>1. \A m \in met' : m \in met \/ m[2] = p
    BY <1>2 DEF Pipes!Meet
  <2> QED
    BY <1>2, <2>1 DEF Pipes!Meet
<1> QED
  BY <1>1, <1>2

LEMMA WorkerOpens ==
    ASSUME TypeOK, PlacesInv, EndsInv, OpensInv, NEW w \in Workers, WorkerRest(w)
    PROVE  OpensInv'
<1> USE DEF queueVars, clientVars
<1>1. ASSUME NEW to, UNCHANGED <<queueVars, fifos, cpc>>, wpc[w] # "take",
             wpc' = [wpc EXCEPT ![w] = to],
             wpc[w] \in ReqOpen => to \in ReqOpen,
             wpc[w] \in RespOpen => to \in RespOpen
      PROVE  \A m \in met : MetInv(m[2])'
  <2>1. \A v \in Workers : /\ wpc[v] \in ReqOpen => wpc'[v] \in ReqOpen
                           /\ wpc[v] \in RespOpen => wpc'[v] \in RespOpen
    BY <1>1 DEF TypeOK
  <2>2. \A c \in Clients : InPipe(c)' => InPipe(c)
    BY <1>1 DEF InPipe
  <2> QED
    BY <1>1, <2>1, <2>2, MetSame
<1>2. ASSUME NEW to, UNCHANGED queueVars, wpc[w] # "take",
             wpc' = [wpc EXCEPT ![w] = to],
             \A m \in met' : MetInv(m[2])', met \subseteq met',
             to \in ReqOpen \ {"openReqWait"} => <<w, ReqPipe(w)>> \in met,
             to \in Talking => <<w, RespPipe(w)>> \in met
      PROVE  OpensInv'
  <2>1. HasMet(w)'
    BY <1>2 DEF HasMet, ReqPipe, RespPipe, TypeOK
  <2>2. \A v \in Workers \ {w} : HasMet(v)'
    BY <1>2, HasMetKept DEF TypeOK
  <2> QED
    BY <1>2, <2>1, <2>2, OpensStep
<1>3. CASE ReqOpened(w) \/ RespOpened(w)
  BY <1>1, <1>2, <1>3
     DEF ReqOpened, RespOpened, GoWorker, pipeVars, Pipes!Opened, ReqOpen, RespOpen,
         Talking, OpensInv
<1>4. CASE SendId(w) \/ ReadRequest(w) \/ RepeatRequest(w) \/ SendAnswer(w)
           \/ RepeatUnknown(w)
  <2>1. PICK to \in Talking : wpc' = [wpc EXCEPT ![w] = to]
    BY <1>4 DEF SendId, ReadRequest, RepeatRequest, SendAnswer, RepeatUnknown,
         GoWorker, Talking, TypeOK
  <2>2. wpc[w] \in Talking /\ UNCHANGED <<queueVars, fifos, cpc, met>>
    BY <1>4 DEF SendId, ReadRequest, RepeatRequest, SendAnswer, RepeatUnknown,
         GoWorker, Talking, Pipes!Write, Pipes!Read, pipeVars
  <2> QED
    BY <1>1, <1>2, <2>1, <2>2 DEF ReqOpen, RespOpen, Talking, OpensInv
<1>5. CASE OpenFails(w) \/ WriteBroken(w)
  <2>1. UNCHANGED <<queueVars, fifos, cpc, met, wpc>> /\ wpc[w] # "take"
    BY <1>5 DEF OpenFails, WriteBroken, ServerDies, Pipes!CloseAll
  <2>2. wpc' = [wpc EXCEPT ![w] = wpc[w]]
    BY <2>1 DEF TypeOK
  <2> QED
    BY <1>1, <1>2, <2>1, <2>2 DEF OpensInv
<1>6. CASE ReadQuit(w) \/ RepeatQuit(w)
  BY <1>6, EndOpens DEF ReadQuit, RepeatQuit
<1>7. CASE OpenReq(w)
  <2> PICK p : p = ReqPipe(w)
    OBVIOUS
  <2>1. /\ UNCHANGED <<queueVars, fifos, cpc>> /\ wpc[w] = "openReq"
        /\ wpc' = [wpc EXCEPT ![w] = "openReqWait"] /\ p \in fifos
        /\ Pipes!Meet(w, p, writers[p])
    BY <1>7 DEF OpenReq, GoWorker, Pipes!OpenRead
  <2>2. /\ p \in Paths /\ Holds(w, p) /\ p # RespPipe(w)
        /\ \A v \in Workers : Holds(v, p) => v = w
        /\ ~ WaitedFor(p)
    BY <2>1, OneHolder, OwnPaths
  <2>3. \A m \in met : MetInv(m[2])'
    BY <1>1, <2>1 DEF ReqOpen, RespOpen
  <2>4. ASSUME writers[p] # {}
        PROVE  MetInv(p)'
    <3>1. PICK y : y \in WritersOf(p)
      BY <2>2, <2>4, EndsPointwise
    <3>2. CASE y \in Workers /\ wpc[y] \in RespOpen /\ RespPipe(y) = p
      <4>1. Holds(y, p)
        BY <3>2, OneHolder DEF RespOpen
      <4> QED
        BY <2>2, <3>2, <4>1
    <3>3. CASE y \in Clients /\ cpc[y] \in ClientReqOpen /\ ReqPath(y) = p
      <4>1. \A v \in Workers : Holds(v, p)' => v = w
        BY <2>1, <2>2 DEF Holds
      <4>2. ~ WaitedFor(p)'
        BY <2>1, <2>2 DEF WaitedFor, InPipe, WithHost, InQueue
      <4>3. wpc'[w] \in ReqOpen /\ ReqPipe(w)' = p
        BY <2>1 DEF TypeOK, ReqOpen, ReqPipe
      <4>4. p[2] = "req" /\ cpc'[p[1]] \in ClientReqOpen
        BY <2>1, <3>3, PathFacts
      <4> QED
        BY <2>1, <4>1, <4>2, <4>3, <4>4 DEF MetInv, WaitedFor
    <3> QED
      BY <3>1, <3>2, <3>3 DEF WritersOf
  <2>5. met \subseteq met' /\ \A m \in met' : MetInv(m[2])'
    BY <2>1, <2>2, <2>3, <2>4, MeetStep
  <2> QED
    BY <1>2, <2>1, <2>5 DEF Talking
<1>8. CASE OpenResp(w)
  <2> PICK p : p = RespPipe(w)
    OBVIOUS
  <2>1. /\ UNCHANGED <<queueVars, fifos, cpc>> /\ wpc[w] = "openResp"
        /\ wpc' = [wpc EXCEPT ![w] = "openRespWait"] /\ p \in fifos
        /\ Pipes!Meet(w, p, readers[p])
    BY <1>8 DEF OpenResp, GoWorker, Pipes!OpenWrite
  <2>2. /\ p \in Paths /\ Holds(w, p) /\ p # ReqPipe(w)
        /\ \A v \in Workers : Holds(v, p) => v = w
        /\ ~ WaitedFor(p)
    BY <2>1, OneHolder, OwnPaths
  <2>3. \A m \in met : MetInv(m[2])'
    BY <1>1, <2>1 DEF ReqOpen, RespOpen
  <2>0. <<w, ReqPipe(w)>> \in met
    BY <2>1 DEF OpensInv, ReqOpen
  <2>4. ASSUME readers[p] # {}
        PROVE  MetInv(p)'
    <3>1. PICK y : y \in ReadersOf(p)
      BY <2>2, <2>4, EndsPointwise
    <3>2. CASE y \in Workers /\ wpc[y] \in ReqOpen /\ ReqPipe(y) = p
      <4>1. Holds(y, p)
        BY <3>2, OneHolder DEF ReqOpen
      <4> QED
        BY <2>2, <3>2, <4>1
    <3>3. CASE y \in Clients /\ cpc[y] \in ClientRespOpen /\ RespPath(y) = p
      <4>1. \A v \in Workers : Holds(v, p)' => v = w
        BY <2>1, <2>2 DEF Holds
      <4>2. ~ WaitedFor(p)'
        BY <2>1, <2>2 DEF WaitedFor, InPipe, WithHost, InQueue
      <4>3. wpc'[w] \in RespOpen /\ RespPipe(w)' = p
        BY <2>1 DEF TypeOK, RespOpen, RespPipe
      <4>4. p[2] = "resp" /\ cpc'[p[1]] \in ClientRespOpen
        BY <2>1, <3>3, PathFacts
      <4> QED
        BY <2>1, <4>1, <4>2, <4>3, <4>4 DEF MetInv, WaitedFor
    <3> QED
      BY <3>1, <3>2, <3>3 DEF ReadersOf
  <2>5. met \subseteq met' /\ \A m \in met' : MetInv(m[2])'
    BY <2>1, <2>2, <2>3, <2>4, MeetStep
  <2> QED
    BY <1>2, <2>0, <2>1, <2>5 DEF Talking
<1> QED
  BY <1>3, <1>4, <1>5, <1>6, <1>7, <1>8 DEF WorkerRest

LEMMA ClientOpens ==
    ASSUME TypeOK, PlacesInv, EndsInv, OpensInv, NEW c \in Clients,
           Setup(c) \/ SetupWithoutPipes(c) \/ Client(c) \/ Crash(c)
    PROVE  OpensInv'
<1> USE DEF sessionVars
<1>1. UNCHANGED <<wpc, taken>> /\ fifos \subseteq fifos'
  BY DEF Setup, SetupWithoutPipes, Connect, Client, ClientOpenReq, ClientOpenFails,
         ClientReqOpened, ClientOpenResp, ClientRespOpened, ReadId, SendRequest,
         ReadAnswer, Receive, Quit, ClientBroken, Crash, queueVars, pipeVars,
         Pipes!OpenRead, Pipes!OpenWrite, Pipes!CloseAll, Pipes!Read, Pipes!Write
<1>2. ASSUME NEW from \in ClientPlaces, NEW to \in ClientPlaces,
             cpc[c] = from, cpc' = [cpc EXCEPT ![c] = to],
             UNCHANGED <<queue, client, host>>,
             serverPipe' = serverPipe
                \/ (from = "start" /\ serverPipe' = Append(serverPipe, c)),
             from = "start" => to = "openReq",
             from \in ClientReqOpen => to \in ClientReqOpen \cup {"done", "dead"},
             from \in ClientRespOpen => to \in ClientRespOpen \cup {"done", "dead"},
             from \in {"done", "dead"} => to = from
      PROVE  \A m \in met : MetInv(m[2])'
  <2>1. \A d \in Clients : InPipe(d)' => InPipe(d) \/ cpc[d] = "start"
    <3>1. CASE serverPipe' = serverPipe
      BY <3>1 DEF InPipe
    <3>2. CASE from = "start" /\ serverPipe' = Append(serverPipe, c)
      <4>1. serverPipe \in Seq(Clients)
        BY DEF TypeOK
      <4>2. \A d : InPipe(d)' => InPipe(d) \/ d = c
        BY <3>2, <4>1, AppendHas DEF InPipe
      <4> QED
        BY <1>2, <3>2, <4>2
    <3> QED
      BY <1>2, <3>1, <3>2
  <2>2. \A d \in Clients : \A places \in {ClientReqOpen, ClientRespOpen} :
           cpc[d] \in places \cup {"done", "dead"} =>
              cpc'[d] \in places \cup {"done", "dead"}
    BY <1>2 DEF TypeOK
  <2> QED
    BY <1>1, <1>2, <2>1, <2>2, MetSame
<1>3. ASSUME met \subseteq met', \A m \in met' : MetInv(m[2])'
      PROVE  OpensInv'
  BY <1>1, <1>3, HasMetKept, OpensStep
<1>4. CASE Setup(c) \/ SetupWithoutPipes(c)
  <2>1. /\ GoClient(c, "start", "openReq") /\ UNCHANGED <<queue, client, host, met>>
        /\ serverPipe' = Append(serverPipe, c)
    BY <1>4 DEF Setup, SetupWithoutPipes, Connect
  <2> QED
    BY <1>2, <1>3, <2>1 DEF GoClient, ClientPlaces, ClientReqOpen, ClientRespOpen
<1>5. CASE ClientOpenFails(c) \/ ClientReqOpened(c) \/ ClientRespOpened(c)
           \/ SendRequest(c) \/ ReadId(c) \/ ReadAnswer(c)
  <2>1. /\ UNCHANGED <<serverPipe, queue, client, host, met>>
        /\ \/ GoClient(c, "openReq", "dead")
           \/ GoClient(c, "openReqWait", "openResp")
           \/ GoClient(c, "openRespWait", "readId")
           \/ GoClient(c, "ready", "await")
           \/ GoClient(c, "readId", "ready")
           \/ GoClient(c, "await", "ready")
    BY <1>5 DEF ClientOpenFails, ClientReqOpened, ClientRespOpened, SendRequest, ReadId,
         ReadAnswer, Receive, queueVars, pipeVars, Pipes!Write, Pipes!Read
  <2> QED
    BY <1>2, <1>3, <2>1 DEF GoClient, ClientPlaces, ClientReqOpen, ClientRespOpen
<1>6. CASE Quit(c) \/ ClientBroken(c) \/ Crash(c)
  <2>1. /\ UNCHANGED <<serverPipe, queue, client, host, met>>
        /\ cpc[c] \notin {"start", "done", "dead"}
        /\ \/ cpc' = [cpc EXCEPT ![c] = "done"]
           \/ cpc' = [cpc EXCEPT ![c] = "dead"]
    BY <1>6 DEF Quit, ClientBroken, Crash, GoClient, queueVars, Pipes!CloseAll
  <2>2. cpc[c] \in ClientPlaces
    BY DEF TypeOK
  <2> QED
    BY <1>2, <1>3, <2>1, <2>2 DEF ClientPlaces
<1>7. CASE ClientOpenReq(c)
  <2> DEFINE p == ReqPath(c)
  <2>1. /\ UNCHANGED <<serverPipe, queue, client, host, fifos>>
        /\ GoClient(c, "openReq", "openReqWait") /\ p \in fifos
        /\ Pipes!Meet(c, p, readers[p])
    BY <1>7 DEF ClientOpenReq, Pipes!OpenWrite, queueVars
  <2>2. \A m \in met : MetInv(m[2])'
    BY <1>2, <2>1 DEF GoClient, ClientPlaces, ClientReqOpen, ClientRespOpen
  <2>3. p \in Paths /\ p[1] = c /\ p[2] = "req" /\ \A d \in Clients : p # RespPath(d)
    BY PathFacts
  <2> HIDE DEF p
  <2>4. ASSUME readers[p] # {}
        PROVE  MetInv(p)'
    <3>1. PICK v \in Workers : wpc[v] \in ReqOpen /\ ReqPipe(v) = p
      BY <2>3, <2>4, EndsPointwise DEF ReadersOf
    <3>2. ~ WaitedFor(p) /\ \A u \in Workers : Holds(u, p) => u = v
      BY <3>1, OneHolder DEF ReqOpen
    <3>3. \A u \in Workers : Holds(u, p)' => u = v
      BY <1>1, <3>2 DEF Holds
    <3>4. ~ WaitedFor(p)'
      BY <2>1, <3>2 DEF WaitedFor, InPipe, WithHost, InQueue
    <3>5. wpc'[v] \in ReqOpen /\ ReqPipe(v)' = p
      BY <1>1, <3>1 DEF ReqPipe
    <3>6. cpc'[p[1]] \in ClientReqOpen
      BY <2>1, <2>3 DEF GoClient, TypeOK, ClientReqOpen
    <3> QED
      BY <2>1, <2>3, <3>3, <3>4, <3>5, <3>6 DEF MetInv, WaitedFor
  <2> QED
    BY <1>3, <2>1, <2>2, <2>3, <2>4, MeetStep
<1>8. CASE ClientOpenResp(c)
  <2> DEFINE p == RespPath(c)
  <2>1. /\ UNCHANGED <<serverPipe, queue, client, host, fifos>>
        /\ GoClient(c, "openResp", "openRespWait") /\ p \in fifos
        /\ Pipes!Meet(c, p, writers[p])
    BY <1>8 DEF ClientOpenResp, Pipes!OpenRead, queueVars
  <2>2. \A m \in met : MetInv(m[2])'
    BY <1>2, <2>1 DEF GoClient, ClientPlaces, ClientReqOpen, ClientRespOpen
  <2>3. p \in Paths /\ p[1] = c /\ p[2] = "resp" /\ \A d \in Clients : p # ReqPath(d)
    BY PathFacts
  <2> HIDE DEF p
  <2>4. ASSUME writers[p] # {}
        PROVE  MetInv(p)'
    <3>1. PICK v \in Workers : wpc[v] \in RespOpen /\ RespPipe(v) = p
      BY <2>3, <2>4, EndsPointwise DEF WritersOf
    <3>2. ~ WaitedFor(p) /\ \A u \in Workers : Holds(u, p) => u = v
      BY <3>1, OneHolder DEF RespOpen
    <3>3. \A u \in Workers : Holds(u, p)' => u = v
      BY <1>1, <3>2 DEF Holds
    <3>4. ~ WaitedFor(p)'
      BY <2>1, <3>2 DEF WaitedFor, InPipe, WithHost, InQueue
    <3>5. wpc'[v] \in RespOpen /\ RespPipe(v)' = p
      BY <1>1, <3>1 DEF RespPipe
    <3>6. cpc'[p[1]] \in ClientRespOpen
      BY <2>1, <2>3 DEF GoClient, TypeOK, ClientRespOpen
    <3> QED
      BY <2>1, <2>3, <3>3, <3>4, <3>5, <3>6 DEF MetInv, WaitedFor
  <2> QED
    BY <1>3, <2>1, <2>2, <2>3, <2>4, MeetStep
<1> QED
  BY <1>4, <1>5, <1>6, <1>7, <1>8 DEF Client

LEMMA StepOpens ==
    ASSUME TypeOK, PlacesInv, EndsInv, OpensInv, [Next]_vars
    PROVE  OpensInv'
<1>1. CASE (\E w \in Workers : SpuriousWakeUp(w)) \/ UNCHANGED vars
  <2>1. UNCHANGED <<met, fifos, wpc, taken, cpc, serverPipe, host, client, queue>>
    BY <1>1 DEF SpuriousWakeUp, WakeUp, vars, queueVars, pipeVars, sessionVars, clientVars
  <2> QED
    BY <2>1 DEF OpensInv, MetInv, InPipe, WithHost, InQueue, Holds, ReqPipe, RespPipe
<1> QED
  BY <1>1, HostOpens, TakeOpens, WorkerOpens, ClientOpens
     DEF Next, Quiet, Worker, WorkerRest

------------------------------------------------------------------------------
(***************************************************************************)
(* The pipes of one client, and the end of its session.                    *)
(***************************************************************************)
HasQuit(s) == \E i \in DOMAIN s : s[i][1] = "quit"

LEMMA QuitFacts ==
    ASSUME NEW s \in Seq(Messages)
    PROVE  /\ \A m \in Messages : HasQuit(Append(s, m)) => HasQuit(s) \/ m[1] = "quit"
           /\ s # <<>> => (HasQuit(Tail(s)) => HasQuit(s))
           /\ s # <<>> /\ Head(s)[1] = "quit" => HasQuit(s)
<1>1. ASSUME NEW m \in Messages, HasQuit(Append(s, m))
      PROVE  HasQuit(s) \/ m[1] = "quit"
  <2>1. PICK i \in DOMAIN Append(s, m) : Append(s, m)[i][1] = "quit"
    BY <1>1 DEF HasQuit
  <2>2. (\E j \in DOMAIN s : s[j] = Append(s, m)[i]) \/ Append(s, m)[i] = m
    BY <2>1, AppendHas
  <2> QED
    BY <2>1, <2>2 DEF HasQuit
<1>2. ASSUME s # <<>>, HasQuit(Tail(s))
      PROVE  HasQuit(s)
  <2>1. PICK i \in DOMAIN Tail(s) : Tail(s)[i][1] = "quit"
    BY <1>2 DEF HasQuit
  <2>2. i + 1 \in DOMAIN s /\ Tail(s)[i] = s[i + 1]
    BY <1>2, <2>1
  <2> QED
    BY <2>1, <2>2 DEF HasQuit
<1>3. s # <<>> => 1 \in DOMAIN s /\ Head(s) = s[1]
  OBVIOUS
<1> QED
  BY <1>1, <1>2, <1>3 DEF HasQuit

LEMMA PipesSplit ==
    PipesInv <=> \A c \in Clients :
                    /\ ReqPath(c) \in fifos <=> RespPath(c) \in fifos
                    /\ cpc[c] = "start" => ReqPath(c) \notin fifos
                    /\ HasQuit(content[ReqPath(c)]) => cpc[c] = "done"
  BY DEF PipesInv, HasQuit

LEMMA PipesStep ==
    ASSUME TypeOK, PipesInv, [Next]_vars
    PROVE  PipesInv'
<1> USE DEF queueVars, pipeVars, sessionVars, clientVars
<1>1. ASSUME fifos' = fifos,
             \A c \in Clients :
                /\ cpc'[c] = "start" => cpc[c] = "start"
                /\ cpc[c] = "done" => cpc'[c] = "done"
                /\ HasQuit(content'[ReqPath(c)]) =>
                      HasQuit(content[ReqPath(c)]) \/ cpc'[c] = "done"
      PROVE  PipesInv'
  <2>1. \A c \in Clients : /\ ReqPath(c) \in fifos' <=> RespPath(c) \in fifos'
                           /\ cpc'[c] = "start" => ReqPath(c) \notin fifos'
                           /\ HasQuit(content'[ReqPath(c)]) => cpc'[c] = "done"
    BY <1>1, PipesSplit
  <2> QED
    BY <2>1 DEF PipesInv, HasQuit
<1>2. ASSUME NEW p \in Paths, NEW m \in Messages, Pipes!Write(p, m), m[1] # "quit"
      PROVE  fifos' = fifos /\ \A c \in Clients :
                HasQuit(content'[ReqPath(c)]) => HasQuit(content[ReqPath(c)])
  <2> SUFFICES ASSUME NEW c \in Clients, HasQuit(content'[ReqPath(c)])
               PROVE  HasQuit(content[ReqPath(c)])
    BY <1>2 DEF Pipes!Write
  <2>1. content[ReqPath(c)] \in Seq(Messages)
    BY PathFacts DEF TypeOK
  <2>2. \/ content'[ReqPath(c)] = content[ReqPath(c)]
        \/ content'[ReqPath(c)] = Append(content[ReqPath(c)], m)
    BY <1>2, PathFacts DEF Pipes!Write, TypeOK
  <2> QED
    BY <1>2, <2>1, <2>2, QuitFacts
<1>3. ASSUME NEW p \in Paths, content[p] # <<>>,
             content' = [content EXCEPT ![p] = Tail(@)]
      PROVE  \A c \in Clients :
                HasQuit(content'[ReqPath(c)]) => HasQuit(content[ReqPath(c)])
  <2> SUFFICES ASSUME NEW c \in Clients, HasQuit(content'[ReqPath(c)])
               PROVE  HasQuit(content[ReqPath(c)])
    OBVIOUS
  <2>1. content[ReqPath(c)] \in Seq(Messages)
    BY PathFacts DEF TypeOK
  <2>2. \/ content'[ReqPath(c)] = content[ReqPath(c)]
        \/ /\ content[ReqPath(c)] # <<>>
           /\ content'[ReqPath(c)] = Tail(content[ReqPath(c)])
    BY <1>3, PathFacts DEF TypeOK
  <2> QED
    BY <2>1, <2>2, QuitFacts
<1>4. CASE Host \/ (\E w \in Workers : SpuriousWakeUp(w)) \/ UNCHANGED vars
           \/ \E w \in Workers : Take(w)
  <2>1. UNCHANGED <<fifos, content, cpc>>
    BY <1>4 DEF Host, SpuriousWakeUp, Take, vars
  <2> QED
    BY <1>1, <2>1
<1>5. ASSUME NEW w \in Workers, WorkerRest(w)
      PROVE  PipesInv'
  <2>1. CASE OpenReq(w) \/ OpenFails(w) \/ ReqOpened(w) \/ OpenResp(w) \/ RespOpened(w)
             \/ RepeatQuit(w) \/ RepeatRequest(w) \/ RepeatUnknown(w) \/ WriteBroken(w)
    <3>1. UNCHANGED <<fifos, content, cpc>>
      BY <2>1 DEF OpenReq, OpenFails, ReqOpened, OpenResp, RespOpened, RepeatQuit,
           RepeatRequest, RepeatUnknown, WriteBroken, ServerDies, Pipes!OpenRead,
           Pipes!OpenWrite, Pipes!CloseAll
    <3> QED
      BY <1>1, <3>1
  <2>2. CASE SendId(w)
    BY <1>1, <1>2, <2>2, MessageFacts, OwnPaths DEF SendId, GoWorker
  <2>3. CASE SendAnswer(w)
    <3>1. <<"answer", request[w]>> \in Messages
      BY AnswerType
    <3> QED
      BY <1>1, <1>2, <2>3, <3>1, OwnPaths DEF SendAnswer, GoWorker
  <2>4. CASE ReadQuit(w)
    BY <1>1, <1>3, <2>4, OwnPaths DEF ReadQuit
  <2>5. CASE ReadRequest(w)
    BY <1>1, <1>3, <2>5, OwnPaths DEF ReadRequest, GoWorker, Pipes!Read
  <2> QED
    BY <1>5, <2>1, <2>2, <2>3, <2>4, <2>5 DEF WorkerRest
<1>6. ASSUME NEW c \in Clients, NEW made, Connect(c, made),
             made = {} \/ made = {ReqPath(c), RespPath(c)}
      PROVE  PipesInv'
  <2>1. /\ fifos' = fifos \cup made /\ content' = content
        /\ cpc[c] = "start" /\ cpc'[c] = "openReq"
        /\ \A d \in Clients \ {c} : cpc'[d] = cpc[d]
    BY <1>6 DEF Connect, GoClient, TypeOK
  <2>2. \A d \in Clients : /\ ReqPath(d) \in fifos' <=> RespPath(d) \in fifos'
                           /\ cpc'[d] = "start" => ReqPath(d) \notin fifos'
                           /\ HasQuit(content'[ReqPath(d)]) => cpc'[d] = "done"
    BY <1>6, <2>1, PipesSplit, PathFacts
  <2> QED
    BY <2>2 DEF PipesInv, HasQuit
<1>7. ASSUME NEW c \in Clients, Client(c) \/ Crash(c)
      PROVE  PipesInv'
  <2>1. CASE ClientOpenReq(c) \/ ClientOpenFails(c) \/ ClientReqOpened(c)
             \/ ClientOpenResp(c) \/ ClientRespOpened(c) \/ ClientBroken(c) \/ Crash(c)
    <3>1. /\ UNCHANGED <<fifos, content>> /\ cpc[c] # "done" /\ cpc'[c] # "start"
          /\ \A d \in Clients \ {c} : cpc'[d] = cpc[d]
      BY <2>1 DEF ClientOpenReq, ClientOpenFails, ClientReqOpened, ClientOpenResp,
           ClientRespOpened, ClientBroken, Crash, GoClient, Pipes!OpenRead,
           Pipes!OpenWrite, Pipes!CloseAll, TypeOK
    <3> QED
      BY <1>1, <3>1
  <2>2. ASSUME NEW from, from # "done", Receive(c, from)
        PROVE  PipesInv'
    <3>1. /\ fifos' = fifos /\ cpc[c] # "done" /\ cpc'[c] # "start"
          /\ \A d \in Clients \ {c} : cpc'[d] = cpc[d]
      BY <2>2 DEF Receive, GoClient, Pipes!Read, TypeOK
    <3>2. \A d \in Clients :
             HasQuit(content'[ReqPath(d)]) => HasQuit(content[ReqPath(d)])
      BY <1>3, <2>2, PathFacts DEF Receive, Pipes!Read
    <3> QED
      BY <1>1, <3>1, <3>2
  <2>3. CASE SendRequest(c)
    <3>1. /\ cpc[c] # "done" /\ cpc'[c] # "start"
          /\ \A d \in Clients \ {c} : cpc'[d] = cpc[d]
      BY <2>3 DEF SendRequest, GoClient, TypeOK
    <3>2. <<"serve", <<c, sent[c] + 1>>>> \in Messages
      <4>1. sent[c] + 1 \in 1 .. MaxRequests
        BY <2>3, SessionsAssumption DEF SendRequest, TypeOK
      <4> QED
        BY <4>1, MessageFacts
    <3>3. fifos' = fifos /\ \A d \in Clients :
             HasQuit(content'[ReqPath(d)]) => HasQuit(content[ReqPath(d)])
      BY <1>2, <2>3, <3>2, PathFacts DEF SendRequest
    <3> QED
      BY <1>1, <3>1, <3>3
  <2>4. CASE Quit(c)
    <3>1. /\ fifos' = fifos /\ cpc[c] # "done" /\ cpc'[c] = "done"
          /\ \A d \in Clients \ {c} : cpc'[d] = cpc[d]
          /\ \A d \in Clients \ {c} : content'[ReqPath(d)] = content[ReqPath(d)]
      BY <2>4, PathFacts DEF Quit, GoClient, Pipes!CloseAll, TypeOK
    <3> QED
      BY <1>1, <3>1
  <2> QED
    BY <1>7, <2>1, <2>2, <2>3, <2>4 DEF Client, ReadId, ReadAnswer
<1> QED
  BY <1>4, <1>5, <1>6, <1>7 DEF Next, Quiet, Worker, WorkerRest, Setup, SetupWithoutPipes

\* The pipes of a worker that has met its client.
LEMMA MetPaths ==
    ASSUME TypeOK, PlacesInv, OpensInv, NEW w \in Workers, wpc[w] \in Talking
    PROVE  \E c, d \in Clients :
              /\ taken[w] = <<ReqPath(c), RespPath(d)>>
              /\ ReqPath(c) \in fifos /\ RespPath(d) \in fifos
              /\ cpc[c] \in ClientReqOpen \cup {"done", "dead"}
              /\ cpc[d] \in ClientRespOpen \cup {"done", "dead"}
<1>1. /\ ReqPipe(w) \in Paths /\ RespPipe(w) \in Paths
      /\ taken[w] = <<ReqPipe(w), RespPipe(w)>>
      /\ Holds(w, ReqPipe(w)) /\ Holds(w, RespPipe(w)) /\ ReqPipe(w) # RespPipe(w)
  BY OwnPaths, OneHolder DEF Talking
<1>2. MetInv(ReqPipe(w)) /\ MetInv(RespPipe(w))
  BY DEF OpensInv, Talking, ReqOpen
<1>3. ReqPipe(w)[2] = "req" /\ RespPipe(w)[2] # "req"
  BY <1>1, <1>2 DEF MetInv
<1> QED
  BY <1>1, <1>2, <1>3, PathFacts DEF MetInv

LEMMA SessionEndPlaces ==
    ASSUME TypeOK, PlacesInv, EndsInv, OpensInv, PipesInv, NEW w \in Workers,
           ReadQuit(w) \/ RepeatQuit(w)
    PROVE  PlacesInv'
<1>1. /\ taken' = [taken EXCEPT ![w] = <<>>] /\ wpc[w] = "active"
      /\ UNCHANGED <<serverPipe, host, client, queue, cpc>>
  BY DEF ReadQuit, RepeatQuit, EndSession, clientVars
<1>2. PICK c, d \in Clients :
              /\ taken[w] = <<ReqPath(c), RespPath(d)>>
              /\ cpc[c] \in ClientReqOpen \cup {"done", "dead"}
              /\ cpc[d] \in ClientRespOpen \cup {"done", "dead"}
  BY <1>1, MetPaths DEF Talking
<1>3. ReqPipe(w) = ReqPath(c)
  BY <1>2 DEF ReqPipe
<1>4. cpc[c] \notin {"openReq", "openReqWait"}
  <2>1. CASE ReadQuit(w)
    <3>1. content[ReqPath(c)] \in Seq(Messages)
      BY PathFacts DEF TypeOK
    <3>2. HasQuit(content[ReqPath(c)])
      BY <1>3, <2>1, <3>1, QuitFacts DEF ReadQuit
    <3> QED
      BY <3>2, PipesSplit
  <2>2. CASE RepeatQuit(w)
    <3>1. writers[ReqPath(c)] = {} /\ ReqPath(c) \in Paths
      BY <1>3, <2>2, PathFacts DEF RepeatQuit, Pipes!AtEnd
    <3>2. c \notin WritersOf(ReqPath(c))
      BY <3>1, EndsPointwise
    <3>3. cpc[c] \notin ClientReqOpen
      BY <3>2 DEF WritersOf
    <3> QED
      BY <1>2, <3>3 DEF ClientReqOpen
  <2> QED
    BY <2>1, <2>2
<1>5. \A i \in DOMAIN taken[w] : taken[w][i][1] \in {c, d}
  <2>1. DOMAIN <<ReqPath(c), RespPath(d)>> = {1, 2}
    OBVIOUS
  <2> QED
    BY <1>2, <2>1, PathFacts
<1>6. cpc[d] \notin {"openReq", "openReqWait"}
  BY <1>2 DEF ClientRespOpen
<1>7. \A i \in DOMAIN taken[w] : cpc[taken[w][i][1]] \notin {"openReq", "openReqWait"}
  BY <1>4, <1>5, <1>6
<1> QED
  BY <1>1, <1>7, EndPlaces

LEMMA PlacesStep ==
    ASSUME PathsInv, [Next]_vars
    PROVE  PlacesInv'
<1> USE DEF PathsInv, queueVars, pipeVars, sessionVars, clientVars
<1>1. CASE Host
  <2>1. CASE HostSignal
    BY <1>1, <2>1, PlacesSame DEF Host, HostSignal
  <2> QED
    BY <1>1, <2>1, HostRequestPlaces, HostResponsePlaces DEF Host
<1>2. CASE (\E w \in Workers : SpuriousWakeUp(w)) \/ UNCHANGED vars
  <2>1. UNCHANGED <<serverPipe, host, client, queue, taken, cpc>>
    BY <1>2 DEF SpuriousWakeUp, WakeUp, vars
  <2> QED
    BY <2>1, PlacesSame
<1>3. ASSUME NEW w \in Workers, WorkerRest(w), ~ ReadQuit(w), ~ RepeatQuit(w)
      PROVE  PlacesInv'
  <2>1. UNCHANGED <<serverPipe, host, client, queue, taken, cpc>>
    BY <1>3 DEF WorkerRest, OpenReq, OpenFails, ReqOpened, OpenResp, RespOpened, SendId,
         ReadRequest, RepeatRequest, RepeatUnknown, SendAnswer, WriteBroken, ServerDies
  <2> QED
    BY <2>1, PlacesSame
<1>4. ASSUME NEW c \in Clients, Client(c) \/ Crash(c)
      PROVE  PlacesInv'
  <2>1. UNCHANGED <<serverPipe, host, client, queue, taken>>
    BY <1>4 DEF Client, ClientOpenReq, ClientOpenFails, ClientReqOpened, ClientOpenResp,
         ClientRespOpened, ReadId, SendRequest, ReadAnswer, Receive, Quit, ClientBroken,
         Crash
  <2>2. /\ \A d \in Clients \ {c} : cpc'[d] = cpc[d]
        /\ cpc'[c] # "start" /\ (cpc'[c] \in {"openReq", "openReqWait"} => cpc[c] = "openReq")
    BY <1>4 DEF Client, ClientOpenReq, ClientOpenFails, ClientReqOpened, ClientOpenResp,
         ClientRespOpened, ReadId, SendRequest, ReadAnswer, Receive, Quit, ClientBroken,
         Crash, GoClient, TypeOK
  <2> QED
    BY <2>1, <2>2, PlacesSame
<1> QED
  BY <1>1, <1>2, <1>3, <1>4, ConnectPlaces, TakePlaces, SessionEndPlaces
     DEF Next, Quiet, Worker, WorkerRest, Setup, SetupWithoutPipes

LEMMA PathsInit == Init => PathsInv
<1> SUFFICES ASSUME Init PROVE PathsInv
  OBVIOUS
<1>1. TypeOK
  BY InitType
<1>2. DOMAIN <<>> = {}
  OBVIOUS
<1>3. PlacesInv
  BY <1>2, PathFacts DEF Init, QueueInit, PlacesInv, PathInv, Distinct, InPipe, WithHost,
       InQueue, Holds
<1>4. EndsInv
  <2>1. \A p \in Paths : readers[p] = ReadersOf(p) /\ writers[p] = WritersOf(p)
    BY DEF Init, Pipes!PipesInit, ReadersOf, WritersOf, ReqOpen, RespOpen, ClientReqOpen,
         ClientRespOpen
  <2> QED
    BY <1>1, <2>1, EndsPointwise
<1>5. OpensInv
  BY DEF Init, Pipes!PipesInit, OpensInv, ReqOpen, Talking
<1>6. PipesInv
  BY <1>2, PathFacts DEF Init, Pipes!PipesInit, PipesInv
<1> QED
  BY <1>1, <1>3, <1>4, <1>5, <1>6 DEF PathsInv

LEMMA PathsStep == PathsInv /\ [Next]_vars => PathsInv'
<1> SUFFICES ASSUME PathsInv, [Next]_vars PROVE PathsInv'
  OBVIOUS
<1> USE DEF PathsInv
<1>1. TypeOK'
  BY TypeStep
<1>2. EndsInv'
  BY <1>1, WorkerEnds, ClientEnds, OtherEnds DEF Next, Quiet
<1> QED
  BY <1>1, <1>2, PlacesStep, StepOpens, PipesStep

LEMMA PathsInvariant == Spec => []PathsInv
  BY PathsInit, PathsStep, PTL DEF Spec

LEMMA CountOne ==
    ASSUME NEW S, \A x, y \in S : x = y
    PROVE  Cardinality(S) = IF S = {} THEN 0 ELSE 1
<1>1. ASSUME NEW x \in S PROVE Cardinality(S) = 1
  <2>1. S = {x}
    OBVIOUS
  <2> QED
    BY <2>1, FS_Singleton
<1> QED
  BY <1>1, FS_EmptySet

LEMMA PlacesCount == PathsInv => PathsConserved
<1> SUFFICES ASSUME PathsInv, NEW c \in Clients, NEW p \in {ReqPath(c), RespPath(c)}
             PROVE  /\ Copies(p) <= 1
                    /\ cpc[c] \in {"openReq", "openReqWait"} => Copies(p) = 1
  BY DEF PathsConserved
<1>1. p \in Paths /\ p[1] = c
  BY PathFacts
<1> DEFINE A == {i \in DOMAIN serverPipe : serverPipe[i] = p[1]}
           B == {i \in DOMAIN queue : queue[i] = p}
           C == {w \in Workers : \E i \in DOMAIN taken[w] : taken[w][i] = p}
<1>2. PathInv(p) /\ Distinct(serverPipe) /\ Distinct(queue)
  BY <1>1 DEF PathsInv, PlacesInv
<1>3. /\ \A x, y \in A : x = y
      /\ A = {} <=> ~ InPipe(p[1])
  BY <1>2 DEF Distinct, InPipe
<1>4. /\ \A x, y \in B : x = y
      /\ B = {} <=> ~ InQueue(p)
  BY <1>2 DEF Distinct, InQueue
<1>5. /\ \A x, y \in C : x = y
      /\ C = {} <=> \A w \in Workers : ~ Holds(w, p)
  BY <1>2 DEF PathInv, Holds
<1>6. Copies(p) = Cardinality(A) + (IF WithHost(p) THEN 1 ELSE 0) + Cardinality(B)
                    + Cardinality(C)
  BY DEF Copies, WithHost
<1> HIDE DEF A, B, C
<1>7. /\ Cardinality(A) = IF InPipe(p[1]) THEN 1 ELSE 0
      /\ Cardinality(B) = IF InQueue(p) THEN 1 ELSE 0
      /\ Cardinality(C) = IF \A w \in Workers : ~ Holds(w, p) THEN 0 ELSE 1
  BY <1>3, <1>4, <1>5, CountOne
<1> QED
  BY <1>1, <1>2, <1>6, <1>7 DEF PathInv

\* No path is lost or handed to two workers, with any number of clients and of
\* workers, whoever is killed: it is in one place as long as its client waits for
\* somebody to open it, and never in two.
THEOREM PathsKept == Spec => []PathsConserved
  BY PathsInvariant, PlacesCount, PTL

------------------------------------------------------------------------------
(***************************************************************************)
(* A session, as long as every worker has the pipes of one client.         *)
(***************************************************************************)
LEMMA PairFacts ==
    \A c, d \in Clients : /\ Pair(c) = Pair(d) => c = d
                          /\ Pair(c)[1] = ReqPath(c) /\ Pair(c)[2] = RespPath(c)
                          /\ Len(Pair(c)) = 2 /\ Pair(c) # <<>>
                          /\ DOMAIN Pair(c) = {1, 2}
  BY PathFacts DEF Pair

LEMMA OwnPair ==
    ASSUME TypeOK, ClientsPipes, NEW w \in Workers, wpc[w] # "take"
    PROVE  \E c \in Clients : /\ taken[w] = Pair(c)
                              /\ ReqPipe(w) = ReqPath(c) /\ RespPipe(w) = RespPath(c)
  BY OwnPaths, PairFacts DEF ClientsPipes, Pair, ReqPipe, RespPipe

LEMMA OnePair ==
    ASSUME TypeOK, PlacesInv, NEW c \in Clients, NEW w \in Workers, taken[w] = Pair(c)
    PROVE  /\ wpc[w] # "take"
           /\ ReqPipe(w) = ReqPath(c) /\ RespPipe(w) = RespPath(c)
           /\ Holds(w, ReqPath(c)) /\ Holds(w, RespPath(c))
           /\ \A v \in Workers : taken[v] = Pair(c) => v = w
           /\ cpc[c] # "start"
<1>1. \A v \in Workers : taken[v] = Pair(c) => Holds(v, ReqPath(c)) /\ Holds(v, RespPath(c))
  BY PairFacts DEF Holds
<1>2. wpc[w] # "take"
  <2>1. Len(taken[w]) = 2
    BY PairFacts
  <2>2. wpc[w] = "take" => Len(taken[w]) < 2
    BY DEF TypeOK
  <2> QED
    BY <2>1, <2>2
<1>3. PathInv(ReqPath(c)) /\ ReqPath(c)[1] = c
  BY PathFacts DEF PlacesInv
<1> QED
  BY <1>1, <1>2, <1>3, PairFacts DEF PathInv, ReqPipe, RespPipe

\* What the steps of a client, of a worker and of the others leave alone.
LEMMA ClientFrame ==
    ASSUME TypeOK, NEW c \in Clients,
           Setup(c) \/ SetupWithoutPipes(c) \/ Client(c) \/ Crash(c)
    PROVE  /\ UNCHANGED <<up, wpc, taken, request, host, client, queue, waiting>>
           /\ met \subseteq met'
           /\ \A d \in Clients \ {c} :
                 /\ cpc'[d] = cpc[d] /\ sent'[d] = sent[d] /\ heard'[d] = heard[d]
                 /\ content'[ReqPath(d)] = content[ReqPath(d)]
                 /\ content'[RespPath(d)] = content[RespPath(d)]
<1> USE DEF GoClient, queueVars, sessionVars, pipeVars, TypeOK
<1>1. CASE Setup(c) \/ SetupWithoutPipes(c) \/ ClientOpenFails(c) \/ ClientReqOpened(c)
           \/ ClientRespOpened(c) \/ ClientBroken(c) \/ Crash(c)
  BY <1>1 DEF Setup, SetupWithoutPipes, Connect, ClientOpenFails, ClientReqOpened,
       ClientRespOpened, ClientBroken, Crash, Pipes!CloseAll
<1>2. CASE ClientOpenReq(c) \/ ClientOpenResp(c)
  BY <1>2 DEF ClientOpenReq, ClientOpenResp, Pipes!OpenRead, Pipes!OpenWrite, Pipes!Meet
<1>3. CASE ReadId(c) \/ ReadAnswer(c)
  BY <1>3, PathFacts, SMTT(30) DEF ReadId, ReadAnswer, Receive, Pipes!Read
<1>4. CASE SendRequest(c)
  BY <1>4, PathFacts DEF SendRequest, Pipes!Write
<1>5. CASE Quit(c)
  BY <1>5, PathFacts DEF Quit, Pipes!CloseAll
<1> QED
  BY <1>1, <1>2, <1>3, <1>4, <1>5 DEF Client

LEMMA WorkerFrame ==
    ASSUME TypeOK, NEW w \in Workers, WorkerRest(w)
    PROVE  /\ UNCHANGED <<clientVars, serverPipe, host, client, queue, waiting, fifos>>
           /\ wpc[w] # "take"
           /\ met \subseteq met'
           /\ \A v \in Workers \ {w} : /\ wpc'[v] = wpc[v] /\ taken'[v] = taken[v]
                                       /\ request'[v] = request[v]
           /\ \A p \in Paths : \/ content'[p] = content[p]
                               \/ wpc[w] \in Talking /\ p \in {ReqPipe(w), RespPipe(w)}
<1> USE DEF GoWorker, queueVars, pipeVars, TypeOK
<1>1. CASE OpenReq(w) \/ OpenResp(w)
  BY <1>1 DEF OpenReq, OpenResp, Pipes!OpenRead, Pipes!OpenWrite, Pipes!Meet
<1>2. CASE OpenFails(w) \/ WriteBroken(w)
  BY <1>2 DEF OpenFails, WriteBroken, ServerDies, Pipes!CloseAll
<1>3. CASE ReqOpened(w) \/ RespOpened(w) \/ RepeatRequest(w) \/ RepeatUnknown(w)
  BY <1>3 DEF ReqOpened, RespOpened, RepeatRequest, RepeatUnknown
<1>4. CASE SendId(w) \/ SendAnswer(w)
  BY <1>4 DEF SendId, SendAnswer, Pipes!Write, Talking
<1>5. CASE ReadRequest(w)
  BY <1>5 DEF ReadRequest, Pipes!Read, Talking
<1>6. CASE ReadQuit(w) \/ RepeatQuit(w)
  BY <1>6 DEF ReadQuit, RepeatQuit, EndSession, Talking
<1> QED
  BY <1>1, <1>2, <1>3, <1>4, <1>5, <1>6 DEF WorkerRest

LEMMA OtherFrame ==
    ASSUME \/ Host \/ UNCHANGED vars \/ \E w \in Workers : SpuriousWakeUp(w)
    PROVE  UNCHANGED <<sessionVars, clientVars, pipeVars, taken>>
  BY DEF Host, HostRequest, HostResponse, HostSignal, SpuriousWakeUp, WakeUp, vars,
         queueVars

LEMMA TakeFrame ==
    ASSUME TypeOK, NEW w \in Workers, Take(w)
    PROVE  /\ UNCHANGED <<up, request, clientVars, pipeVars, serverPipe, host, client>>
           /\ wpc[w] = "take" /\ wpc'[w] \in {"take", "openReq"}
           /\ \A v \in Workers \ {w} : wpc'[v] = wpc[v] /\ taken'[v] = taken[v]
  BY DEF Take, TakePaths, GoWorker, TypeOK

\* Whose pipes a worker reads from and writes to.
LEMMA WorkerContent ==
    ASSUME PathsInv, ClientsPipes, NEW w \in Workers, WorkerRest(w), NEW c \in Clients
    PROVE  \/ /\ content'[ReqPath(c)] = content[ReqPath(c)]
              /\ content'[RespPath(c)] = content[RespPath(c)]
           \/ /\ wpc[w] \in Talking /\ taken[w] = Pair(c)
              /\ cpc[c] \in ClientRespOpen \cup {"done", "dead"}
<1> USE DEF PathsInv
<1>1. CASE wpc[w] \notin Talking
  BY <1>1, WorkerFrame, PathFacts
<1>2. CASE wpc[w] \in Talking
  <2>1. PICK d \in Clients : /\ taken[w] = Pair(d)
                             /\ ReqPipe(w) = ReqPath(d) /\ RespPipe(w) = RespPath(d)
    BY <1>2, OwnPair DEF Talking
  <2>2. CASE d = c
    <3>1. MetInv(RespPath(c))
      BY <1>2, <2>1, <2>2 DEF OpensInv
    <3> QED
      BY <1>2, <2>1, <2>2, <3>1, PathFacts DEF MetInv
  <2>3. CASE d # c
    BY <2>1, <2>3, WorkerFrame, PathFacts
  <2> QED
    BY <2>2, <2>3
<1> QED
  BY <1>1, <1>2

LEMMA ClientInvStep ==
    ASSUME PathsInv, ClientsPipes, [Next]_vars, NEW c \in Clients, ClientInv(c)
    PROVE  ClientInv(c)'
<1> USE DEF PathsInv
<1>1. ASSUME cpc'[c] = cpc[c], sent'[c] = sent[c], met \subseteq met',
             \/ /\ content'[ReqPath(c)] = content[ReqPath(c)]
                /\ content'[RespPath(c)] = content[RespPath(c)]
             \/ cpc[c] \in ClientRespOpen \cup {"done", "dead"}
      PROVE  ClientInv(c)'
  BY <1>1 DEF ClientInv, InPipes, ClientRespOpen
<1>2. CASE \/ Host \/ UNCHANGED vars \/ \E w \in Workers : SpuriousWakeUp(w)
  BY <1>1, <1>2, OtherFrame DEF clientVars, pipeVars
<1>3. ASSUME NEW w \in Workers, Worker(w)
      PROVE  ClientInv(c)'
  <2>1. CASE Take(w)
    BY <1>1, <2>1, TakeFrame DEF clientVars, pipeVars
  <2>2. CASE WorkerRest(w)
    BY <1>1, <2>2, WorkerFrame, WorkerContent DEF clientVars
  <2> QED
    BY <1>3, <2>1, <2>2 DEF Worker, WorkerRest
<1>4. ASSUME NEW d \in Clients, d # c,
             Setup(d) \/ SetupWithoutPipes(d) \/ Client(d) \/ Crash(d)
      PROVE  ClientInv(c)'
  BY <1>1, <1>4, ClientFrame
<1>5. CASE Setup(c) \/ SetupWithoutPipes(c) \/ Client(c) \/ Crash(c)
  <2> USE DEF GoClient, ClientInv, ClientReqOpen, ClientRespOpen, TypeOK
  <2>0. met \subseteq met'
    BY <1>5, ClientFrame
  <2>1. CASE Setup(c) \/ SetupWithoutPipes(c)
    BY <2>0, <2>1 DEF Setup, SetupWithoutPipes, Connect, InPipes
  <2>2. CASE ClientOpenReq(c)
    BY <2>0, <2>2 DEF ClientOpenReq, Pipes!OpenWrite, InPipes
  <2>3. CASE ClientOpenFails(c) \/ ClientBroken(c) \/ Crash(c)
    BY <2>0, <2>3 DEF ClientOpenFails, ClientBroken, Crash
  <2>4. CASE ClientReqOpened(c)
    BY <2>0, <2>4 DEF ClientReqOpened, Pipes!Opened, pipeVars
  <2>5. CASE ClientOpenResp(c)
    BY <2>0, <2>5 DEF ClientOpenResp
  <2>6. CASE ClientRespOpened(c)
    BY <2>0, <2>6 DEF ClientRespOpened, Pipes!Opened, pipeVars
  <2>7. CASE ReadId(c) \/ ReadAnswer(c)
    BY <2>0, <2>7 DEF ReadId, ReadAnswer, Receive
  <2>8. CASE SendRequest(c)
    <3>1. sent[c] \in Nat /\ sent'[c] = sent[c] + 1
      BY <2>8, SessionsAssumption DEF SendRequest
    <3>2. sent'[c] # 0
      BY <3>1
    <3> QED
      BY <2>0, <2>8, <3>2 DEF SendRequest
  <2>9. CASE Quit(c)
    BY <2>0, <2>9 DEF Quit
  <2> QED
    BY <1>5, <2>1, <2>2, <2>3, <2>4, <2>5, <2>6, <2>7, <2>8, <2>9 DEF Client
<1> QED
  BY <1>2, <1>3, <1>4, <1>5 DEF Next, Quiet


\* A client that is left alone by the end of a session.
LEMMA EndLeaves ==
    ASSUME PathsInv, NEW w \in Workers, NEW c \in Clients, taken[w] = Pair(c),
           ReadQuit(w) \/ RepeatQuit(w)
    PROVE  cpc[c] \notin ClientReqOpen
<1> USE DEF PathsInv
<1>1. ReqPipe(w) = ReqPath(c) /\ ReqPath(c) \in Paths
  BY OnePair, PathFacts
<1>2. CASE ReadQuit(w)
  <2>1. content[ReqPath(c)] \in Seq(Messages)
    BY <1>1 DEF TypeOK
  <2>2. HasQuit(content[ReqPath(c)])
    BY <1>1, <1>2, <2>1, QuitFacts DEF ReadQuit
  <2> QED
    BY <2>2, PipesSplit DEF ClientReqOpen
<1>3. CASE RepeatQuit(w)
  <2>1. writers[ReqPath(c)] = {}
    BY <1>1, <1>3 DEF RepeatQuit, Pipes!AtEnd
  <2> QED
    BY <1>1, <2>1, EndsPointwise DEF WritersOf
<1> QED
  BY <1>2, <1>3

LEMMA ServedStep ==
    ASSUME PathsInv, ClientsPipes, ClientsPipes', [Next]_vars, up', NEW c \in Clients,
           ServedInv(c)
    PROVE  ServedInv(c)'
<1> USE DEF PathsInv
<1>1. ASSUME NEW w \in Workers, wpc'[w] \in ReqOpen, taken'[w] = Pair(c)
      PROVE  ServedInv(c)'
  BY <1>1 DEF ServedInv, Pair
<1>2. ASSUME cpc'[c] \in ClientReqOpen => cpc[c] \in ClientReqOpen,
             <<c, ReqPath(c)>> \in met' => <<c, ReqPath(c)>> \in met,
             \A w \in Workers : wpc[w] \in ReqOpen /\ taken[w] = Pair(c)
                => wpc'[w] \in ReqOpen /\ taken'[w] = Pair(c)
      PROVE  ServedInv(c)'
  BY <1>1, <1>2 DEF ServedInv
<1>3. CASE \/ Host \/ UNCHANGED vars \/ \E w \in Workers : SpuriousWakeUp(w)
  BY <1>2, <1>3, OtherFrame DEF clientVars, pipeVars, sessionVars
<1>4. ASSUME NEW w \in Workers, Take(w)
      PROVE  ServedInv(c)'
  <2>1. \A v \in Workers : wpc[v] \in ReqOpen => v # w
    BY <1>4, TakeFrame DEF ReqOpen
  <2> QED
    BY <1>2, <1>4, <2>1, TakeFrame DEF clientVars, pipeVars
<1>5. ASSUME NEW w \in Workers, WorkerRest(w), ~ OpenReq(w), ~ OpenResp(w),
             ~ ReadQuit(w), ~ RepeatQuit(w)
      PROVE  ServedInv(c)'
  <2>1. /\ UNCHANGED <<met, taken>>
        /\ wpc[w] \in ReqOpen => wpc'[w] \in ReqOpen
    BY <1>5 DEF WorkerRest, OpenFails, ReqOpened, RespOpened, SendId, ReadRequest,
         RepeatRequest, RepeatUnknown, SendAnswer, WriteBroken, ServerDies, GoWorker,
         Pipes!Write, Pipes!Read, pipeVars, queueVars, TypeOK, ReqOpen, Pipes!CloseAll
  <2> QED
    BY <1>2, <1>5, <2>1, WorkerFrame DEF clientVars
<1>6. ASSUME NEW w \in Workers, OpenReq(w)
      PROVE  ServedInv(c)'
  <2>1. wpc'[w] \in ReqOpen /\ UNCHANGED <<taken, cpc>>
        /\ \A v \in Workers \ {w} : wpc'[v] = wpc[v]
    BY <1>6 DEF OpenReq, GoWorker, TypeOK, ReqOpen, queueVars, clientVars
  <2>2. CASE taken[w] = Pair(c)
    BY <1>1, <2>1, <2>2
  <2>3. CASE taken[w] # Pair(c)
    <3>1. ReqPipe(w) # ReqPath(c)
      BY <1>6, <2>3, OwnPair, PathFacts DEF OpenReq, GoWorker
    <3>2. \A m \in met' : m \in met \/ m[2] = ReqPipe(w)
      BY <1>6 DEF OpenReq, Pipes!OpenRead, Pipes!Meet
    <3> QED
      BY <1>2, <2>1, <3>1, <3>2
  <2> QED
    BY <2>2, <2>3
<1>7. ASSUME NEW w \in Workers, OpenResp(w)
      PROVE  ServedInv(c)'
  <2>1. wpc'[w] \in ReqOpen /\ UNCHANGED <<taken, cpc>>
        /\ \A v \in Workers \ {w} : wpc'[v] = wpc[v]
    BY <1>7 DEF OpenResp, GoWorker, TypeOK, ReqOpen, queueVars, clientVars
  <2>2. RespPipe(w) # ReqPath(c)
    BY <1>7, OwnPair, PathFacts DEF OpenResp, GoWorker
  <2>3. \A m \in met' : m \in met \/ m[2] = RespPipe(w)
    BY <1>7 DEF OpenResp, Pipes!OpenWrite, Pipes!Meet
  <2> QED
    BY <1>2, <2>1, <2>2, <2>3
<1>8. ASSUME NEW w \in Workers, ReadQuit(w) \/ RepeatQuit(w)
      PROVE  ServedInv(c)'
  <2>1. /\ UNCHANGED <<met, cpc>>
        /\ \A v \in Workers \ {w} : wpc'[v] = wpc[v] /\ taken'[v] = taken[v]
    BY <1>8, SMTT(20), ZenonT(40) DEF ReadQuit, RepeatQuit, EndSession, GoWorker, TypeOK, clientVars
  <2>2. CASE taken[w] = Pair(c)
    <3>1. cpc'[c] \notin ClientReqOpen
      BY <1>8, <2>1, <2>2, EndLeaves
    <3> QED
      BY <3>1 DEF ServedInv
  <2>3. CASE taken[w] # Pair(c)
    BY <1>2, <2>1, <2>3
  <2> QED
    BY <2>2, <2>3
<1>9. ASSUME NEW d \in Clients, Setup(d) \/ SetupWithoutPipes(d) \/ Client(d) \/ Crash(d)
      PROVE  ServedInv(c)'
  <2>1. /\ UNCHANGED <<wpc, taken>>
        /\ \A b \in Clients \ {d} : cpc'[b] = cpc[b]
    BY <1>9, ClientFrame
  <2>2. CASE ClientOpenReq(d)
    <3>1. CASE readers[ReqPath(d)] = {}
      <4>1. met' = met /\ cpc'[d] \in ClientReqOpen
        BY <2>2, <3>1 DEF ClientOpenReq, Pipes!OpenWrite, Pipes!Meet, GoClient, TypeOK,
             ClientReqOpen
      <4>2. met \subseteq Clients \X Paths \cup Workers \X Paths
        BY DEF TypeOK
      <4>3. cpc[d] = "openReq"
        BY <2>2 DEF ClientOpenReq, GoClient
      <4>4. ReqPath(d)[2] = "req" /\ ReqPath(d)[1] = d
        BY PathFacts
      <4>5. <<d, ReqPath(d)>> \notin met
        <5>1. ~ MetInv(ReqPath(d))
          BY <4>3, <4>4 DEF MetInv, ClientReqOpen
        <5> QED
          BY <5>1 DEF OpensInv
      <4>6. CASE d = c
        BY <4>1, <4>5, <4>6 DEF ServedInv
      <4>7. CASE d # c
        BY <1>2, <2>1, <4>1, <4>7
      <4> QED
        BY <4>6, <4>7
    <3>2. CASE readers[ReqPath(d)] # {}
      <4>1. PICK w \in Workers : wpc[w] \in ReqOpen /\ ReqPipe(w) = ReqPath(d)
        BY <3>2, PathFacts, EndsPointwise DEF ReadersOf
      <4>2. taken[w] = Pair(d)
        BY <4>1, OwnPair, PathFacts DEF ReqOpen
      <4>3. CASE d = c
        BY <1>1, <2>1, <4>1, <4>2, <4>3
      <4>4. CASE d # c
        <5>1. \A m \in met' : m \in met \/ m[2] = ReqPath(d)
          BY <2>2 DEF ClientOpenReq, Pipes!OpenWrite, Pipes!Meet
        <5> QED
          BY <1>2, <2>1, <4>4, <5>1, PathFacts
      <4> QED
        BY <4>3, <4>4
    <3> QED
      BY <3>1, <3>2
  <2>3. CASE ClientOpenResp(d)
    <3>1. \A m \in met' : m \in met \/ m[2] = RespPath(d)
      BY <2>3 DEF ClientOpenResp, Pipes!OpenRead, Pipes!Meet
    <3>2. cpc[d] \in ClientReqOpen
      BY <2>3 DEF ClientOpenResp, GoClient, ClientReqOpen
    <3> QED
      BY <1>2, <2>1, <3>1, <3>2, PathFacts
  <2>4. CASE ~ ClientOpenReq(d) /\ ~ ClientOpenResp(d)
    <3>1. met' = met /\ (cpc'[d] \in ClientReqOpen => cpc[d] \in ClientReqOpen)
      BY <1>9, <2>4 DEF Setup, SetupWithoutPipes, Connect, Client, ClientOpenFails,
         ClientReqOpened, ClientRespOpened, ReadId, SendRequest,
         ReadAnswer, Receive, Quit, ClientBroken, Crash, pipeVars, GoClient, TypeOK,
         Pipes!CloseAll, Pipes!Read, Pipes!Write, ClientReqOpen
    <3> QED
      BY <1>2, <2>1, <3>1
  <2> QED
    BY <2>2, <2>3, <2>4
<1> QED
  BY <1>3, <1>4, <1>5, <1>6, <1>7, <1>8, <1>9 DEF Next, Quiet, Worker, WorkerRest

LEMMA DiesStep ==
    ASSUME PathsInv, SessionInv, ClientsPipes, [Next]_vars
    PROVE  DiesOnlyOfClient'
<1> USE DEF PathsInv
<1>1. ASSUME NEW c \in Clients, cpc[c] = "dead"
      PROVE  cpc'[c] = "dead"
  <2>1. CASE \/ Host \/ UNCHANGED vars \/ \E w \in Workers : SpuriousWakeUp(w)
    BY <1>1, <2>1, OtherFrame DEF clientVars
  <2>2. ASSUME NEW w \in Workers, Worker(w)
        PROVE  cpc'[c] = "dead"
    BY <1>1, <2>2, TakeFrame, WorkerFrame DEF Worker, WorkerRest, clientVars
  <2>3. ASSUME NEW d \in Clients, d # c,
               Setup(d) \/ SetupWithoutPipes(d) \/ Client(d) \/ Crash(d)
        PROVE  cpc'[c] = "dead"
    BY <1>1, <2>3, ClientFrame
  <2>4. ~ (Setup(c) \/ SetupWithoutPipes(c) \/ Client(c) \/ Crash(c))
    BY <1>1 DEF Setup, SetupWithoutPipes, Connect, Client, ClientOpenReq, ClientOpenFails,
         ClientReqOpened, ClientOpenResp, ClientRespOpened, ReadId, SendRequest,
         ReadAnswer, Receive, Quit, ClientBroken, Crash, GoClient
  <2> QED
    BY <2>1, <2>2, <2>3, <2>4 DEF Next, Quiet
<1>2. ASSUME NEW c \in Clients, cpc[c] # "start", ReqPath(c) \notin fifos
      PROVE  cpc'[c] # "start" /\ ReqPath(c) \notin fifos'
  <2>1. CASE \/ Host \/ UNCHANGED vars \/ \E w \in Workers : SpuriousWakeUp(w)
    BY <1>2, <2>1, OtherFrame DEF clientVars, pipeVars
  <2>2. ASSUME NEW w \in Workers, Worker(w)
        PROVE  cpc'[c] # "start" /\ ReqPath(c) \notin fifos'
    BY <1>2, <2>2, TakeFrame, WorkerFrame DEF Worker, WorkerRest, clientVars, pipeVars
  <2>3. ASSUME NEW d \in Clients, Setup(d) \/ SetupWithoutPipes(d)
        PROVE  cpc'[c] # "start" /\ ReqPath(c) \notin fifos'
    BY <1>2, <2>3, PathFacts DEF Setup, SetupWithoutPipes, Connect, GoClient, TypeOK
  <2>4. ASSUME NEW d \in Clients, Client(d) \/ Crash(d)
        PROVE  cpc'[c] # "start" /\ ReqPath(c) \notin fifos'
    <3>1. fifos' = fifos /\ cpc'[d] # "start"
      BY <2>4 DEF Client, ClientOpenReq, ClientOpenFails, ClientReqOpened,
         ClientOpenResp, ClientRespOpened, ReadId, SendRequest, ReadAnswer, Receive, Quit,
         ClientBroken, Crash, pipeVars, GoClient, TypeOK, Pipes!OpenRead, Pipes!OpenWrite,
         Pipes!CloseAll, Pipes!Read, Pipes!Write
    <3>2. \A b \in Clients \ {d} : cpc'[b] = cpc[b]
      BY <2>4, ClientFrame
    <3> QED
      BY <1>2, <3>1, <3>2
  <2> QED
    BY <2>1, <2>2, <2>3, <2>4 DEF Next, Quiet
<1>3. CASE ~ up
  BY <1>1, <1>2, <1>3 DEF SessionInv, DiesOnlyOfClient
<1>4. CASE up /\ ~ up'
  <2>1. PICK w \in Workers : OpenFails(w) \/ WriteBroken(w)
    <3>1. ASSUME NEW w \in Workers, ~ OpenFails(w), ~ WriteBroken(w), ~ Take(w)
          PROVE  ~ WorkerRest(w)
      BY <1>4, <3>1 DEF WorkerRest, OpenReq, ReqOpened, OpenResp, RespOpened, SendId,
           ReadQuit, ReadRequest, RepeatQuit, RepeatRequest, RepeatUnknown, SendAnswer
    <3>2. ~ Host /\ ~ UNCHANGED vars /\ \A w \in Workers : ~ SpuriousWakeUp(w) /\ ~ Take(w)
      BY <1>4, OtherFrame, TakeFrame DEF sessionVars
    <3>3. \A c \in Clients : ~ (Setup(c) \/ SetupWithoutPipes(c) \/ Client(c) \/ Crash(c))
      BY <1>4, ClientFrame
    <3> QED
      BY <3>1, <3>2, <3>3 DEF Next, Quiet, Worker, WorkerRest
  <2>2. wpc[w] # "take" /\ UNCHANGED <<cpc, fifos>>
    BY <2>1 DEF OpenFails, WriteBroken, ServerDies, clientVars, Pipes!CloseAll
  <2>3. PICK c \in Clients : /\ taken[w] = Pair(c)
                             /\ ReqPipe(w) = ReqPath(c) /\ RespPipe(w) = RespPath(c)
    BY <2>2, OwnPair
  <2>4. CASE OpenFails(w)
    <3>1. ReqPath(c) \notin fifos
      BY <2>3, <2>4 DEF OpenFails, PipesInv
    <3>2. cpc[c] # "start"
      BY <2>3, OnePair
    <3> QED
      BY <2>2, <3>1, <3>2 DEF DiesOnlyOfClient
  <2>5. CASE WriteBroken(w)
    <3>1. wpc[w] \in {"sendId", "answer"} /\ readers[RespPath(c)] = {}
      BY <2>3, <2>5 DEF WriteBroken, Pipes!Broken
    <3>2. cpc[c] \notin ClientRespOpen
      BY <3>1, PathFacts, EndsPointwise DEF ReadersOf
    <3>3. MetInv(RespPath(c))
      BY <2>3, <3>1 DEF OpensInv, Talking
    <3>4. cpc[c] \in ClientRespOpen \cup {"done", "dead"}
      BY <3>3, PathFacts DEF MetInv
    <3>5. cpc[c] # "done"
      BY <1>4, <2>3, <3>1, <3>2 DEF SessionInv, SessionOf
    <3> QED
      BY <2>2, <3>2, <3>4, <3>5 DEF DiesOnlyOfClient
  <2> QED
    BY <2>1, <2>4, <2>5
<1> QED
  BY <1>3, <1>4 DEF DiesOnlyOfClient


\* What a worker that holds both pipes of c has open.
LEMMA ServingWorker ==
    ASSUME PathsInv, NEW w \in Workers, NEW c \in Clients, taken[w] = Pair(c), up
    PROVE  /\ wpc[w] \in ReqOpen => w \in readers[ReqPath(c)]
           /\ wpc[w] \in RespOpen => w \in writers[RespPath(c)]
           /\ <<c, ReqPath(c)>> \in met => wpc[w] \in ReqOpen
           /\ <<c, RespPath(c)>> \in met => wpc[w] \in RespOpen
           /\ wpc[w] \in Talking => cpc[c] \in ClientRespOpen \cup {"done", "dead"}
           /\ writers[ReqPath(c)] = {} => cpc[c] \notin ClientReqOpen
<1> USE DEF PathsInv
<1>1. /\ wpc[w] # "take"
      /\ ReqPipe(w) = ReqPath(c) /\ RespPipe(w) = RespPath(c)
      /\ Holds(w, ReqPath(c)) /\ Holds(w, RespPath(c))
  BY OnePair
<1>2. /\ ReqPath(c) \in Paths /\ RespPath(c) \in Paths
      /\ ReqPath(c)[2] = "req" /\ RespPath(c)[2] = "resp" /\ RespPath(c)[1] = c
  BY PathFacts
<1>3. /\ readers[ReqPath(c)] = ReadersOf(ReqPath(c))
      /\ writers[ReqPath(c)] = WritersOf(ReqPath(c))
      /\ writers[RespPath(c)] = WritersOf(RespPath(c))
  BY <1>2, EndsPointwise
<1>4. /\ wpc[w] \in ReqOpen => w \in readers[ReqPath(c)]
      /\ wpc[w] \in RespOpen => w \in writers[RespPath(c)]
      /\ writers[ReqPath(c)] = {} => cpc[c] \notin ClientReqOpen
  BY <1>1, <1>3 DEF ReadersOf, WritersOf
<1>5. /\ <<c, ReqPath(c)>> \in met => MetInv(ReqPath(c))
      /\ <<c, RespPath(c)>> \in met => MetInv(RespPath(c))
      /\ wpc[w] \in Talking => MetInv(RespPath(c))
  BY <1>1 DEF OpensInv
<1> QED
  BY <1>1, <1>2, <1>4, <1>5 DEF MetInv

LEMMA SessionSame ==
    ASSUME NEW w \in Workers, NEW c \in Clients, SessionOf(w, c),
           wpc'[w] = wpc[w], request'[w] = request[w],
           cpc'[c] = cpc[c], sent'[c] = sent[c], heard'[c] = heard[c],
           content'[ReqPath(c)] = content[ReqPath(c)],
           content'[RespPath(c)] = content[RespPath(c)]
    PROVE  SessionOf(w, c)'
  BY DEF SessionOf, InPipes, HeardLast

LEMMA OnePairState ==
    \A w \in Workers, c \in Clients :
       TypeOK /\ PlacesInv /\ taken[w] = Pair(c) =>
          /\ wpc[w] # "take" /\ ReqPipe(w) = ReqPath(c)
          /\ Holds(w, ReqPath(c)) /\ cpc[c] # "start"
  BY OnePair

LEMMA OnePairNext ==
    \A w \in Workers, c \in Clients :
       TypeOK' /\ PlacesInv' /\ taken'[w] = Pair(c) =>
          /\ wpc'[w] # "take" /\ ReqPipe(w)' = ReqPath(c)
          /\ Holds(w, ReqPath(c))' /\ cpc'[c] # "start"
<1>1. (\A w \in Workers, c \in Clients :
          TypeOK /\ PlacesInv /\ taken[w] = Pair(c) =>
             /\ wpc[w] # "take" /\ ReqPipe(w) = ReqPath(c)
             /\ Holds(w, ReqPath(c)) /\ cpc[c] # "start")'
  BY OnePairState, PTL
<1> QED
  BY <1>1 DEF Pair

\* The worker begins a session: its client cannot be any further.
LEMMA TakeSession ==
    ASSUME PathsInv, PathsInv', NEW w \in Workers, NEW c \in Clients, Take(w),
           ClientInv(c), taken'[w] = Pair(c), cpc[c] # "dead"
    PROVE  SessionOf(w, c)'
<1>1. /\ wpc'[w] \in {"take", "openReq"}
      /\ UNCHANGED <<cpc, sent, heard, content, met>>
  BY TakeFrame DEF PathsInv, clientVars, pipeVars
<1>2. /\ Holds(w, ReqPath(c))' /\ wpc'[w] # "take" /\ cpc'[c] # "start"
      /\ Holds(w, ReqPath(c))' /\ ReqPipe(w)' = ReqPath(c)
  BY OnePairNext DEF PathsInv, Pair
<1>3. <<c, ReqPath(c)>> \notin met
  <2>1. ASSUME <<c, ReqPath(c)>> \in met'
        PROVE  wpc'[w] \in ReqOpen
    <3>1. MetInv(ReqPath(c))'
      BY <2>1 DEF PathsInv, OpensInv
    <3> QED
      BY <1>2, <3>1, PathFacts DEF MetInv
  <2> QED
    BY <1>1, <2>1 DEF ReqOpen
<1>4. cpc[c] \in {"openReq", "openReqWait"}
  <2>1. cpc[c] \in ClientPlaces
    BY DEF PathsInv, TypeOK
  <2>2. cpc[c] \notin (ClientReqOpen \ {"openReqWait"}) \cup {"done"}
    BY <1>3 DEF ClientInv
  <2> QED
    BY <1>1, <1>2, <2>1, <2>2 DEF ClientPlaces, ClientReqOpen
<1>5. wpc'[w] = "openReq"
  BY <1>1, <1>2
<1>6. InPipes(c, <<>>, <<>>)
  BY <1>4 DEF ClientInv
<1> QED
  BY <1>1, <1>4, <1>5, <1>6 DEF SessionOf, InPipes

\* The steps of the worker in its session.
LEMMA WorkerSession ==
    ASSUME PathsInv, ClientsPipes, NEW w \in Workers, NEW c \in Clients,
           taken[w] = Pair(c), taken'[w] = Pair(c), WorkerRest(w), up, up',
           cpc[c] # "dead", SessionOf(w, c)
    PROVE  SessionOf(w, c)'
<1>0. /\ ReqPipe(w) = ReqPath(c) /\ RespPipe(w) = RespPath(c)
      /\ content \in [Paths -> Seq(Messages)] /\ wpc \in [Workers -> WorkerPlaces]
      /\ request \in [Workers -> (Clients \X (1 .. MaxRequests)) \cup {None}]
      /\ ReqPath(c) \in Paths /\ RespPath(c) \in Paths /\ ReqPath(c) # RespPath(c)
  BY OnePair, PathFacts DEF PathsInv, TypeOK
<1>00. UNCHANGED <<cpc, sent, heard>>
  BY WorkerFrame DEF PathsInv, clientVars
<1>1. CASE OpenReq(w) \/ ReqOpened(w) \/ OpenResp(w) \/ RespOpened(w)
  <2>1. /\ wpc[w] \in {"openReq", "openReqWait", "openResp", "openRespWait"}
        /\ wpc'[w] \in {"openReqWait", "openResp", "openRespWait", "sendId"}
        /\ content' = content
    BY <1>0, <1>1 DEF OpenReq, ReqOpened, OpenResp, RespOpened, GoWorker, pipeVars,
         Pipes!OpenRead, Pipes!OpenWrite
  <2> QED
    BY <1>00, <2>1 DEF SessionOf, InPipes
<1>2. CASE SendId(w)
  <2>1. /\ wpc[w] = "sendId" /\ wpc'[w] = "active"
        /\ content' = [content EXCEPT ![RespPath(c)] = Append(@, <<"id", w>>)]
    BY <1>0, <1>2 DEF SendId, GoWorker, Pipes!Write
  <2>2. InPipes(c, <<>>, <<>>) /\ cpc[c] \in {"openRespWait", "readId"}
    BY <2>1, ServingWorker DEF SessionOf, Talking, ClientRespOpen
  <2>3. InPipes(c, <<>>, << <<"id", w>> >>)'
    BY <1>0, <2>1, <2>2 DEF InPipes
  <2> QED
    BY <1>00, <2>1, <2>2, <2>3 DEF SessionOf
<1>3. CASE ReadRequest(w)
  <2> DEFINE m == Head(content[ReqPath(c)])
  <2>1. /\ wpc[w] = "active" /\ wpc'[w] = "answer"
        /\ content[ReqPath(c)] # <<>> /\ m[1] = "serve" /\ request'[w] = m[2]
        /\ content' = [content EXCEPT ![ReqPath(c)] = Tail(@)]
    BY <1>0, <1>3 DEF ReadRequest, GoWorker, Pipes!Read
  <2>2. /\ cpc[c] = "await" /\ InPipes(c, << <<"serve", <<c, sent[c]>>>> >>, <<>>)
    <3>1. ~ InPipes(c, << <<"quit", None>> >>, <<>>)
      BY <2>1 DEF InPipes
    <3> QED
      BY <2>1, <3>1 DEF SessionOf, InPipes
  <2>3. InPipes(c, <<>>, <<>>)' /\ m = <<"serve", <<c, sent[c]>>>>
    BY <1>0, <2>1, <2>2 DEF InPipes
  <2>4. request'[w] = <<c, sent[c]>>
    BY <2>1, <2>3
  <2> QED
    BY <1>00, <2>1, <2>2, <2>3, <2>4 DEF SessionOf
<1>4. CASE SendAnswer(w)
  <2>1. /\ wpc[w] = "answer" /\ wpc'[w] = "active"
        /\ content' = [content EXCEPT ![RespPath(c)] = Append(@, <<"answer", request[w]>>)]
    BY <1>0, <1>4 DEF SendAnswer, GoWorker, Pipes!Write
  <2>2. InPipes(c, <<>>, <<>>) /\ cpc[c] = "await" /\ request[w] = <<c, sent[c]>>
    BY <2>1 DEF SessionOf
  <2>3. InPipes(c, <<>>, << <<"answer", <<c, sent[c]>>>> >>)'
    BY <1>0, <1>00, <2>1, <2>2 DEF InPipes
  <2> QED
    BY <1>00, <2>1, <2>2, <2>3 DEF SessionOf
<1>5. CASE RepeatRequest(w) \/ RepeatUnknown(w)
  <2>1. wpc[w] = "active" /\ writers[ReqPath(c)] = {} /\ content[ReqPath(c)] = <<>>
    BY <1>0, <1>5 DEF RepeatRequest, RepeatUnknown, GoWorker, Pipes!AtEnd
  <2>2. cpc[c] \notin ClientReqOpen
    BY <2>1, ServingWorker
  <2>3. FALSE
    BY <2>1, <2>2 DEF SessionOf, InPipes, ClientReqOpen
  <2> QED
    BY <2>3
<1>6. CASE ReadQuit(w) \/ RepeatQuit(w)
  <2>1. taken'[w] = <<>>
    BY <1>6 DEF ReadQuit, RepeatQuit, EndSession, PathsInv, TypeOK
  <2> QED
    BY <2>1, PairFacts
<1>7. CASE OpenFails(w) \/ WriteBroken(w)
  BY <1>7 DEF OpenFails, WriteBroken, ServerDies
<1> QED
  BY <1>1, <1>2, <1>3, <1>4, <1>5, <1>6, <1>7 DEF WorkerRest

\* The steps of the client in its session.
LEMMA ClientSession ==
    ASSUME PathsInv, NEW w \in Workers, NEW c \in Clients, ClientInv(c),
           taken[w] = Pair(c), up, Setup(c) \/ SetupWithoutPipes(c) \/ Client(c) \/ Crash(c),
           cpc[c] # "dead", cpc'[c] # "dead", SessionOf(w, c)
    PROVE  SessionOf(w, c)'
<1>0. /\ content \in [Paths -> Seq(Messages)] /\ cpc \in [Clients -> ClientPlaces]
      /\ heard \in [Clients -> Messages \cup {None}] /\ wpc[w] \in WorkerPlaces
      /\ sent \in [Clients -> 0 .. MaxRequests]
      /\ ReqPath(c) \in Paths /\ RespPath(c) \in Paths /\ ReqPath(c) # RespPath(c)
      /\ wpc[w] # "take"
  BY OnePair, PathFacts DEF PathsInv, TypeOK
<1>00. wpc' = wpc /\ request' = request
  BY ClientFrame DEF PathsInv
<1>1. ~ Setup(c) /\ ~ SetupWithoutPipes(c)
  BY OnePair DEF PathsInv, Setup, SetupWithoutPipes, Connect, GoClient
<1>2. CASE ClientOpenFails(c) \/ ClientBroken(c) \/ Crash(c)
  BY <1>0, <1>2 DEF ClientOpenFails, ClientBroken, Crash, GoClient
<1>3. CASE ClientOpenReq(c) \/ ClientReqOpened(c) \/ ClientOpenResp(c)
  <2>1. /\ cpc[c] \in {"openReq", "openReqWait", "openResp"}
        /\ cpc'[c] \in {"openReqWait", "openResp", "openRespWait"}
        /\ content' = content
    BY <1>0, <1>3 DEF ClientOpenReq, ClientReqOpened, ClientOpenResp, GoClient, pipeVars,
         Pipes!OpenRead, Pipes!OpenWrite
  <2> QED
    BY <1>00, <2>1 DEF SessionOf, InPipes
<1>4. CASE ClientRespOpened(c)
  <2>1. cpc[c] = "openRespWait" /\ cpc'[c] = "readId" /\ content' = content
    BY <1>0, <1>4 DEF ClientRespOpened, GoClient, pipeVars
  <2> QED
    BY <1>00, <2>1 DEF SessionOf, InPipes
<1>5. ASSUME NEW from, from \in {"readId", "await"}, Receive(c, from)
      PROVE  SessionOf(w, c)'
  <2>1. cpc[c] = from /\ cpc'[c] = "ready" /\ sent' = sent
    BY <1>0, <1>5 DEF Receive, GoClient
  <2>2. wpc[w] \in RespOpen /\ w \in writers[RespPath(c)]
    BY <1>5, <2>1, ServingWorker DEF ClientInv, ClientRespOpen
  <2>3. /\ content[RespPath(c)] # <<>>
        /\ content' = [content EXCEPT ![RespPath(c)] = Tail(@)]
        /\ heard'[c] = Head(content[RespPath(c)])
    BY <1>0, <1>5, <2>2 DEF Receive, Pipes!AtEnd, Pipes!Read
  <2>4. wpc[w] = "active"
    BY <2>1, <2>2, <2>3, <1>5 DEF SessionOf, InPipes, RespOpen
  <2>5. \/ from = "readId" /\ InPipes(c, <<>>, << <<"id", w>> >>)
        \/ from = "await" /\ InPipes(c, <<>>, << <<"answer", <<c, sent[c]>>>> >>)
    BY <1>5, <2>1, <2>3, <2>4 DEF SessionOf, InPipes
  <2>6. InPipes(c, <<>>, <<>>)'
    BY <1>0, <2>3, <2>5 DEF InPipes
  <2>7. HeardLast(c)'
    <3>1. CASE from = "readId"
      <4>1. sent[c] = 0
        BY <2>1, <3>1 DEF ClientInv
      <4>2. heard'[c] = <<"id", w>>
        BY <2>3, <2>5, <3>1 DEF InPipes
      <4> QED
        BY <2>1, <4>1, <4>2 DEF HeardLast, Ids
    <3>2. CASE from = "await"
      <4>1. sent[c] # 0
        BY <2>1, <3>2 DEF ClientInv
      <4>2. heard'[c] = <<"answer", <<c, sent[c]>>>>
        BY <2>3, <2>5, <3>2 DEF InPipes
      <4> QED
        BY <2>1, <4>1, <4>2 DEF HeardLast
    <3> QED
      BY <1>5, <3>1, <3>2
  <2> QED
    BY <1>00, <2>1, <2>4, <2>6, <2>7 DEF SessionOf
<1>6. CASE SendRequest(c)
  <2>1. /\ cpc[c] = "ready" /\ cpc'[c] = "await" /\ sent'[c] = sent[c] + 1
        /\ content' = [content EXCEPT ![ReqPath(c)] =
                          Append(@, <<"serve", <<c, sent[c] + 1>>>>)]
    BY <1>0, <1>6 DEF SendRequest, GoClient, Pipes!Write
  <2>2. wpc[w] = "active" /\ InPipes(c, <<>>, <<>>)
    BY <1>0, <2>1 DEF SessionOf, WorkerPlaces
  <2>3. InPipes(c, << <<"serve", <<c, sent[c]>>>> >>, <<>>)'
    BY <1>0, <2>1, <2>2 DEF InPipes
  <2> QED
    BY <1>00, <2>1, <2>2, <2>3 DEF SessionOf
<1>7. CASE Quit(c)
  <2>1. /\ cpc[c] = "ready" /\ cpc'[c] = "done"
        /\ content' = [content EXCEPT ![ReqPath(c)] = Append(@, <<"quit", None>>)]
    BY <1>0, <1>7 DEF Quit, GoClient
  <2>2. wpc[w] = "active" /\ InPipes(c, <<>>, <<>>)
    BY <1>0, <2>1 DEF SessionOf, WorkerPlaces
  <2>3. InPipes(c, << <<"quit", None>> >>, <<>>)'
    BY <1>0, <2>1, <2>2 DEF InPipes
  <2> QED
    BY <1>00, <2>1, <2>2, <2>3 DEF SessionOf
<1> QED
  BY <1>1, <1>2, <1>3, <1>4, <1>5, <1>6, <1>7 DEF Client, ReadId, ReadAnswer

LEMMA SessionStep ==
    PathsInv /\ PathsInv' /\ ClientsPipes /\ ClientsPipes' /\ SessionInv /\ [Next]_vars
       => SessionInv'
<1> SUFFICES ASSUME PathsInv, PathsInv', ClientsPipes, ClientsPipes', SessionInv,
                    [Next]_vars
             PROVE  SessionInv'
  OBVIOUS
<1>1. DiesOnlyOfClient'
  BY DiesStep
<1>2. ASSUME up'
      PROVE  up
  <2>1. CASE \/ Host \/ UNCHANGED vars \/ \E w \in Workers : SpuriousWakeUp(w)
    BY <1>2, <2>1, OtherFrame DEF sessionVars
  <2>2. ASSUME NEW c \in Clients, Setup(c) \/ SetupWithoutPipes(c) \/ Client(c) \/ Crash(c)
        PROVE  up
    BY <1>2, <2>2, ClientFrame DEF PathsInv
  <2> QED
    BY <2>1, <2>2 DEF Next, Quiet, Worker
<1>3. ASSUME NEW c \in Clients, up'
      PROVE  ClientInv(c)' /\ ServedInv(c)'
  BY <1>2, <1>3, ClientInvStep, ServedStep DEF SessionInv
<1>4. ASSUME NEW w \in Workers, NEW c \in Clients, up', taken'[w] = Pair(c), cpc'[c] # "dead"
      PROVE  SessionOf(w, c)'
  <2>0. ClientInv(c) /\ (taken[w] = Pair(c) /\ cpc[c] # "dead" => SessionOf(w, c))
    BY <1>2, <1>4 DEF SessionInv
  <2>1. CASE \/ Host \/ UNCHANGED vars \/ \E v \in Workers : SpuriousWakeUp(v)
    BY <1>4, <2>0, <2>1, OtherFrame, SessionSame DEF sessionVars, clientVars, pipeVars
  <2>2. CASE Take(w)
    BY <1>4, <2>0, <2>2, TakeSession, TakeFrame DEF PathsInv, clientVars
  <2>3. CASE WorkerRest(w)
    <3>1. taken[w] = Pair(c)
      <4>1. taken'[w] = taken[w] \/ taken'[w] = <<>>
        BY <2>3 DEF WorkerRest, OpenReq, OpenFails, ReqOpened, OpenResp, RespOpened, SendId,
           ReadQuit, ReadRequest, RepeatQuit, RepeatRequest, RepeatUnknown, SendAnswer,
           WriteBroken, ServerDies, EndSession, queueVars, PathsInv, TypeOK
      <4> QED
        BY <1>4, <4>1, PairFacts
    <3>2. cpc[c] # "dead"
      BY <1>4, <2>3, WorkerFrame DEF PathsInv, clientVars
    <3> QED
      BY <1>2, <1>4, <2>0, <2>3, <3>1, <3>2, WorkerSession
  <2>4. ASSUME NEW v \in Workers, v # w, Take(v)
        PROVE  SessionOf(w, c)'
    BY <1>4, <2>0, <2>4, TakeFrame, SessionSame DEF PathsInv, clientVars, pipeVars
  <2>5. ASSUME NEW v \in Workers, v # w, WorkerRest(v)
        PROVE  SessionOf(w, c)'
    <3>1. /\ taken'[w] = taken[w] /\ wpc'[w] = wpc[w] /\ request'[w] = request[w]
          /\ UNCHANGED <<cpc, sent, heard>>
      BY <2>5, WorkerFrame DEF PathsInv, clientVars
    <3>2. taken[v] # Pair(c)
      BY <1>4, <2>5, <3>1, OnePair DEF PathsInv
    <3>3. /\ content'[ReqPath(c)] = content[ReqPath(c)]
          /\ content'[RespPath(c)] = content[RespPath(c)]
      BY <2>5, <3>2, WorkerContent
    <3> QED
      BY <1>4, <2>0, <3>1, <3>3, SessionSame
  <2>6. CASE Setup(c) \/ SetupWithoutPipes(c) \/ Client(c) \/ Crash(c)
    <3>1. taken' = taken
      BY <2>6, ClientFrame DEF PathsInv
    <3>2. cpc[c] # "dead"
      BY <2>6 DEF Setup, SetupWithoutPipes, Connect, Client, ClientOpenReq, ClientOpenFails,
         ClientReqOpened, ClientOpenResp, ClientRespOpened, ReadId, SendRequest,
         ReadAnswer, Receive, Quit, ClientBroken, Crash, GoClient
    <3> QED
      BY <1>2, <1>4, <2>0, <2>6, <3>1, <3>2, ClientSession
  <2>7. ASSUME NEW d \in Clients, d # c,
               Setup(d) \/ SetupWithoutPipes(d) \/ Client(d) \/ Crash(d)
        PROVE  SessionOf(w, c)'
    BY <1>4, <2>0, <2>7, ClientFrame, SessionSame, SMTT(20), ZenonT(40) DEF PathsInv
  <2> QED
    BY <2>1, <2>2, <2>3, <2>4, <2>5, <2>6, <2>7 DEF Next, Quiet, Worker, WorkerRest
<1> QED
  BY <1>1, <1>3, <1>4 DEF SessionInv, Pair

LEMMA SessionInit == Init => SessionInv
<1> SUFFICES ASSUME Init PROVE SessionInv
  OBVIOUS
<1>1. \A w \in Workers, c \in Clients : taken[w] # Pair(c)
  BY PairFacts DEF Init, QueueInit
<1>2. \A c \in Clients : ClientInv(c) /\ ServedInv(c)
  BY PathFacts DEF Init, Pipes!PipesInit, ClientInv, ServedInv, InPipes, ClientReqOpen,
       ClientRespOpen
<1> QED
  BY <1>1, <1>2 DEF Init, SessionInv, DiesOnlyOfClient

LEMMA SessionInvariant == Spec /\ []ClientsPipes => []SessionInv
  BY SessionInit, SessionStep, PathsInvariant, PTL DEF Spec

LEMMA SessionAnswers == PathsInv /\ SessionInv => AnswersMatch
<1> SUFFICES ASSUME PathsInv, SessionInv, NEW c \in Clients, up, cpc[c] = "ready"
             PROVE  HeardLast(c)
  BY DEF AnswersMatch, HeardLast, Ids
<1>1. <<c, ReqPath(c)>> \in met
  BY DEF SessionInv, ClientInv, ClientReqOpen
<1>2. PICK w \in Workers : wpc[w] \in ReqOpen /\ taken[w] = Pair(c)
  BY <1>1 DEF SessionInv, ServedInv, ClientReqOpen
<1>3. SessionOf(w, c)
  BY <1>2 DEF SessionInv
<1> QED
  BY <1>2, <1>3 DEF SessionOf, ReqOpen

\* The answer a client goes on with is the one to its own last request, with any
\* number of clients and of workers, as long as every worker serves the two pipes of
\* one client.
THEOREM PairedAnswers == Spec /\ []ClientsPipes => []AnswersMatch
  BY SessionInvariant, PathsInvariant, SessionAnswers, PTL

\* The server ends only when some client was killed or came without its pipes, as
\* long as every worker serves the two pipes of one client.
THEOREM PairedDeaths == Spec /\ []ClientsPipes => []DiesOnlyOfClient
<1>1. SessionInv => DiesOnlyOfClient
  BY DEF SessionInv
<1> QED
  BY <1>1, SessionInvariant, PTL

\* Only its own worker brings a session to an operation, and of the client that
\* worker changes nothing.
LEMMA BeginStep ==
    ASSUME TypeOK, Next, NEW w \in Workers, wpc[w] = "active", wpc'[w] = "answer"
    PROVE  /\ up /\ up' /\ UNCHANGED <<taken, cpc, sent>>
<1> USE DEF queueVars, pipeVars, sessionVars, clientVars
<1>1. wpc' # wpc
  OBVIOUS
<1>2. PICK v \in Workers : Worker(v)
  BY <1>1
  DEF Next, Host, SpuriousWakeUp, Connect, Setup, SetupWithoutPipes, Client,
      ClientOpenReq, ClientOpenFails, ClientReqOpened, ClientOpenResp,
      ClientRespOpened, Receive, ReadId, ReadAnswer, SendRequest, Quit,
      ClientBroken, Crash, Quiet, vars
<1>3. CASE ReadRequest(v) \/ RepeatRequest(v)
  BY <1>2, <1>3 DEF ReadRequest, RepeatRequest, Worker
<1>4. CASE ~ (ReadRequest(v) \/ RepeatRequest(v))
  BY <1>2, <1>4
  DEF Worker, Take, OpenReq, OpenFails, ServerDies, ReqOpened, OpenResp,
      RespOpened, SendId, ReadQuit, RepeatQuit, EndSession, RepeatUnknown,
      SendAnswer, WriteBroken, GoWorker, TypeOK
<1> QED
  BY <1>3, <1>4

LEMMA SessionBegins ==
    ASSUME TypeOK, ClientsPipes, SessionInv', [Next]_vars
    PROVE  [BeginsAsked]_vars
<1> SUFFICES ASSUME Next, NEW w \in Workers, NEW c \in Clients,
                    wpc[w] = "active", wpc'[w] = "answer",
                    ReqPipe(w) = ReqPath(c), cpc[c] # "dead"
             PROVE  cpc[c] = "await" /\ request'[w] = <<c, sent[c]>>
  BY DEF BeginsAsked
<1>1. up' /\ UNCHANGED <<taken, cpc, sent>>
  BY BeginStep
<1>2. Len(taken[w]) = 2
  BY DEF TypeOK
<1>3. PICK d \in Clients : taken[w] = <<ReqPath(d), RespPath(d)>>
  BY <1>2 DEF ClientsPipes
<1>4. c = d
  BY <1>3, PathFacts DEF ReqPipe
<1>5. taken'[w] = Pair(c)' /\ cpc'[c] # "dead"
  BY <1>1, <1>3, <1>4 DEF Pair, ReqPath, RespPath
<1>6. SessionOf(w, c)'
  BY <1>1, <1>5 DEF SessionInv
<1> QED
  BY <1>1, <1>6 DEF SessionOf

\* As long as every worker serves the two pipes of one client, no operation is
\* begun but for the request that a client waits for, or for a killed client.
THEOREM PairedOperations == Spec /\ []ClientsPipes => OperationsAreAsked
<1>1. TypeOK /\ ClientsPipes /\ SessionInv' /\ [Next]_vars => [BeginsAsked]_vars
  BY SessionBegins
<1> QED
  BY <1>1, SessionInvariant, TypeCorrect, PTL DEF Spec, OperationsAreAsked


------------------------------------------------------------------------------
(***************************************************************************)
(* The pairs of paths, with one worker or spaced clients.                  *)
(***************************************************************************)
HalfOf(w, c) == taken[w] = <<ReqPath(c)>>

LEMMA HalfFacts ==
    \A c \in Clients, w \in Workers :
       /\ HalfOf(w, c) => Len(taken[w]) = 1 /\ taken[w][1] = ReqPath(c)
       /\ \A d \in Clients : HalfOf(w, c) /\ HalfOf(w, d) => c = d
<1>1. \A x : Len(<<x>>) = 1 /\ <<x>>[1] = x
  OBVIOUS
<1>2. ASSUME NEW c \in Clients, NEW w \in Workers, HalfOf(w, c)
      PROVE  Len(taken[w]) = 1 /\ taken[w][1] = ReqPath(c)
  BY <1>1, <1>2 DEF HalfOf
<1> QED
  BY <1>2, PathFacts

\* The first path of the queue.
LEMMA FirstPath ==
    ASSUME TypeOK, PairInv, queue # <<>>
    PROVE  \E c \in Clients :
              \/ queue[1] = ReqPath(c) /\ Followed(c, 1) /\ ~ HalfTaken
              \/ queue[1] = RespPath(c) /\ \E w \in Workers : HalfOf(w, c)
<1>1. 1 \in DOMAIN queue /\ queue[1] \in Paths /\ Len(queue) # 0
  BY DEF TypeOK
<1>2. PICK c \in Clients : queue[1] = ReqPath(c) \/ queue[1] = RespPath(c)
  BY <1>1, PathFacts
<1>3. CASE queue[1] = RespPath(c)
  BY <1>1, <1>3 DEF PairInv, Preceded, HalfOf
<1>4. CASE queue[1] = ReqPath(c)
  <2>1. Followed(c, 1)
    BY <1>1, <1>4 DEF PairInv
  <2>2. ASSUME NEW w \in Workers, Len(taken[w]) = 1
        PROVE  FALSE
    <3>1. PICK d \in Clients : taken[w] = <<ReqPath(d)>>
      BY <2>2 DEF PairInv
    <3>2. Followed(d, 0)
      BY <3>1 DEF PairInv
    <3>3. queue[1] = RespPath(d)
      BY <1>1, <3>2 DEF Followed
    <3> QED
      BY <1>4, <3>3, PathFacts
  <2> QED
    BY <1>4, <2>1, <2>2 DEF HalfTaken
<1> QED
  BY <1>2, <1>3, <1>4

LEMMA PairHostRequest ==
    ASSUME TypeOK, PairInv, HostRequest
    PROVE  PairInv'
<1> DEFINE b == Head(serverPipe)
<1>1. /\ b \in Clients /\ ReqPath(b) \in Paths /\ queue \in Seq(Paths)
      /\ host = "read" /\ host' = "response" /\ client' = b
      /\ queue' = Append(queue, ReqPath(b)) /\ taken' = taken
  BY PathFacts DEF HostRequest, Enqueue, TypeOK
<1>2. PICK n \in Nat : n = Len(queue)
  BY <1>1
<1> HIDE DEF b
<1>3. /\ DOMAIN queue = 1 .. n /\ DOMAIN queue' = 1 .. n + 1 /\ Len(queue') = n + 1
      /\ queue'[n + 1] = ReqPath(b) /\ \A i \in 1 .. n : queue'[i] = queue[i]
  BY <1>1, <1>2
<1>4. \A i \in 1 .. n + 1 : i \in 1 .. n \/ i = n + 1
  OBVIOUS
<1>5. ASSUME NEW c \in Clients
      PROVE  /\ \A i \in DOMAIN queue' :
                   /\ queue'[i] = ReqPath(c) => Followed(c, i)'
                   /\ queue'[i] = RespPath(c) => Preceded(c, i)'
             /\ host' = "response" /\ client' = c => Preceded(c, Len(queue) + 1)'
             /\ \A w \in Workers : taken'[w] = <<ReqPath(c)>> => Followed(c, 0)'
  <2>1. ASSUME NEW i \in 1 .. n, queue[i] = ReqPath(c)
        PROVE  Followed(c, i)'
    <3>1. i # n /\ queue[i + 1] = RespPath(c)
      BY <1>1, <1>2, <1>3, <2>1 DEF PairInv, Followed
    <3>2. i # n + 1 /\ i + 1 \in 1 .. n
      BY <3>1
    <3> QED
      BY <1>3, <3>1, <3>2 DEF Followed
  <2>2. c = b => Followed(c, n + 1)'
    BY <1>1, <1>3 DEF Followed
  <2>3. ASSUME NEW i \in 1 .. n, queue[i] = RespPath(c)
        PROVE  Preceded(c, i)'
    <3>1. Preceded(c, i)
      BY <1>3, <2>3 DEF PairInv
    <3>2. CASE i = 1
      BY <1>1, <3>1, <3>2 DEF Preceded
    <3>3. CASE i # 1
      <4>1. i - 1 \in 1 .. n
        BY <3>3
      <4> QED
        BY <1>3, <3>1, <3>3, <4>1 DEF Preceded
    <3> QED
      BY <3>2, <3>3
  <2>4. c = b => Preceded(c, Len(queue) + 1)'
    <3>1. Len(queue') + 1 # 1 /\ (Len(queue') + 1) - 1 = n + 1
      BY <1>3
    <3> QED
      BY <1>3, <3>1 DEF Preceded
  <2>5. ASSUME NEW w \in Workers, taken[w] = <<ReqPath(c)>>
        PROVE  Followed(c, 0)'
    <3>1. Followed(c, 0)
      BY <2>5 DEF PairInv
    <3>2. n # 0 /\ queue[1] = RespPath(c)
      BY <1>1, <1>2, <3>1 DEF Followed
    <3>3. 0 # n + 1 /\ 0 + 1 \in 1 .. n
      BY <3>2
    <3> QED
      BY <1>3, <3>2, <3>3 DEF Followed
  <2>6. ReqPath(c) = ReqPath(b) => c = b
    BY <1>1, PathFacts
  <2>7. ReqPath(b) # RespPath(c)
    BY <1>1, PathFacts
  <2> QED
    BY <1>1, <1>3, <1>4, <2>1, <2>2, <2>3, <2>4, <2>5, <2>6, <2>7
<1>6. ClientsPipes'
  BY <1>1 DEF PairInv, ClientsPipes
<1>7. \A w \in Workers : Len(taken'[w]) = 1 => \E c \in Clients : taken'[w] = <<ReqPath(c)>>
  BY <1>1 DEF PairInv
<1> QED
  BY <1>5, <1>6, <1>7 DEF PairInv

LEMMA PairHostResponse ==
    ASSUME TypeOK, PairInv, HostResponse
    PROVE  PairInv'
<1>1. /\ client \in Clients /\ RespPath(client) \in Paths /\ queue \in Seq(Paths)
      /\ host = "response" /\ host' = "signal" /\ client' = client
      /\ queue' = Append(queue, RespPath(client)) /\ taken' = taken
  BY PathFacts DEF HostResponse, Enqueue, TypeOK
<1>2. PICK n \in Nat : n = Len(queue)
  BY <1>1
<1>3. /\ DOMAIN queue = 1 .. n /\ DOMAIN queue' = 1 .. n + 1 /\ Len(queue') = n + 1
      /\ queue'[n + 1] = RespPath(client) /\ \A i \in 1 .. n : queue'[i] = queue[i]
  BY <1>1, <1>2
<1>4. \A i \in 1 .. n + 1 : i \in 1 .. n \/ i = n + 1
  OBVIOUS
<1>5. ASSUME NEW c \in Clients
      PROVE  /\ \A i \in DOMAIN queue' :
                   /\ queue'[i] = ReqPath(c) => Followed(c, i)'
                   /\ queue'[i] = RespPath(c) => Preceded(c, i)'
             /\ host' = "response" /\ client' = c => Preceded(c, Len(queue) + 1)'
             /\ \A w \in Workers : taken'[w] = <<ReqPath(c)>> => Followed(c, 0)'
  <2>1. ASSUME NEW i \in 0 .. n, Followed(c, i)
        PROVE  Followed(c, i)'
    <3>1. CASE i = n
      <4>1. c = client /\ i # n + 1
        BY <1>2, <2>1, <3>1 DEF Followed
      <4> QED
        BY <1>3, <3>1, <4>1 DEF Followed
    <3>2. CASE i # n
      <4>1. i + 1 \in 1 .. n /\ i # n + 1
        BY <3>2
      <4> QED
        BY <1>2, <1>3, <2>1, <3>2, <4>1 DEF Followed
    <3> QED
      BY <3>1, <3>2
  <2>2. ASSUME NEW i \in 1 .. n + 1, Preceded(c, i)
        PROVE  Preceded(c, i)'
    <3>1. CASE i = 1
      BY <1>1, <2>2, <3>1 DEF Preceded
    <3>2. CASE i # 1
      <4>1. i - 1 \in 1 .. n
        BY <3>2
      <4> QED
        BY <1>3, <2>2, <3>2, <4>1 DEF Preceded
    <3> QED
      BY <3>1, <3>2
  <2>3. RespPath(client) # ReqPath(c) /\ (RespPath(client) = RespPath(c) => c = client)
    BY <1>1, PathFacts
  <2>4. c = client => Preceded(c, n + 1)
    BY <1>1, <1>2 DEF PairInv
  <2>5. /\ 1 .. n \subseteq 0 .. n /\ 1 .. n \subseteq 1 .. n + 1
        /\ 0 \in 0 .. n /\ n + 1 \in 1 .. n + 1
    OBVIOUS
  <2>6. \A i \in 1 .. n : /\ queue[i] = ReqPath(c) => Followed(c, i)
                          /\ queue[i] = RespPath(c) => Preceded(c, i)
    BY <1>3 DEF PairInv
  <2>7. ASSUME NEW i \in DOMAIN queue'
        PROVE  /\ queue'[i] = ReqPath(c) => Followed(c, i)'
               /\ queue'[i] = RespPath(c) => Preceded(c, i)'
    <3>1. CASE i \in 1 .. n
      BY <1>3, <2>1, <2>2, <2>5, <2>6, <3>1
    <3>2. CASE i = n + 1
      BY <1>3, <2>2, <2>3, <2>4, <2>5, <3>2
    <3> QED
      BY <1>3, <1>4, <3>1, <3>2
  <2>8. \A w \in Workers : taken'[w] = <<ReqPath(c)>> => Followed(c, 0)'
    BY <1>1, <2>1, <2>5 DEF PairInv
  <2> QED
    BY <1>1, <2>7, <2>8
<1>6. ClientsPipes'
  BY <1>1 DEF PairInv, ClientsPipes
<1>7. \A w \in Workers : Len(taken'[w]) = 1 => \E c \in Clients : taken'[w] = <<ReqPath(c)>>
  BY <1>1 DEF PairInv
<1> QED
  BY <1>5, <1>6, <1>7 DEF PairInv

\* Nothing is put into the queue or taken from it.
LEMMA PairSame ==
    ASSUME TypeOK, PairInv, queue' = queue, host' = "response" <=> host = "response",
           host = "response" => client' = client,
           \A w \in Workers : \/ taken'[w] = taken[w]
                              \/ Len(taken[w]) = 2 /\ taken'[w] = <<>>
    PROVE  PairInv'
<1>0. Len(<<>>) = 0
  OBVIOUS
<1>1. \A w \in Workers, c \in Clients : Len(<<ReqPath(c)>>) = 1 /\ <<ReqPath(c)>> # <<>>
  OBVIOUS
<1>2. ASSUME NEW w \in Workers, NEW c \in Clients
      PROVE  taken'[w] = <<ReqPath(c)>> <=> taken[w] = <<ReqPath(c)>>
  <2>1. CASE taken'[w] = taken[w]
    BY <2>1
  <2>2. CASE Len(taken[w]) = 2 /\ taken'[w] = <<>>
    <3>1. taken[w] # <<ReqPath(c)>>
      BY <1>1, <2>2
    <3>2. taken'[w] # <<ReqPath(c)>>
      BY <1>1, <2>2
    <3> QED
      BY <3>1, <3>2
  <2> QED
    BY <2>1, <2>2
<1>3. \A w \in Workers : /\ Len(taken'[w]) = 1 => taken'[w] = taken[w]
                         /\ Len(taken'[w]) = 2 => taken'[w] = taken[w]
  BY <1>0
<1>4. ClientsPipes'
  BY <1>3 DEF PairInv, ClientsPipes
<1>5. \A c \in Clients, i \in Nat : Followed(c, i)' <=> Followed(c, i)
  BY DEF Followed
<1>6. \A c \in Clients, i \in Nat : Preceded(c, i)' <=> Preceded(c, i)
  BY <1>2 DEF Preceded
<1>7. DOMAIN queue \subseteq Nat /\ 0 \in Nat /\ Len(queue) + 1 \in Nat
  BY DEF TypeOK
<1>8. \A c \in Clients :
          /\ \A i \in DOMAIN queue' :
                /\ queue'[i] = ReqPath(c) => Followed(c, i)'
                /\ queue'[i] = RespPath(c) => Preceded(c, i)'
          /\ host' = "response" /\ client' = c => Preceded(c, Len(queue) + 1)'
          /\ \A w \in Workers : taken'[w] = <<ReqPath(c)>> => Followed(c, 0)'
  BY <1>2, <1>5, <1>6, <1>7 DEF PairInv
<1> QED
  BY <1>3, <1>4, <1>8 DEF PairInv


\* What a worker takes when no other has half a pair: nothing, the first path of a
\* pair, or a pair, or the other half of the one it has.
LEMMA TakePair ==
    ASSUME TypeOK, PairInv, NEW w \in Workers, Take(w), queue # <<>>,
           \A v \in Workers \ {w} : Len(taken[v]) # 1
    PROVE  \E c \in Clients, k \in 1 .. 2 :
              /\ queue' \in Seq(Paths) /\ k <= Len(queue) /\ Len(queue') = Len(queue) - k
              /\ \A i \in 1 .. Len(queue) - k : queue'[i] = queue[i + k]
              /\ \/ /\ k = 1 /\ Len(queue) = 1 /\ host = "response" /\ client = c
                    /\ taken[w] = <<>> /\ taken'[w] = <<ReqPath(c)>>
                    /\ waiting' = waiting \cup {w}
                 \/ /\ queue[k] = RespPath(c) /\ taken'[w] = Pair(c)
                    /\ waiting' = waiting
                    /\ \/ k = 2 /\ taken[w] = <<>>
                       \/ k = 1 /\ taken[w] = <<ReqPath(c)>>
<1>2. PICK n \in 0 .. 1, m \in Nat, k \in 0 .. 2 :
           /\ n = Len(taken[w]) /\ m = Len(queue)
           /\ k <= m /\ k <= 2 - n /\ (k = 2 - n \/ k = m)
           /\ queue' \in Seq(Paths) /\ taken'[w] \in Seq(Paths)
           /\ Len(queue') = m - k
           /\ \A i \in 1 .. m - k : queue'[i] = queue[i + k]
           /\ Len(taken'[w]) = n + k
           /\ \A i \in 1 .. n + k :
                 taken'[w][i] = IF i <= n THEN taken[w][i] ELSE queue[i - n]
           /\ waiting' = IF n + k < 2 THEN waiting \cup {w} ELSE waiting
  BY TakeType, SMTT(20), ZenonT(40)
<1>0. queue \in Seq(Paths) /\ taken[w] \in Seq(Paths)
  BY DEF TypeOK
<1>3. DOMAIN queue = 1 .. m /\ m # 0 /\ k \in 1 .. 2
  <2>1. DOMAIN queue = 1 .. m
    BY <1>0, <1>2, LenProperties
  <2>2. m # 0
    <3>1. \A s \in Seq(Paths) : Len(s) = 0 => s = <<>>
      OBVIOUS
    <3> QED
      BY <1>0, <1>2, <3>1
  <2>3. m \in Nat /\ n \in 0 .. 1 /\ k \in 0 .. 2 /\ (k = 2 - n \/ k = m)
    BY <1>2
  <2>4. k \in 1 .. 2
    BY <2>2, <2>3
  <2> QED
    BY <2>1, <2>2, <2>4
<1>4. PICK c \in Clients :
              \/ queue[1] = ReqPath(c) /\ Followed(c, 1) /\ ~ HalfTaken
              \/ queue[1] = RespPath(c) /\ \E v \in Workers : HalfOf(v, c)
  BY FirstPath
<1>5. CASE n = 0
  <2>1. \A v \in Workers : ~ HalfOf(v, c)
    <3>1. Len(taken[w]) # 1
      BY <1>2, <1>5
    <3> QED
      BY <3>1, HalfFacts
  <2>2. queue[1] = ReqPath(c) /\ Followed(c, 1)
    BY <1>4, <2>1
  <2>3. taken[w] = <<>>
    <3>1. Len(taken[w]) = 0
      BY <1>2, <1>5
    <3>2. \A s \in Seq(Paths) : Len(s) = 0 => s = <<>>
      OBVIOUS
    <3> QED
      BY <1>0, <3>1, <3>2
  <2>4. \A i \in 1 .. k : taken'[w][i] = queue[i]
    BY <1>2, <1>5
  <2>5. CASE k = 1
    <3>1. m = 1
      BY <1>2, <1>5, <2>5
    <3>2. taken'[w] = <<ReqPath(c)>>
      BY <1>2, <1>5, <2>2, <2>4, <2>5
    <3>3. host = "response" /\ client = c
      BY <1>2, <2>2, <3>1 DEF Followed
    <3> QED
      BY <1>2, <2>3, <2>5, <3>1, <3>2, <3>3
  <2>6. CASE k = 2
    <3>1. 1 # m
      BY <1>2, <2>6
    <3>2. queue[2] = RespPath(c)
      BY <1>2, <2>2, <3>1 DEF Followed
    <3>3. Len(taken'[w]) = 2 /\ taken'[w][1] = ReqPath(c) /\ taken'[w][2] = RespPath(c)
      BY <1>2, <1>5, <2>2, <2>4, <2>6, <3>2
    <3>4. taken'[w] = Pair(c)
      BY <1>2, <3>3 DEF Pair
    <3> QED
      BY <1>2, <1>3, <2>3, <2>6, <3>2, <3>4
  <2>7. k = 1 \/ k = 2
    BY <1>2, <1>3
  <2> QED
    BY <2>5, <2>6, <2>7
<1>6. CASE n = 1
  <2>1. PICK d \in Clients : taken[w] = <<ReqPath(d)>>
    BY <1>2, <1>6 DEF PairInv
  <2>2. HalfTaken
    BY <1>2, <1>6 DEF HalfTaken
  <2>3. PICK v \in Workers : HalfOf(v, c) /\ queue[1] = RespPath(c)
    BY <1>4, <2>2
  <2>4. v = w /\ taken[w] = <<ReqPath(c)>> /\ taken[w][1] = ReqPath(c)
    BY <2>3, HalfFacts DEF HalfOf
  <2>5. k = 1
    BY <1>2, <1>3, <1>6
  <2>6. Len(taken'[w]) = 2 /\ taken'[w][1] = ReqPath(c) /\ taken'[w][2] = RespPath(c)
    <3>1. taken'[w][1] = taken[w][1] /\ taken'[w][2] = queue[2 - 1]
      BY <1>2, <1>6, <2>5
    <3> QED
      BY <1>2, <1>6, <2>3, <2>4, <2>5, <3>1
  <2>7. taken'[w] = Pair(c)
    BY <1>2, <2>6 DEF Pair
  <2> QED
    BY <1>2, <1>3, <2>3, <2>4, <2>5, <2>7
<1> QED
  BY <1>5, <1>6

LEMMA TakeNothing ==
    ASSUME TypeOK, NEW w \in Workers, Take(w), queue = <<>>
    PROVE  queue' = <<>> /\ taken' = taken /\ waiting' = waiting \cup {w}
<1>1. PICK n \in 0 .. 1, m \in Nat, k \in 0 .. 2 :
           /\ n = Len(taken[w]) /\ m = Len(queue) /\ k <= m
           /\ queue' \in Seq(Paths) /\ taken'[w] \in Seq(Paths)
           /\ Len(queue') = m - k
           /\ Len(taken'[w]) = n + k
           /\ \A i \in 1 .. n + k :
                 taken'[w][i] = IF i <= n THEN taken[w][i] ELSE queue[i - n]
           /\ waiting' = IF n + k < 2 THEN waiting \cup {w} ELSE waiting
  BY TakeType
<1>2. m = 0 /\ k = 0
  BY <1>1
<1>3. queue' = <<>> /\ waiting' = waiting \cup {w}
  BY <1>1, <1>2
<1>4. taken'[w] = taken[w]
  <2>1. \A i \in 1 .. n : i <= n /\ i \in 1 .. n + k
    BY <1>2
  <2>2. \A i \in 1 .. n : taken'[w][i] = taken[w][i]
    BY <1>1, <2>1
  <2>3. Len(taken'[w]) = n /\ taken[w] \in Seq(Paths)
    BY <1>1, <1>2 DEF TypeOK
  <2> QED
    BY <1>1, <2>2, <2>3
<1>5. taken' = taken
  <2>1. taken' = [taken EXCEPT ![w] = taken'[w]]
    BY DEF Take, TakePaths, TypeOK
  <2> QED
    BY <1>4, <2>1 DEF TypeOK
<1> QED
  BY <1>3, <1>5

LEMMA PairTake ==
    ASSUME TypeOK, PairInv, NEW w \in Workers, Take(w),
           \A v \in Workers \ {w} : Len(taken[v]) # 1
    PROVE  PairInv'
<1>1. UNCHANGED <<host, client>> /\ \A v \in Workers \ {w} : taken'[v] = taken[v]
  BY TakeFrame
<1>2. CASE queue = <<>>
  BY <1>1, <1>2, TakeNothing, PairSame
<1>3. CASE queue # <<>>
  <2>1. PICK c \in Clients, k \in 1 .. 2, m \in Nat :
              /\ m = Len(queue) /\ queue' \in Seq(Paths) /\ k <= m /\ Len(queue') = m - k
              /\ \A i \in 1 .. m - k : queue'[i] = queue[i + k]
              /\ \/ /\ k = 1 /\ m = 1 /\ host = "response" /\ client = c
                    /\ taken'[w] = <<ReqPath(c)>>
                 \/ queue[k] = RespPath(c) /\ taken'[w] = Pair(c)
    <3>0. queue \in Seq(Paths)
      BY DEF TypeOK
    <3>1. PICK m \in Nat : m = Len(queue)
      BY <3>0
    <3> QED
      BY <1>3, <3>1, TakePair
  <2>2. DOMAIN queue = 1 .. m /\ DOMAIN queue' = 1 .. m - k
    BY <2>1 DEF TypeOK
  <2>3. CASE k = 1 /\ m = 1 /\ host = "response" /\ client = c /\ taken'[w] = <<ReqPath(c)>>
    <3>1. Len(queue') = 0 /\ DOMAIN queue' = {}
      BY <2>1, <2>2, <2>3
    <3>2. \A v \in Workers, d \in Clients : taken'[v] = <<ReqPath(d)>> => v = w /\ d = c
      <4>1. \A d \in Clients : Len(<<ReqPath(d)>>) = 1 /\ <<ReqPath(d)>>[1] = ReqPath(d)
        OBVIOUS
      <4>2. \A v \in Workers, d \in Clients : taken'[v] = <<ReqPath(d)>> => v = w
        BY <1>1, <4>1
      <4>3. \A d \in Clients : taken'[w] = <<ReqPath(d)>> => ReqPath(d) = ReqPath(c)
        BY <2>3, <4>1
      <4> QED
        BY <4>2, <4>3, PathFacts
    <3>3. Preceded(c, Len(queue) + 1)'
      BY <2>3, <3>1 DEF Preceded
    <3>4. Followed(c, 0)'
      BY <1>1, <2>3, <3>1 DEF Followed
    <3>5. \A v \in Workers : /\ Len(taken'[v]) = 1 => v = w
                             /\ Len(taken'[v]) = 2 => taken'[v] = taken[v]
      BY <1>1, <2>3
    <3>6. ClientsPipes'
      BY <3>5 DEF PairInv, ClientsPipes
    <3> QED
      BY <1>1, <2>3, <3>1, <3>2, <3>3, <3>4, <3>5, <3>6 DEF PairInv
  <2>4. CASE queue[k] = RespPath(c) /\ taken'[w] = Pair(c)
    <3>1. /\ \A i \in 1 .. m - k : i + k \in 1 .. m /\ i + k # 1
          /\ \A i \in 1 .. m - k : i = m - k <=> i + k = m
          /\ \A i \in 1 .. m - k : i # m - k => i + 1 \in 1 .. m - k /\ (i + 1) + k = (i + k) + 1
          /\ \A i \in 1 .. m - k : i # 1 => i - 1 \in 1 .. m - k /\ (i - 1) + k = (i + k) - 1
          /\ 1 + k - 1 = k
      BY <2>1
    <3>2. \A d \in Clients : queue[k] # ReqPath(d)
      BY <2>4, PathFacts
    <3>3. ASSUME NEW d \in Clients, NEW i \in 1 .. m - k, queue'[i] = ReqPath(d)
          PROVE  Followed(d, i)'
      <4>1. queue[i + k] = ReqPath(d) /\ i + k \in 1 .. m
        BY <2>1, <3>1, <3>3
      <4>2. Followed(d, i + k)
        BY <2>2, <4>1 DEF PairInv
      <4>3. CASE i = m - k
        <5>1. i + k = m
          BY <3>1, <4>3
        <5> QED
          BY <1>1, <2>1, <4>2, <4>3, <5>1 DEF Followed
      <4>4. CASE i # m - k
        <5>1. i + k # m /\ i + 1 \in 1 .. m - k /\ (i + 1) + k = (i + k) + 1
          BY <3>1, <4>4
        <5>2. queue[(i + k) + 1] = RespPath(d)
          BY <2>1, <4>2, <5>1 DEF Followed
        <5>3. queue'[i + 1] = RespPath(d)
          BY <2>1, <5>1, <5>2
        <5> QED
          BY <2>1, <4>4, <5>3 DEF Followed
      <4> QED
        BY <4>3, <4>4
    <3>4. ASSUME NEW d \in Clients, NEW i \in 1 .. m - k, queue'[i] = RespPath(d)
          PROVE  Preceded(d, i)'
      <4>1. queue[i + k] = RespPath(d) /\ i + k \in 1 .. m /\ i + k # 1
        BY <2>1, <3>1, <3>4
      <4>2. queue[(i + k) - 1] = ReqPath(d)
        BY <2>2, <4>1 DEF PairInv, Preceded
      <4>3. i # 1
        BY <3>1, <3>2, <4>2
      <4>4. i - 1 \in 1 .. m - k /\ (i - 1) + k = (i + k) - 1
        BY <3>1, <4>3
      <4>5. queue'[i - 1] = ReqPath(d)
        BY <2>1, <4>2, <4>4
      <4> QED
        BY <4>3, <4>5 DEF Preceded
    <3>5. ASSUME NEW d \in Clients, host = "response", client = d
          PROVE  Preceded(d, Len(queue) + 1)'
      <4>1. Preceded(d, m + 1)
        BY <2>1, <3>5 DEF PairInv
      <4>2. m + 1 # 1 /\ (m + 1) - 1 = m
        BY <2>1
      <4>3. queue[m] = ReqPath(d)
        BY <4>1, <4>2 DEF Preceded
      <4>4. m # k
        BY <3>2, <4>3
      <4>5. m - k \in 1 .. m - k /\ (m - k) + k = m /\ (m - k) + 1 # 1
            /\ ((m - k) + 1) - 1 = m - k
        BY <2>1, <4>4
      <4>6. queue'[m - k] = ReqPath(d)
        BY <2>1, <4>3, <4>5
      <4> QED
        BY <2>1, <4>5, <4>6 DEF Preceded
    <3>6. /\ \A v \in Workers : Len(taken'[v]) # 1
          /\ \A v \in Workers, d \in Clients : taken'[v] # <<ReqPath(d)>>
      <4>1. \A x : Len(<<x>>) = 1
        OBVIOUS
      <4>2. Len(taken'[w]) = 2
        BY <2>4, PairFacts
      <4>3. \A v \in Workers : Len(taken'[v]) # 1
        BY <1>1, <4>2
      <4> QED
        BY <4>1, <4>3
    <3>7. ClientsPipes'
      BY <1>1, <2>4 DEF PairInv, ClientsPipes, Pair
    <3> QED
      BY <1>1, <2>2, <3>3, <3>4, <3>5, <3>6, <3>7 DEF PairInv
  <2> QED
    BY <2>1, <2>3, <2>4
<1> QED
  BY <1>2, <1>3


\* Every step but those of the two critical sections leaves the queue alone, but for
\* a signal, a worker that wakes up and a session that ends.
LEMMA QueueFrame ==
    ASSUME TypeOK, [Next]_vars, ~ HostRequest, ~ HostResponse, \A w \in Workers : ~ Take(w)
    PROVE  /\ queue' = queue
           /\ host' = "response" <=> host = "response"
           /\ host = "response" => client' = client
           /\ waiting' \subseteq waiting
           /\ \A w \in Workers : \/ taken'[w] = taken[w]
                                 \/ Len(taken[w]) = 2 /\ taken'[w] = <<>>
<1> USE DEF queueVars
<1>1. CASE Host
  BY <1>1 DEF Host, HostSignal
<1>2. CASE UNCHANGED vars \/ \E w \in Workers : SpuriousWakeUp(w)
  BY <1>2 DEF vars, SpuriousWakeUp, WakeUp
<1>3. ASSUME NEW w \in Workers, WorkerRest(w)
      PROVE  /\ UNCHANGED <<queue, host, client, waiting>>
             /\ \A v \in Workers : \/ taken'[v] = taken[v]
                                   \/ Len(taken[v]) = 2 /\ taken'[v] = <<>>
  <2>1. UNCHANGED <<queue, host, client, waiting>>
        /\ \A v \in Workers \ {w} : taken'[v] = taken[v]
    BY <1>3, WorkerFrame
  <2>2. taken'[w] = taken[w] \/ (Len(taken[w]) = 2 /\ taken'[w] = <<>>)
    <3>1. CASE ReadQuit(w) \/ RepeatQuit(w)
      BY <3>1, OwnPaths DEF ReadQuit, RepeatQuit, EndSession, GoWorker, TypeOK
    <3>2. CASE ~ (ReadQuit(w) \/ RepeatQuit(w))
      BY <1>3, <3>2 DEF WorkerRest, OpenReq, OpenFails, ReqOpened, OpenResp, RespOpened,
         SendId, ReadRequest, RepeatRequest, RepeatUnknown, SendAnswer, WriteBroken,
         ServerDies
    <3> QED
      BY <3>1, <3>2
  <2> QED
    BY <2>1, <2>2
<1>4. ASSUME NEW c \in Clients, Setup(c) \/ SetupWithoutPipes(c) \/ Client(c) \/ Crash(c)
      PROVE  UNCHANGED <<queue, host, client, waiting, taken>>
  BY <1>4, ClientFrame
<1> QED
  BY <1>1, <1>2, <1>3, <1>4 DEF Next, Quiet, Worker, WorkerRest

LEMMA PairStep ==
    ASSUME TakesAlone, PathsInv, PairInv, [Next]_vars
    PROVE  PairInv'
<1>1. TypeOK /\ PairInv
  BY DEF PathsInv
<1>2. CASE HostRequest
  BY <1>1, <1>2, PairHostRequest
<1>3. CASE HostResponse
  BY <1>1, <1>3, PairHostResponse
<1>4. ASSUME NEW w \in Workers, Take(w)
      PROVE  PairInv'
  BY <1>1, <1>4, PairTake DEF TakesAlone
<1>5. CASE ~ HostRequest /\ ~ HostResponse /\ \A w \in Workers : ~ Take(w)
  BY <1>1, <1>5, QueueFrame, PairSame
<1> QED
  BY <1>2, <1>3, <1>4, <1>5

LEMMA ModFacts ==
    \A n \in Nat : /\ n % 2 \in {0, 1}
                   /\ (n + 1) % 2 = 1 - (n % 2)
                   /\ (n + 2) % 2 = n % 2
  OBVIOUS

LEMMA ParityStep ==
    ASSUME TakesAlone, PathsInv, PairInv, Parity, [Next]_vars
    PROVE  Parity'
<1>0. TypeOK /\ PairInv /\ Parity /\ queue \in Seq(Paths)
  BY DEF PathsInv, TypeOK
<1>00. PICK n \in Nat : n = Len(queue)
  BY <1>0
<1>1. CASE HostRequest
  <2>1. host = "read" /\ host' = "response" /\ Len(queue') = n + 1 /\ (HalfTaken' <=> HalfTaken)
    <3>1. ReqPath(Head(serverPipe)) \in Paths
      BY <1>0, <1>1, PathFacts DEF HostRequest, TypeOK
    <3> QED
      BY <1>0, <1>00, <1>1, <3>1 DEF HostRequest, Enqueue, HalfTaken
  <2> QED
    BY <1>0, <1>00, <2>1, ModFacts DEF Parity
<1>2. CASE HostResponse
  <2>1. host = "response" /\ host' = "signal" /\ Len(queue') = n + 1 /\ (HalfTaken' <=> HalfTaken)
    <3>1. RespPath(client) \in Paths
      BY <1>0, <1>2, PathFacts DEF HostResponse, TypeOK
    <3> QED
      BY <1>0, <1>00, <1>2, <3>1 DEF HostResponse, Enqueue, HalfTaken
  <2> QED
    BY <1>0, <1>00, <2>1, ModFacts DEF Parity
<1>3. ASSUME NEW w \in Workers, Take(w)
      PROVE  Parity'
  <2>1. host' = host /\ \A v \in Workers \ {w} : taken'[v] = taken[v]
    BY <1>0, <1>3, TakeFrame
  <2>2. \A v \in Workers \ {w} : Len(taken[v]) # 1 /\ Len(taken'[v]) # 1
    BY <1>3, <2>1 DEF TakesAlone
  <2>3. (HalfTaken <=> Len(taken[w]) = 1) /\ (HalfTaken' <=> Len(taken'[w]) = 1)
    BY <2>2 DEF HalfTaken
  <2>4. CASE queue = <<>>
    BY <1>0, <1>3, <2>1, <2>3, <2>4, TakeNothing DEF Parity
  <2>5. CASE queue # <<>>
    <3>1. PICK c \in Clients, k \in 1 .. 2 :
              /\ k <= n /\ Len(queue') = n - k
              /\ \/ /\ k = 1 /\ n = 1 /\ host = "response"
                    /\ taken[w] = <<>> /\ taken'[w] = <<ReqPath(c)>>
                 \/ /\ taken'[w] = Pair(c)
                    /\ \/ k = 2 /\ taken[w] = <<>>
                       \/ k = 1 /\ taken[w] = <<ReqPath(c)>>
      BY <1>0, <1>00, <1>3, <2>2, <2>5, TakePair
    <3>2. Len(<<>>) = 0 /\ Len(<<ReqPath(c)>>) = 1 /\ Len(Pair(c)) = 2
      BY PairFacts
    <3>3. CASE k = 1 /\ n = 1 /\ host = "response" /\ taken'[w] = <<ReqPath(c)>>
      BY <2>1, <2>3, <3>1, <3>2, <3>3 DEF Parity
    <3>4. CASE taken'[w] = Pair(c) /\ k = 2 /\ taken[w] = <<>>
      <4>1. n - 2 \in Nat /\ (n - 2) + 2 = n /\ ~ HalfTaken /\ ~ HalfTaken'
        BY <2>3, <3>1, <3>2, <3>4
      <4>2. (n - 2) % 2 = n % 2
        BY <4>1, ModFacts
      <4> QED
        BY <1>0, <1>00, <2>1, <3>1, <3>4, <4>1, <4>2 DEF Parity
    <3>5. CASE taken'[w] = Pair(c) /\ k = 1 /\ taken[w] = <<ReqPath(c)>>
      <4>1. n - 1 \in Nat /\ (n - 1) + 1 = n /\ HalfTaken /\ ~ HalfTaken'
        BY <2>3, <3>1, <3>2, <3>5
      <4>2. n % 2 = 1 - ((n - 1) % 2) /\ (n - 1) % 2 \in {0, 1}
        BY <4>1, ModFacts
      <4> QED
        BY <1>0, <1>00, <2>1, <3>1, <3>5, <4>1, <4>2 DEF Parity
    <3> QED
      BY <3>1, <3>3, <3>4, <3>5
  <2> QED
    BY <2>4, <2>5
<1>4. CASE ~ HostRequest /\ ~ HostResponse /\ \A w \in Workers : ~ Take(w)
  <2>1. /\ queue' = queue /\ (host' = "response" <=> host = "response")
        /\ \A w \in Workers : \/ taken'[w] = taken[w]
                              \/ Len(taken[w]) = 2 /\ taken'[w] = <<>>
    BY <1>0, <1>4, QueueFrame
  <2>2. Len(<<>>) = 0
    OBVIOUS
  <2>3. \A w \in Workers : Len(taken'[w]) = 1 <=> Len(taken[w]) = 1
    BY <2>1, <2>2
  <2>4. HalfTaken' <=> HalfTaken
    BY <2>3 DEF HalfTaken
  <2> QED
    BY <1>0, <2>1, <2>4 DEF Parity
<1> QED
  BY <1>1, <1>2, <1>3, <1>4

LEMMA PairsInit == Init => PairInv /\ Parity
<1> SUFFICES ASSUME Init PROVE PairInv /\ Parity
  OBVIOUS
<1>1. DOMAIN <<>> = {} /\ Len(<<>>) = 0 /\ 0 % 2 = 0
  OBVIOUS
<1>2. queue = <<>> /\ \A w \in Workers : taken[w] = <<>>
  BY DEF Init, QueueInit
<1>3. \A c \in Clients : Len(<<ReqPath(c)>>) = 1
  OBVIOUS
<1>4. PairInv
  BY <1>1, <1>2, <1>3 DEF Init, QueueInit, PairInv, ClientsPipes
<1>5. Parity
  BY <1>1, <1>2 DEF Init, QueueInit, Parity, HalfTaken
<1> QED
  BY <1>4, <1>5

LEMMA PairsStep ==
    PathsInv /\ PairInv /\ Parity /\ [Next]_vars /\ [TakesAlone]_vars
        => PairInv' /\ Parity'
<1> SUFFICES ASSUME PathsInv, PairInv, Parity, [Next]_vars, [TakesAlone]_vars
             PROVE  PairInv' /\ Parity'
  OBVIOUS
<1>1. CASE TakesAlone
  BY <1>1, PairStep, ParityStep
<1>2. CASE UNCHANGED vars
  <2>1. UNCHANGED <<queue, host, client, taken>>
    BY <1>2 DEF vars, queueVars
  <2>2. PairInv'
    BY <2>1, PairSame DEF PathsInv
  <2>3. Parity'
    BY <2>1 DEF Parity, HalfTaken
  <2> QED
    BY <2>2, <2>3
<1> QED
  BY <1>1, <1>2

LEMMA PairsInvariant == Spec /\ [][TakesAlone]_vars => [](PairInv /\ Parity)
  BY PairsInit, PairsStep, PathsInvariant, PTL DEF Spec

\* A session thread reads and writes the pipes of one client, with any number of
\* clients and of workers, as long as no worker takes paths while another one has
\* only the first of two: that is the only way in which the pipes of two clients
\* are ever mixed up.
THEOREM PipesPaired == Spec /\ [][TakesAlone]_vars => []ClientsPipes
<1>1. PairInv => ClientsPipes
  BY DEF PairInv
<1> QED
  BY <1>1, PairsInvariant, PTL

------------------------------------------------------------------------------
(***************************************************************************)
(* One worker, or clients that come and go one by one.                     *)
(***************************************************************************)
Regime == OneWorkerOnly \/ ClientsSpaced

LEMMA RegimeTakes == Regime /\ QueueInv => TakesAlone
  BY DEF Regime, QueueInv, SpacedInv, OneWorkerOnly, TakesAlone

\* With one worker: it falls asleep only in front of an empty queue, and the host
\* wakes it for what it puts in.
LEMMA OneStep ==
    ASSUME OneWorkerOnly, PathsInv, QueueInv, [Next]_vars
    PROVE  OneInv'
<1>0. TypeOK /\ PairInv /\ OneInv
  BY DEF PathsInv, QueueInv
<1>1. CASE HostRequest \/ HostResponse
  BY <1>1 DEF HostRequest, HostResponse, OneInv
<1>2. CASE HostSignal
  <2>1. waiting' = {}
    BY <1>0, <1>2 DEF HostSignal, OneWorkerOnly, TypeOK
  <2> QED
    BY <2>1 DEF OneInv
<1>3. ASSUME NEW w \in Workers, Take(w)
      PROVE  OneInv'
  <2>1. waiting = {}
    BY <1>0, <1>3 DEF Take, TakePaths, TypeOK, OneWorkerOnly
  <2>2. CASE queue = <<>>
    BY <1>0, <1>3, <2>2, TakeNothing DEF OneInv
  <2>3. CASE queue # <<>>
    <3>1. host' = host /\ \A v \in Workers \ {w} : Len(taken[v]) # 1
      BY <1>0, <1>3, TakeFrame DEF OneWorkerOnly
    <3>2. waiting' = waiting \/ host = "response"
      BY <1>0, <1>3, <2>3, <3>1, TakePair
    <3> QED
      BY <2>1, <3>1, <3>2 DEF OneInv
  <2> QED
    BY <2>2, <2>3
<1>4. CASE ~ HostRequest /\ ~ HostResponse /\ ~ HostSignal /\ \A w \in Workers : ~ Take(w)
  <2>1. queue' = queue /\ waiting' \subseteq waiting
    BY <1>0, <1>4, QueueFrame
  <2>2. host' = host
    <3>1. ASSUME NEW w \in Workers, Worker(w) PROVE host' = host
      BY <1>0, <1>4, <3>1, WorkerFrame DEF Worker, WorkerRest
    <3>2. CASE UNCHANGED vars \/ \E w \in Workers : SpuriousWakeUp(w)
      BY <3>2 DEF vars, queueVars, SpuriousWakeUp, WakeUp
    <3> QED
      BY <1>0, <1>4, <3>1, <3>2, ClientFrame DEF Next, Quiet, Host
  <2> QED
    BY <1>0, <2>1, <2>2 DEF OneInv
<1> QED
  BY <1>1, <1>2, <1>3, <1>4


\* With spaced clients: while the host is busy no worker takes a path and no session
\* ends, for a session ends only once its client has quit.
LEMMA SpacedBusy ==
    ASSUME PathsInv, PairInv, SpacedInv, up, ~ HostIdle, NEW w \in Workers
    PROVE  ~ Take(w) /\ ~ ReadQuit(w) /\ ~ RepeatQuit(w)
<1> USE DEF PathsInv
<1>1. WorkersSettled
  BY DEF SpacedInv
<1>2. ~ Take(w)
  <2>1. Take(w) => wpc[w] = "take" /\ w \notin waiting
    BY DEF Take, TakePaths, GoWorker
  <2> QED
    BY <1>1, <2>1 DEF WorkersSettled
<1>3. ASSUME ReadQuit(w) \/ RepeatQuit(w)
      PROVE  FALSE
  <2>1. wpc[w] = "active"
    BY <1>3 DEF ReadQuit, RepeatQuit
  <2>2. PICK c \in Clients : taken[w] = Pair(c)
    BY <2>1, OwnPair DEF PairInv
  <2>3. cpc[c] # "done"
    <3>1. taken[w][1][1] = c
      BY <2>2, PairFacts, PathFacts
    <3>2. cpc[taken[w][1][1]] # "done"
      BY <1>1, <2>1 DEF WorkersSettled
    <3> QED
      BY <3>1, <3>2
  <2>4. cpc[c] \notin ClientReqOpen
    BY <1>3, <2>2, EndLeaves
  <2>5. MetInv(ReqPath(c))
    <3>1. ReqPipe(w) = ReqPath(c)
      BY <2>2, OnePair
    <3> QED
      BY <2>1, <3>1 DEF OpensInv, ReqOpen
  <2>6. cpc[c] = "dead" /\ ReqPath(c) \in fifos
    BY <2>3, <2>4, <2>5, PathFacts DEF MetInv
  <2> QED
    BY <2>6 DEF SpacedInv
<1> QED
  BY <1>2, <1>3

\* A sleeping worker beside a pair that is being put in: there is no other pair.
LEMMA SpacedAlone ==
    ASSUME PathsInv, NoLostWakeup, SpacedInv, up, ~ HostIdle, host = "read", waiting # {}
    PROVE  queue = <<>>
<1>1. WorkersSettled
  BY DEF SpacedInv
<1>2. ~ \E w \in Workers : wpc[w] = "take" /\ w \notin waiting
  BY <1>1 DEF WorkersSettled
<1> QED
  BY <1>2 DEF NoLostWakeup

\* A client that fails has no pipes: the worker of a client that it has met reads.
LEMMA SpacedDead ==
    ASSUME ClientsSpaced, PathsInv, SessionInv, SpacedInv, [Next]_vars, up,
           NEW c \in Clients, cpc'[c] = "dead"
    PROVE  ReqPath(c) \notin fifos'
<1> USE DEF PathsInv
<1>1. CASE cpc[c] = "dead"
  <2>1. ReqPath(c) \notin fifos
    BY <1>1 DEF SpacedInv
  <2>2. CASE \E d \in Clients : Setup(d) \/ SetupWithoutPipes(d)
    <3>1. PICK d \in Clients : Setup(d) \/ SetupWithoutPipes(d)
      BY <2>2
    <3>2. d # c /\ fifos' \subseteq fifos \cup {ReqPath(d), RespPath(d)}
      BY <1>1, <3>1 DEF Setup, SetupWithoutPipes, Connect, GoClient
    <3> QED
      BY <2>1, <3>2, PathFacts
  <2>3. CASE ~ \E d \in Clients : Setup(d) \/ SetupWithoutPipes(d)
    <3>1. CASE \/ Host \/ UNCHANGED vars \/ \E w \in Workers : SpuriousWakeUp(w)
      BY <2>1, <3>1, OtherFrame DEF pipeVars
    <3>2. ASSUME NEW w \in Workers, Worker(w)
          PROVE  fifos' = fifos
      BY <3>2, TakeFrame, WorkerFrame DEF Worker, WorkerRest, pipeVars
    <3>3. ASSUME NEW d \in Clients, Client(d) \/ Crash(d)
          PROVE  fifos' = fifos
      BY <3>3 DEF Client, ClientOpenReq, ClientOpenFails, ClientReqOpened,
         ClientOpenResp, ClientRespOpened, ReadId, SendRequest, ReadAnswer, Receive, Quit,
         ClientBroken, Crash, pipeVars, Pipes!OpenRead, Pipes!OpenWrite,
         Pipes!CloseAll, Pipes!Read, Pipes!Write
    <3> QED
      BY <2>1, <2>3, <3>1, <3>2, <3>3 DEF Next, Quiet
  <2> QED
    BY <2>2, <2>3
<1>2. CASE cpc[c] # "dead"
  <2>1. ClientOpenFails(c) \/ ClientBroken(c) \/ Crash(c)
    <3>1. CASE \/ Host \/ UNCHANGED vars \/ \E w \in Workers : SpuriousWakeUp(w)
      BY <1>2, <3>1, OtherFrame DEF clientVars
    <3>2. ASSUME NEW w \in Workers, Worker(w)
          PROVE  cpc' = cpc
      BY <3>2, TakeFrame, WorkerFrame DEF Worker, WorkerRest, clientVars
    <3>3. ASSUME NEW d \in Clients, d # c,
                 Setup(d) \/ SetupWithoutPipes(d) \/ Client(d) \/ Crash(d)
          PROVE  cpc'[c] = cpc[c]
      BY <3>3, ClientFrame
    <3>4. ASSUME Setup(c) \/ SetupWithoutPipes(c) \/ Client(c) \/ Crash(c)
          PROVE  ClientOpenFails(c) \/ ClientBroken(c) \/ Crash(c)
      BY <3>4 DEF Setup, SetupWithoutPipes, Connect, Client, ClientOpenReq,
         ClientReqOpened, ClientOpenResp, ClientRespOpened, ReadId, SendRequest,
         ReadAnswer, Receive, Quit, GoClient, TypeOK
    <3> QED
      BY <1>2, <3>1, <3>2, <3>3, <3>4 DEF Next, Quiet
  <2>2. CASE ClientOpenFails(c)
    BY <2>2 DEF ClientOpenFails, pipeVars
  <2>3. CASE ClientBroken(c)
    <3>1. cpc[c] = "ready" /\ readers[ReqPath(c)] = {}
      BY <2>3 DEF ClientBroken, GoClient, Pipes!Broken
    <3>2. PICK w \in Workers : wpc[w] \in ReqOpen /\ taken[w] = Pair(c)
      BY <3>1 DEF SessionInv, ClientInv, ServedInv, ClientReqOpen
    <3> QED
      BY <3>1, <3>2, ServingWorker
  <2>4. ~ Crash(c)
    BY DEF Crash, ClientsSpaced
  <2> QED
    BY <2>1, <2>2, <2>3, <2>4
<1> QED
  BY <1>1, <1>2

\* No worker has a single path: it finds a pair or nothing.
LEMMA SpacedTake ==
    ASSUME PathsInv, PairInv, SpacedInv, up, NEW w \in Workers, Take(w)
    PROVE  /\ HostIdle
           /\ Len(taken'[w]) # 1
           /\ \/ queue = <<>> /\ queue' = <<>>
              \/ /\ queue # <<>> /\ waiting' = waiting /\ 2 <= Len(queue)
                 /\ queue' \in Seq(Paths) /\ Len(queue') = Len(queue) - 2
<1> USE DEF PathsInv
<1>1. HostIdle
  BY SpacedBusy
<1>2. \A v \in Workers : Len(taken[v]) # 1
  BY DEF SpacedInv
<1>3. CASE queue = <<>>
  BY <1>1, <1>2, <1>3, TakeNothing
<1>4. CASE queue # <<>>
  <2>1. \A c \in Clients : Len(Pair(c)) = 2 /\ Len(<<ReqPath(c)>>) = 1
    BY PairFacts
  <2>2. PICK c \in Clients, k \in 1 .. 2 :
              /\ queue' \in Seq(Paths) /\ k <= Len(queue) /\ Len(queue') = Len(queue) - k
              /\ \/ host = "response"
                 \/ /\ taken'[w] = Pair(c) /\ waiting' = waiting
                    /\ k = 2 \/ taken[w] = <<ReqPath(c)>>
    BY <1>2, <1>4, TakePair
  <2>3. k = 2 /\ taken'[w] = Pair(c) /\ waiting' = waiting
    BY <1>1, <1>2, <2>1, <2>2 DEF HostIdle
  <2>4. Len(taken'[w]) = 2
    BY <2>1, <2>3
  <2>5. 2 <= Len(queue) /\ Len(queue') = Len(queue) - 2
    BY <2>2, <2>3
  <2> QED
    BY <1>1, <1>4, <2>2, <2>3, <2>4, <2>5
<1> QED
  BY <1>3, <1>4

LEMMA SettledStep ==
    ASSUME ClientsSpaced, PathsInv, PairInv, SpacedInv, [Next]_vars, up', up
    PROVE  (~ HostIdle => /\ WorkersSettled
                          /\ serverPipe # <<>> => Len(serverPipe) = 1 /\ host = "read")'
<1> USE DEF PathsInv
<1> DEFINE S == ~ HostIdle => /\ WorkersSettled
                              /\ serverPipe # <<>> => Len(serverPipe) = 1 /\ host = "read"
<1>0. S
  BY DEF SpacedInv
<1>1. ASSUME UNCHANGED <<serverPipe, host>>, ~ HostIdle => WorkersSettled'
      PROVE  S'
  BY <1>0, <1>1 DEF HostIdle
<1>2. CASE Host
  <2>1. UNCHANGED <<wpc, taken, cpc>>
    BY <1>2, OtherFrame DEF sessionVars, clientVars
  <2>2. CASE HostRequest
    <3>1. serverPipe' = <<>> /\ host' = "response"
      <4>1. serverPipe # <<>> /\ host = "read" /\ ~ HostIdle
        BY <2>2 DEF HostRequest, HostIdle
      <4>2. Len(serverPipe) = 1
        BY <1>0, <4>1
      <4>3. serverPipe \in Seq(Clients)
        BY DEF TypeOK
      <4>4. Tail(serverPipe) \in Seq(Clients) /\ Len(Tail(serverPipe)) = 0
        BY <4>1, <4>2, <4>3
      <4>5. \A s \in Seq(Clients) : Len(s) = 0 => s = <<>>
        OBVIOUS
      <4> QED
        BY <2>2, <4>4, <4>5 DEF HostRequest
    <3>2. WorkersSettled /\ UNCHANGED waiting
      BY <1>0, <2>2 DEF HostRequest, HostIdle
    <3> QED
      BY <2>1, <3>1, <3>2 DEF WorkersSettled
  <2>3. CASE HostResponse
    <3>1. WorkersSettled /\ serverPipe = <<>> /\ UNCHANGED <<waiting, serverPipe>>
      BY <1>0, <2>3 DEF HostResponse, HostIdle
    <3> QED
      BY <2>1, <3>1 DEF WorkersSettled
  <2>4. CASE HostSignal
    <3>1. serverPipe' = <<>> /\ host' = "read"
      BY <1>0, <2>4 DEF HostSignal, HostIdle
    <3> QED
      BY <3>1 DEF HostIdle
  <2> QED
    BY <1>2, <2>2, <2>3, <2>4 DEF Host
<1>3. CASE UNCHANGED vars
  <2>1. UNCHANGED <<wpc, taken, cpc, serverPipe, host, waiting>>
    BY <1>3 DEF vars, queueVars, sessionVars, clientVars
  <2> QED
    BY <1>0, <1>1, <2>1 DEF WorkersSettled
<1>4. ASSUME NEW w \in Workers, Take(w)
      PROVE  S'
  BY <1>1, <1>4, SpacedBusy, TakeFrame
<1>5. ASSUME NEW w \in Workers, WorkerRest(w)
      PROVE  S'
  <2>1. UNCHANGED <<serverPipe, host, waiting, cpc>> /\ wpc[w] # "take"
        /\ \A v \in Workers \ {w} : wpc'[v] = wpc[v] /\ taken'[v] = taken[v]
    BY <1>5, WorkerFrame DEF clientVars
  <2>2. ASSUME ~ HostIdle
        PROVE  wpc'[w] # "take" /\ taken'[w] = taken[w]
    BY <1>5, <2>2, SpacedBusy DEF WorkerRest, OpenReq, OpenFails, ReqOpened, OpenResp, RespOpened,
       SendId, ReadRequest, RepeatRequest, RepeatUnknown, SendAnswer, WriteBroken, ServerDies,
       GoWorker, queueVars, TypeOK
  <2>3. ~ HostIdle => WorkersSettled'
    BY <1>0, <2>1, <2>2 DEF WorkersSettled
  <2> QED
    BY <1>1, <2>1, <2>3
<1>6. ASSUME NEW c \in Clients, Setup(c) \/ SetupWithoutPipes(c)
      PROVE  S'
  <2>1. /\ HostIdle /\ WorkersSettled /\ serverPipe' = Append(serverPipe, c)
        /\ cpc'[c] = "openReq" /\ \A d \in Clients \ {c} : cpc'[d] = cpc[d]
        /\ UNCHANGED <<host, waiting, wpc, taken>>
    BY <1>6 DEF Setup, SetupWithoutPipes, Connect, GoClient, TypeOK, ClientsSpaced, sessionVars
  <2>2. Len(serverPipe') = 1 /\ host' = "read"
    BY <2>1 DEF HostIdle
  <2>3. WorkersSettled'
    <3> SUFFICES ASSUME NEW w \in Workers, wpc[w] # "take", cpc[taken[w][1][1]] # "done"
                 PROVE  cpc'[taken[w][1][1]] # "done"
      BY <2>1 DEF WorkersSettled
    <3>1. taken[w][1][1] \in Clients
      BY OwnPaths, PathFacts DEF ReqPipe
    <3> QED
      BY <2>1, <3>1
  <2> QED
    BY <2>2, <2>3
<1>7. ASSUME NEW c \in Clients, Client(c) \/ Crash(c)
      PROVE  S'
  <2>1. /\ UNCHANGED <<host, waiting, wpc, taken>>
        /\ \A d \in Clients \ {c} : cpc'[d] = cpc[d]
    BY <1>7, ClientFrame
  <2>2. serverPipe' = serverPipe
    BY <1>7 DEF Client, ClientOpenReq, ClientOpenFails, ClientReqOpened,
         ClientOpenResp, ClientRespOpened, ReadId, SendRequest, ReadAnswer, Receive, Quit,
         ClientBroken, Crash, queueVars
  <2>3. ASSUME ~ HostIdle
        PROVE  cpc'[c] = "done" => cpc[c] = "done"
    BY <1>7, <2>3 DEF Client, ClientOpenReq, ClientOpenFails, ClientReqOpened,
         ClientOpenResp, ClientRespOpened, ReadId, SendRequest, ReadAnswer, Receive, Quit,
         ClientBroken, Crash, GoClient, TypeOK, ClientsSpaced
  <2>4. ASSUME ~ HostIdle
        PROVE  WorkersSettled'
    <3> SUFFICES ASSUME NEW w \in Workers, wpc[w] # "take", cpc[taken[w][1][1]] # "done"
                 PROVE  cpc'[taken[w][1][1]] # "done"
      BY <1>0, <2>1, <2>4 DEF WorkersSettled
    <3>1. taken[w][1][1] \in Clients
      BY OwnPaths, PathFacts DEF ReqPipe
    <3> QED
      BY <2>1, <2>3, <2>4, <3>1
  <2> QED
    BY <1>1, <2>1, <2>2, <2>4
<1>8. \A w \in Workers : ~ SpuriousWakeUp(w)
  BY DEF SpuriousWakeUp, ClientsSpaced
<1> QED
  BY <1>2, <1>3, <1>4, <1>5, <1>6, <1>7, <1>8 DEF Next, Quiet, Worker, WorkerRest


\* Once the server has ended nothing of it moves.
LEMMA DownFrame ==
    ASSUME TypeOK, [Next]_vars, ~ up
    PROVE  UNCHANGED <<up, wpc, taken, queue, host, client, waiting>>
  BY ClientFrame
     DEF Next, Quiet, Host, Worker, vars, queueVars, sessionVars

\* A pair beside a sleeping worker is alone in the queue.
LEMMA AloneStep ==
    ASSUME ClientsSpaced, PathsInv, PairInv, NoLostWakeup, SpacedInv, [Next]_vars
    PROVE  (waiting # {} /\ queue # <<>> =>
               Len(queue) = (IF host = "response" THEN 1 ELSE 2))'
<1> USE DEF PathsInv
<1>0. /\ waiting # {} /\ queue # <<>> => Len(queue) = (IF host = "response" THEN 1 ELSE 2)
      /\ TypeOK /\ queue \in Seq(Paths) /\ \A w \in Workers : Len(taken[w]) # 1
  BY DEF SpacedInv, TypeOK
<1>1. CASE HostRequest /\ up
  <2>1. waiting # {} => queue = <<>>
    BY <1>1, SpacedAlone DEF HostRequest, HostIdle
  <2>2. ReqPath(Head(serverPipe)) \in Paths
    BY <1>0, <1>1, PathFacts DEF HostRequest, TypeOK
  <2>3. waiting # {} => Len(queue') = 1
    BY <1>0, <1>1, <2>1, <2>2 DEF HostRequest, Enqueue
  <2> QED
    BY <1>1, <2>3 DEF HostRequest
<1>2. CASE HostResponse
  <2>1. RespPath(client) \in Paths /\ client \in Clients
    BY <1>0, <1>2, PathFacts DEF HostResponse, TypeOK
  <2>2. queue # <<>>
    <3> SUFFICES ASSUME queue = <<>> PROVE FALSE
      OBVIOUS
    <3>1. Len(queue) + 1 = 1
      BY <1>0
    <3>2. Preceded(client, Len(queue) + 1)
      BY <1>2, <2>1 DEF HostResponse, PairInv
    <3>3. PICK w \in Workers : taken[w] = <<ReqPath(client)>>
      BY <3>1, <3>2 DEF Preceded
    <3> QED
      BY <1>0, <3>3
  <2>3. waiting # {} => Len(queue) = 1
    BY <1>0, <1>2, <2>2 DEF HostResponse
  <2>4. waiting # {} => Len(queue') = 2
    BY <1>0, <1>2, <2>1, <2>3 DEF HostResponse, Enqueue
  <2> QED
    BY <1>2, <2>4 DEF HostResponse
<1>3. ASSUME NEW w \in Workers, Take(w), up
      PROVE  waiting' # {} => queue' = <<>>
  <2>1. CASE queue # <<>>
    <3>1. /\ waiting' = waiting /\ host = "read"
          /\ queue' \in Seq(Paths) /\ Len(queue') = Len(queue) - 2
      BY <1>3, <2>1, SpacedTake DEF HostIdle
    <3>2. waiting' # {} => Len(queue') = 0
      BY <1>0, <2>1, <3>1
    <3>3. \A s \in Seq(Paths) : Len(s) = 0 => s = <<>>
      OBVIOUS
    <3> QED
      BY <3>1, <3>2, <3>3
  <2> QED
    BY <1>3, <2>1, SpacedTake
<1>4. CASE ~ HostRequest /\ ~ HostResponse /\ \A w \in Workers : ~ Take(w)
  <2>1. /\ queue' = queue /\ (host' = "response" <=> host = "response")
        /\ waiting' \subseteq waiting
    BY <1>4, QueueFrame
  <2> QED
    BY <1>0, <2>1
<1>5. CASE ~ up
  <2>1. UNCHANGED <<queue, host, waiting>>
    BY <1>5, DownFrame
  <2> QED
    BY <1>0, <2>1
<1> QED
  BY <1>1, <1>2, <1>3, <1>4, <1>5

LEMMA SpacedStep ==
    ASSUME ClientsSpaced, PathsInv, QueueInv, SessionInv, [Next]_vars
    PROVE  SpacedInv'
<1>0. TypeOK /\ PairInv /\ SpacedInv /\ NoLostWakeup
  BY DEF PathsInv, QueueInv
<1>1. up' => up
  BY <1>0, DownFrame
<1>2. \A w \in Workers : Len(taken'[w]) # 1
  <2>1. \A w \in Workers : Len(taken[w]) # 1
    BY <1>0 DEF SpacedInv
  <2>2. CASE ~ up
    BY <1>0, <2>1, <2>2, DownFrame
  <2>3. ASSUME up, NEW w \in Workers, Take(w)
        PROVE  \A v \in Workers : Len(taken'[v]) # 1
    BY <1>0, <2>1, <2>3, TakeFrame, SpacedTake
  <2>4. CASE HostRequest \/ HostResponse
    BY <2>1, <2>4 DEF HostRequest, HostResponse
  <2>5. CASE ~ HostRequest /\ ~ HostResponse /\ \A w \in Workers : ~ Take(w)
    <3>1. Len(<<>>) = 0
      OBVIOUS
    <3> QED
      BY <1>0, <2>1, <2>5, <3>1, QueueFrame
  <2> QED
    BY <2>2, <2>3, <2>4, <2>5
<1>3. up' => (~ HostIdle => /\ WorkersSettled
                            /\ serverPipe # <<>> => Len(serverPipe) = 1 /\ host = "read")'
  BY <1>0, <1>1, SettledStep
<1>4. (waiting # {} /\ queue # <<>> => Len(queue) = (IF host = "response" THEN 1 ELSE 2))'
  BY <1>0, AloneStep
<1>5. \A c \in Clients : up' /\ cpc'[c] = "dead" => ReqPath(c) \notin fifos'
  BY <1>0, <1>1, SpacedDead
<1> QED
  BY <1>2, <1>3, <1>4, <1>5 DEF SpacedInv

LEMMA WakeupStep ==
    ASSUME ClientsSpaced, PathsInv, QueueInv, [Next]_vars
    PROVE  NoLostWakeup'
<1>0. TypeOK /\ PairInv /\ SpacedInv /\ NoLostWakeup /\ queue \in Seq(Paths)
  BY DEF PathsInv, QueueInv, TypeOK
<1>1. CASE ~ up
  <2>1. UNCHANGED <<queue, host, waiting, wpc>>
    BY <1>0, <1>1, DownFrame
  <2> QED
    BY <1>0, <2>1 DEF NoLostWakeup
<1>2. CASE HostRequest \/ HostResponse
  BY <1>2 DEF HostRequest, HostResponse, NoLostWakeup
<1>3. CASE Host /\ HostSignal
  <2>1. \A w \in waiting : w \in Workers /\ wpc'[w] = "take"
    BY <1>0, <1>3, OtherFrame DEF TypeOK, sessionVars
  <2> QED
    BY <1>3, <2>1 DEF HostSignal, NoLostWakeup
<1>4. ASSUME up, NEW w \in Workers, Take(w)
      PROVE  NoLostWakeup'
  <2>1. (waiting # {} /\ queue # <<>> => Len(queue) = (IF host = "response" THEN 1 ELSE 2))'
    BY <1>0, AloneStep
  <2>2. /\ host' = "read"
        /\ \/ queue' = <<>>
           \/ waiting' = waiting /\ queue # <<>> /\ Len(queue') = Len(queue) - 2
    BY <1>0, <1>4, SpacedTake, TakeFrame DEF HostIdle
  <2>3. waiting # {} /\ queue # <<>> => Len(queue) = 2
    BY <1>0, <1>4, SpacedTake DEF HostIdle, SpacedInv
  <2>4. Len(<<>>) = 0
    OBVIOUS
  <2>5. ~ (queue' # <<>> /\ waiting' # {})
    <3> SUFFICES ASSUME queue' # <<>>, waiting' # {} PROVE FALSE
      OBVIOUS
    <3>1. Len(queue') = 2
      BY <2>1, <2>2
    <3>2. Len(queue') = 2 - 2
      BY <2>2, <2>3
    <3> QED
      BY <3>1, <3>2
  <2> QED
    BY <2>5 DEF NoLostWakeup
<1>5. ASSUME NEW w \in Workers, WorkerRest(w)
      PROVE  NoLostWakeup'
  <2>1. /\ UNCHANGED <<queue, host, waiting>> /\ wpc[w] # "take"
        /\ \A v \in Workers \ {w} : wpc'[v] = wpc[v]
    BY <1>0, <1>5, WorkerFrame
  <2> QED
    BY <1>0, <2>1 DEF NoLostWakeup
<1>6. ASSUME NEW c \in Clients, Setup(c) \/ SetupWithoutPipes(c) \/ Client(c) \/ Crash(c)
      PROVE  NoLostWakeup'
  <2>1. UNCHANGED <<queue, host, waiting, wpc>>
    BY <1>0, <1>6, ClientFrame
  <2> QED
    BY <1>0, <2>1 DEF NoLostWakeup
<1>7. CASE UNCHANGED vars
  BY <1>0, <1>7 DEF NoLostWakeup, vars, queueVars, sessionVars
<1>8. \A w \in Workers : ~ SpuriousWakeUp(w)
  BY DEF SpuriousWakeUp, ClientsSpaced
<1> QED
  BY <1>1, <1>2, <1>3, <1>4, <1>5, <1>6, <1>7, <1>8
     DEF Next, Quiet, Host, Worker, WorkerRest

LEMMA AllInit == Init => AllInv
<1> SUFFICES ASSUME Init PROVE AllInv
  OBVIOUS
<1>1. Len(<<>>) = 0
  OBVIOUS
<1>2. queue = <<>> /\ \A w \in Workers : taken[w] = <<>>
  BY DEF Init, QueueInit
<1>3. NoLostWakeup /\ OneInv
  BY <1>2 DEF NoLostWakeup, OneInv
<1>4. SpacedInv
  BY <1>1, <1>2 DEF Init, QueueInit, SpacedInv, HostIdle
<1> QED
  BY <1>3, <1>4, PairsInit, PathsInit, SessionInit DEF AllInv, QueueInv

LEMMA AllStep == Regime /\ AllInv /\ [Next]_vars => AllInv'
<1> SUFFICES ASSUME Regime, AllInv, [Next]_vars PROVE AllInv'
  OBVIOUS
<1> USE DEF AllInv
<1>1. PathsInv'
  BY PathsStep
<1>2. PairInv' /\ ClientsPipes' /\ ClientsPipes
  BY RegimeTakes, PairStep DEF QueueInv, PairInv
<1>3. SessionInv'
  BY <1>1, <1>2, SessionStep
<1>4. /\ OneWorkerOnly => OneInv'
      /\ ClientsSpaced => SpacedInv'
  BY OneStep, SpacedStep
<1>5. NoLostWakeup'
  <2>1. OneInv' => NoLostWakeup'
    BY DEF OneInv, NoLostWakeup
  <2> QED
    BY <1>4, <2>1, WakeupStep DEF Regime
<1> QED
  BY <1>1, <1>2, <1>3, <1>4, <1>5, RegimeTakes, ParityStep
     DEF QueueInv, OneWorkerOnly, ClientsSpaced

\* The whole invariant of clients, pipes, queue and wakeups, with one worker or
\* with clients that come and go one by one.
THEOREM AllInvariant == (OneWorkerOnly \/ ClientsSpaced) /\ Spec => []AllInv
<1> SUFFICES ASSUME OneWorkerOnly \/ ClientsSpaced PROVE Spec => []AllInv
  OBVIOUS
<1>1. Regime
  BY DEF Regime
<1>2. AllInv /\ [Next]_vars => AllInv'
  BY <1>1, AllStep
<1> QED
  BY <1>2, AllInit, PTL DEF Spec

\* With one worker, or with clients that come and go one by one, no worker takes
\* paths while another one has only the first of two.
THEOREM TakesKept == (OneWorkerOnly \/ ClientsSpaced) /\ Spec => [][TakesAlone]_vars
<1> SUFFICES ASSUME OneWorkerOnly \/ ClientsSpaced PROVE Spec => [][TakesAlone]_vars
  OBVIOUS
<1>1. AllInv /\ [Next]_vars => [TakesAlone]_vars
  BY RegimeTakes DEF Regime, AllInv
<1>2. (OneWorkerOnly \/ ClientsSpaced) /\ Spec => []AllInv
  BY AllInvariant
<1> QED
  BY <1>1, <1>2, PTL DEF Spec

\* Then a session thread reads and writes the pipes of one client.
THEOREM PipesKept == (OneWorkerOnly \/ ClientsSpaced) /\ Spec => []ClientsPipes
  BY TakesKept, PipesPaired, PTL

\* Then no session thread sleeps beside a path that nobody will take.
THEOREM WakeupKept == (OneWorkerOnly \/ ClientsSpaced) /\ Spec => []NoLostWakeup
<1>1. AllInv => NoLostWakeup
  BY DEF AllInv, QueueInv
<1> QED
  BY <1>1, AllInvariant, PTL

\* Then the answer that a client goes on with is the one to its own last request.
THEOREM AnswersKept == (OneWorkerOnly \/ ClientsSpaced) /\ Spec => []AnswersMatch
<1>1. AllInv => AnswersMatch
  BY SessionAnswers DEF AllInv
<1> QED
  BY <1>1, AllInvariant, PTL

\* Then no operation is begun but for the request that a client waits for, or for
\* a killed client.
THEOREM OperationsKept ==
    (OneWorkerOnly \/ ClientsSpaced) /\ Spec => OperationsAreAsked
  BY PipesKept, PairedOperations, PTL

\* Then the server ends only when a client was killed or came without its pipes.
THEOREM DeathsKept == (OneWorkerOnly \/ ClientsSpaced) /\ Spec => []DiesOnlyOfClient
<1>1. AllInv => DiesOnlyOfClient
  BY DEF AllInv, SessionInv
<1> QED
  BY <1>1, AllInvariant, PTL


------------------------------------------------------------------------------
(***************************************************************************)
(* The refinement of SessionService.                                       *)
(***************************************************************************)
Halves(m, k) == m = 2 * k \/ m = 2 * k + 1

SecondsOf(q, f, n, k) ==
    /\ Halves(n + 2 - f, k)
    /\ Seconds(q) \in Seq(Clients) /\ Len(Seconds(q)) = k
    /\ \A i \in 1 .. k : f + 2 * (i - 1) \in 1 .. n
    /\ \A i \in 1 .. k : Seconds(q)[i] = q[f + 2 * (i - 1)][1]

LEMMA SecondsAre ==
    ASSUME NEW q \in Seq(Paths), NEW f \in 1 .. 2, NEW n \in Nat,
           f = FirstResp(q), n = Len(q)
    PROVE  \E k \in Nat : SecondsOf(q, f, n, k)
<1>3. PICK k \in Nat : k = (n + 2 - f) \div 2 /\ Halves(n + 2 - f, k)
  <2>1. PICK m \in Nat : m = n + 2 - f
    OBVIOUS
  <2>2. m \div 2 \in Nat /\ (m = 2 * (m \div 2) \/ m = 2 * (m \div 2) + 1)
    OBVIOUS
  <2> QED
    BY <2>1, <2>2 DEF Halves
<1>4. \A i \in 1 .. k : f + 2 * (i - 1) \in 1 .. n
  BY <1>3 DEF Halves
<1>5. \A i \in 1 .. n : q[i] \in Paths
  OBVIOUS
<1>6. Seconds(q) = [i \in 1 .. k |-> q[f + 2 * (i - 1)][1]]
  BY <1>3 DEF Seconds
<1>7. \A i \in 1 .. k : q[f + 2 * (i - 1)][1] \in Clients
  BY <1>4, <1>5, PathFacts
<1>8. Seconds(q) \in [1 .. k -> Clients]
  BY <1>6, <1>7
<1>9. Seconds(q) \in Seq(Clients) /\ Len(Seconds(q)) = k
  BY <1>8
<1>10. \A i \in 1 .. k : Seconds(q)[i] = q[f + 2 * (i - 1)][1]
  BY <1>6
<1> QED
  BY <1>3, <1>4, <1>9, <1>10 DEF SecondsOf

LEMMA FirstRange == \A q \in Seq(Paths) : FirstResp(q) \in 1 .. 2 /\ Len(q) \in Nat
  BY DEF FirstResp

\* The first path of a pair is enqueued: the backlog does not change.
LEMMA SecondsFirst ==
    ASSUME NEW q \in Seq(Paths), NEW p \in Paths, p[2] = "req",
           \E d \in Nat : Len(q) + FirstResp(q) = 2 * d
    PROVE  Seconds(Append(q, p)) = Seconds(q)
<1> PICK f \in 1 .. 2, n \in Nat : f = FirstResp(q) /\ n = Len(q)
  BY FirstRange
<1>1. PICK k \in Nat : SecondsOf(q, f, n, k)
  BY SecondsAre
<1> PICK r : r = Append(q, p)
  OBVIOUS
<1>2. r \in Seq(Paths) /\ Len(r) = n + 1 /\ \A i \in 1 .. n : r[i] = q[i]
  OBVIOUS
<1>3. FirstResp(r) = f
  <2>1. CASE q = <<>>
    <3>1. Head(r) = p
      BY <2>1
    <3> QED
      BY <2>1, <3>1 DEF FirstResp
  <2>2. CASE q # <<>>
    <3>1. Head(r) = Head(q) /\ r # <<>>
      BY <2>2
    <3> QED
      BY <2>2, <3>1 DEF FirstResp
  <2> QED
    BY <2>1, <2>2
<1>4. PICK j \in Nat : SecondsOf(r, f, n + 1, j)
  <2>1. n + 1 \in Nat
    OBVIOUS
  <2> QED
    BY <1>2, <1>3, <2>1, SecondsAre
<1>5. j = k
  <2>1. PICK d \in Nat : n + f = 2 * d
    OBVIOUS
  <2>2. Halves(n + 2 - f, k) /\ Halves(n + 1 + 2 - f, j)
    BY <1>1, <1>4 DEF SecondsOf
  <2> QED
    BY <2>1, <2>2, SMTT(30) DEF Halves
<1>6. ASSUME NEW i \in 1 .. k
      PROVE  Seconds(r)[i] = Seconds(q)[i]
  <2>1. Seconds(q)[i] = q[f + 2 * (i - 1)][1] /\ f + 2 * (i - 1) \in 1 .. n
    BY <1>1 DEF SecondsOf
  <2>2. Seconds(r)[i] = r[f + 2 * (i - 1)][1]
    BY <1>4, <1>5 DEF SecondsOf
  <2> QED
    BY <1>2, <2>1, <2>2
<1>7. Seconds(r) = Seconds(q)
  <2>1. /\ Seconds(r) \in Seq(Clients) /\ Seconds(q) \in Seq(Clients)
        /\ Len(Seconds(r)) = k /\ Len(Seconds(q)) = k
    BY <1>1, <1>4, <1>5 DEF SecondsOf
  <2> QED
    BY <1>6, <2>1, SeqEqual
<1> QED
  BY <1>7

\* The second path of a pair is enqueued: its client joins the backlog.
LEMMA SecondsSecond ==
    ASSUME NEW q \in Seq(Paths), NEW p \in Paths, p[2] = "resp",
           q = <<>> \/ \E d \in Nat : Len(q) + FirstResp(q) = 2 * d + 1
    PROVE  Seconds(Append(q, p)) = Append(Seconds(q), p[1])
<1>a. PICK f \in 1 .. 2, n \in Nat : f = FirstResp(q) /\ n = Len(q)
  BY FirstRange
<1>1. PICK k \in Nat : SecondsOf(q, f, n, k)
  BY <1>a, SecondsAre
<1>b. PICK r : r = Append(q, p)
  OBVIOUS
<1>2. r \in Seq(Paths) /\ Len(r) = n + 1 /\ r[n + 1] = p /\ \A i \in 1 .. n : r[i] = q[i]
  BY <1>a, <1>b
<1>3. PICK g \in 1 .. 2 : g = FirstResp(r)
  BY <1>2, FirstRange
<1>4. PICK j \in Nat : SecondsOf(r, g, n + 1, j)
  <2>1. n + 1 \in Nat
    OBVIOUS
  <2> QED
    BY <1>2, <1>3, <2>1, SecondsAre
<1>5. j = k + 1 /\ g + 2 * (j - 1) = n + 1 /\ (k = 0 \/ g = f)
  <2>1. CASE q = <<>>
    <3>1. Head(r) = p /\ r # <<>> /\ n = 0
      BY <1>a, <1>b, <2>1
    <3>2. f = 2 /\ g = 1
      BY <1>a, <1>3, <2>1, <3>1 DEF FirstResp
    <3>3. Halves(0, k) /\ Halves(2, j)
      BY <1>1, <1>4, <3>1, <3>2 DEF SecondsOf
    <3>4. k = 0 /\ j = 1
      BY <3>3 DEF Halves
    <3> QED
      BY <3>1, <3>2, <3>4
  <2>2. CASE q # <<>>
    <3>1. Head(r) = Head(q) /\ r # <<>>
      BY <1>b, <2>2
    <3>2. g = f
      BY <1>a, <1>3, <2>2, <3>1 DEF FirstResp
    <3>3. Halves(n + 2 - f, k) /\ Halves(n + 1 + 2 - f, j)
      BY <1>1, <1>4, <3>2 DEF SecondsOf
    <3>4. PICK d \in Nat : n + f = 2 * d + 1
      BY <1>a, <2>2
    <3>5. n + 2 - f = 2 * (d + 1 - f) + 1
      BY <3>4
    <3>6. k = d + 1 - f /\ j = d + 2 - f
      BY <3>3, <3>5 DEF Halves
    <3> QED
      BY <3>2, <3>4, <3>6
  <2> QED
    BY <2>1, <2>2
<1>6. ASSUME NEW i \in 1 .. k
      PROVE  Seconds(r)[i] = Seconds(q)[i]
  <2>1. Seconds(q)[i] = q[f + 2 * (i - 1)][1] /\ f + 2 * (i - 1) \in 1 .. n
    BY <1>1 DEF SecondsOf
  <2>2. i \in 1 .. j /\ g = f
    BY <1>5
  <2>3. Seconds(r)[i] = r[f + 2 * (i - 1)][1]
    BY <1>4, <2>2 DEF SecondsOf
  <2> QED
    BY <1>2, <2>1, <2>3
<1>7. Seconds(r)[k + 1] = p[1]
  <2>1. j \in 1 .. j
    BY <1>5
  <2>2. Seconds(r)[j] = r[g + 2 * (j - 1)][1]
    BY <1>4, <2>1 DEF SecondsOf
  <2> QED
    BY <1>2, <1>5, <2>2
<1>8. p[1] \in Clients /\ Seconds(q) \in Seq(Clients) /\ Len(Seconds(q)) = k
  BY <1>1, PathFacts DEF SecondsOf
<1> PICK t : t = Append(Seconds(q), p[1])
  OBVIOUS
<1>9. /\ t \in Seq(Clients) /\ Len(t) = k + 1 /\ t[k + 1] = p[1]
      /\ \A i \in 1 .. k : t[i] = Seconds(q)[i]
  BY <1>8
<1>10. \A i \in 1 .. k + 1 : Seconds(r)[i] = t[i]
  <2>1. \A i \in 1 .. k + 1 : i \in 1 .. k \/ i = k + 1
    OBVIOUS
  <2> QED
    BY <1>6, <1>7, <1>9, <2>1
<1>11. Seconds(r) = t
  <2>1. Seconds(r) \in Seq(Clients) /\ Len(Seconds(r)) = k + 1
    BY <1>4, <1>5 DEF SecondsOf
  <2> QED
    BY <1>9, <1>10, <2>1, SeqEqual
<1> QED
  BY <1>b, <1>11

\* A worker takes the second path of a pair, alone or with the first: the head of
\* the backlog leaves it.
LEMMA SecondsTake ==
    ASSUME NEW q \in Seq(Paths), NEW r \in Seq(Paths), NEW k \in 1 .. 2,
           k <= Len(q), Len(r) = Len(q) - k,
           \A i \in 1 .. Len(q) - k : r[i] = q[i + k],
           k = FirstResp(q), FirstResp(r) = 2
    PROVE  /\ Seconds(q) # <<>> /\ Head(Seconds(q)) = q[k][1]
           /\ Seconds(r) = Tail(Seconds(q))
<1> PICK n \in Nat : n = Len(q)
  BY FirstRange
<1> PICK l \in Nat : l = n - k
  OBVIOUS
<1>1. PICK m \in Nat : SecondsOf(q, k, n, m)
  BY SecondsAre
<1>2. l = Len(r) /\ 2 \in 1 .. 2
  OBVIOUS
<1>3. PICK j \in Nat : SecondsOf(r, 2, l, j)
  BY <1>2, SecondsAre
<1>4. m = j + 1
  <2>1. n + 2 - k = 2 * m \/ n + 2 - k = 2 * m + 1
    BY <1>1 DEF SecondsOf, Halves
  <2>2. l + 2 - 2 = 2 * j \/ l + 2 - 2 = 2 * j + 1
    BY <1>3 DEF SecondsOf, Halves
  <2>3. k \in 1 .. 2 /\ n \in Nat /\ m \in Nat /\ j \in Nat
    OBVIOUS
  <2>4. n - k = 2 * j \/ n - k = 2 * j + 1
    BY <2>2, <2>3
  <2>5. n - k = 2 * (m - 1) \/ n - k = 2 * (m - 1) + 1
    BY <2>1, <2>3
  <2> QED
    BY <2>3, <2>4, <2>5
<1>5. /\ Seconds(q) \in Seq(Clients) /\ Len(Seconds(q)) = m
      /\ Seconds(r) \in Seq(Clients) /\ Len(Seconds(r)) = j
  BY <1>1, <1>3 DEF SecondsOf
<1>6. Seconds(q) # <<>> /\ Head(Seconds(q)) = Seconds(q)[1]
  BY <1>4, <1>5
<1>7. Seconds(q)[1] = q[k][1]
  <2>1. 1 \in 1 .. m /\ k + 2 * (1 - 1) = k
    BY <1>4
  <2>2. Seconds(q)[1] = q[k + 2 * (1 - 1)][1]
    BY <1>1, <2>1 DEF SecondsOf
  <2> QED
    BY <2>1, <2>2
<1> PICK t : t = Tail(Seconds(q))
  OBVIOUS
<1>8. t \in Seq(Clients) /\ Len(t) = j /\ \A i \in 1 .. j : t[i] = Seconds(q)[i + 1]
  BY <1>4, <1>5, <1>6
<1>9. ASSUME NEW i \in 1 .. j
      PROVE  Seconds(r)[i] = t[i]
  <2>1. i + 1 \in 1 .. m /\ k + 2 * ((i + 1) - 1) = (2 + 2 * (i - 1)) + k
    BY <1>4
  <2>2. 2 + 2 * (i - 1) \in 1 .. l /\ Seconds(r)[i] = r[2 + 2 * (i - 1)][1]
    BY <1>3 DEF SecondsOf
  <2>3. r[2 + 2 * (i - 1)] = q[(2 + 2 * (i - 1)) + k]
    BY <2>2
  <2>4. Seconds(q)[i + 1] = q[k + 2 * ((i + 1) - 1)][1]
    BY <1>1, <2>1 DEF SecondsOf
  <2> QED
    BY <1>8, <2>1, <2>2, <2>3, <2>4
<1>10. Seconds(r) = t
  BY <1>5, <1>8, <1>9, SeqEqual
<1> QED
  BY <1>6, <1>7, <1>10

\* The first path of the queue belongs to a worker that has the other one, or a
\* pair begins with it; so one knows which paths of the queue come second.
LEMMA Aligned ==
    ASSUME TypeOK, PairInv, Parity
    PROVE  /\ host # "response" =>
                 \E d \in Nat : Len(queue) + FirstResp(queue) = 2 * d
           /\ host = "response" =>
                 queue = <<>> \/ \E d \in Nat : Len(queue) + FirstResp(queue) = 2 * d + 1
           /\ queue # <<>> => (FirstResp(queue) = 1 <=> HalfTaken)
<1>1. PICK n \in Nat : n = Len(queue)
  BY DEF TypeOK
<1>2. CASE queue = <<>>
  <2>1. FirstResp(queue) = 2 /\ Len(queue) = 0 /\ 0 + 2 = 2 * 1 /\ 1 \in Nat
    BY <1>2 DEF FirstResp
  <2> QED
    BY <1>2, <2>1
<1>3. CASE queue # <<>>
  <2>1. Head(queue) = queue[1]
    BY <1>3 DEF TypeOK
  <2>2. PICK c \in Clients :
              \/ queue[1] = ReqPath(c) /\ ~ HalfTaken
              \/ queue[1] = RespPath(c) /\ \E w \in Workers : HalfOf(w, c)
    BY <1>3, FirstPath
  <2>3. (\E w \in Workers : HalfOf(w, c)) => HalfTaken
    BY HalfFacts DEF HalfTaken
  <2>4. FirstResp(queue) = (IF HalfTaken THEN 1 ELSE 2)
    BY <1>3, <2>1, <2>2, <2>3, PathFacts DEF FirstResp
  <2>5. n % 2 = IF host = "response" THEN IF HalfTaken THEN 0 ELSE 1
                                     ELSE IF HalfTaken THEN 1 ELSE 0
    BY <1>1 DEF Parity
  <2>6. PICK d \in Nat : n = 2 * d + (n % 2)
    <3>1. n \div 2 \in Nat /\ n = 2 * (n \div 2) + (n % 2)
      OBVIOUS
    <3> QED
      BY <3>1
  <2>7. PICK f \in 1 .. 2 : f = FirstResp(queue)
    BY <2>4
  <2>8. CASE host = "response"
    <3>1. CASE HalfTaken
      BY <1>1, <2>4, <2>5, <2>6, <2>8, <3>1
    <3>2. CASE ~ HalfTaken
      <4>1. n = 2 * d + 1 /\ f = 2
        BY <2>4, <2>5, <2>6, <2>7, <2>8, <3>2
      <4>2. PICK e \in Nat : n + f = 2 * e + 1
        <5>1. d + 1 \in Nat /\ n + f = 2 * (d + 1) + 1
          BY <4>1
        <5> QED
          BY <5>1
      <4>3. Len(queue) + FirstResp(queue) = 2 * e + 1
        BY <1>1, <2>7, <4>2
      <4> QED
        BY <1>3, <2>4, <2>8, <3>2, <4>3
    <3> QED
      BY <3>1, <3>2
  <2>9. CASE host # "response"
    <3>1. n + f = 2 * d + 2
      <4>1. CASE HalfTaken
        BY <2>4, <2>5, <2>6, <2>7, <2>9, <4>1
      <4>2. CASE ~ HalfTaken
        BY <2>4, <2>5, <2>6, <2>7, <2>9, <4>2
      <4> QED
        BY <4>1, <4>2
    <3>2. PICK e \in Nat : n + f = 2 * e
      <4>1. d + 1 \in Nat /\ n + f = 2 * (d + 1)
        BY <3>1
      <4> QED
        BY <4>1
    <3>3. Len(queue) + FirstResp(queue) = 2 * e
      BY <1>1, <2>7, <3>2
    <3> QED
      BY <2>4, <2>9, <3>3
  <2> QED
    BY <2>8, <2>9
<1> QED
  BY <1>2, <1>3

LEMMA BacklogType ==
    ASSUME TypeOK
    PROVE  /\ queue \in Seq(Paths) /\ Seconds(queue) \in Seq(Clients)
           /\ Reading \in Seq(Clients) /\ serverPipe \in Seq(Clients)
<1>1. queue \in Seq(Paths) /\ serverPipe \in Seq(Clients)
  BY DEF TypeOK
<1>2. Seconds(queue) \in Seq(Clients)
  BY <1>1, FirstRange, SecondsAre DEF SecondsOf
<1>3. Reading \in Seq(Clients)
  BY DEF TypeOK, Reading
<1> QED
  BY <1>1, <1>2, <1>3

\* What a sequence in three parts is when something moves on in it.
LEMMA PartsGrow ==
    ASSUME NEW S, NEW s \in Seq(S), NEW t \in Seq(S), NEW u \in Seq(S), NEW e \in S
    PROVE  (s \o t) \o Append(u, e) = Append((s \o t) \o u, e)
  OBVIOUS

LEMMA PartsMove ==
    ASSUME NEW S, NEW s \in Seq(S), NEW u \in Seq(S), u # <<>>
    PROVE  (s \o <<Head(u)>>) \o Tail(u) = (s \o <<>>) \o u
<1>1. Head(u) \in S /\ <<Head(u)>> \in Seq(S) /\ Tail(u) \in Seq(S)
  OBVIOUS
<1>2. <<Head(u)>> \o Tail(u) = u
  OBVIOUS
<1>3. (s \o <<Head(u)>>) \o Tail(u) = s \o (<<Head(u)>> \o Tail(u))
  BY <1>1, ConcatAssociative
<1>4. s \o <<>> = s
  OBVIOUS
<1> QED
  BY <1>2, <1>3, <1>4

LEMMA PartsShrink ==
    \A s, t, u \in Seq(Clients) : s # <<>> =>
        /\ (Tail(s) \o t) \o u = Tail((s \o t) \o u)
        /\ Head((s \o t) \o u) = Head(s)
        /\ (s \o t) \o u # <<>>
<1> SUFFICES ASSUME NEW s \in Seq(Clients), NEW t \in Seq(Clients),
                    NEW u \in Seq(Clients), s # <<>>
             PROVE  /\ (Tail(s) \o t) \o u = Tail((s \o t) \o u)
                    /\ Head((s \o t) \o u) = Head(s)
                    /\ (s \o t) \o u # <<>>
  OBVIOUS
<1>1. s \o t \in Seq(Clients) /\ s \o t # <<>> /\ Head(s \o t) = Head(s)
      /\ Tail(s \o t) = Tail(s) \o t
  OBVIOUS
<1>2. \A v \in Seq(Clients) : v # <<>> =>
          /\ v \o u # <<>> /\ Head(v \o u) = Head(v)
          /\ Tail(v \o u) = Tail(v) \o u
  OBVIOUS
<1> QED
  BY <1>1, <1>2

LEMMA BacklogHas ==
    ASSUME TypeOK, NEW i \in DOMAIN Backlog
    PROVE  \/ InPipe(Backlog[i])
           \/ WithHost(RespPath(Backlog[i]))
           \/ \E p \in Paths : InQueue(p) /\ p[1] = Backlog[i]
<1>1. PICK n \in Nat, f \in 1 .. 2 : n = Len(queue) /\ f = FirstResp(queue)
  BY BacklogType, FirstRange
<1>2. PICK k \in Nat : SecondsOf(queue, f, n, k)
  BY <1>1, BacklogType, SecondsAre
<1>3. PICK s \in Seq(Clients), t \in Seq(Clients), u \in Seq(Clients) :
          s = Seconds(queue) /\ t = Reading /\ u = serverPipe
  BY BacklogType
<1>4. Backlog = (s \o t) \o u
  BY <1>3 DEF Backlog
<1>5. \/ \E j \in DOMAIN s : Backlog[i] = s[j]
      \/ \E j \in DOMAIN t : Backlog[i] = t[j]
      \/ \E j \in DOMAIN u : Backlog[i] = u[j]
  <2>1. \A x, y \in Seq(Clients) : \A j \in DOMAIN (x \o y) :
            \/ \E l \in DOMAIN x : (x \o y)[j] = x[l]
            \/ \E l \in DOMAIN y : (x \o y)[j] = y[l]
    <3> SUFFICES ASSUME NEW x \in Seq(Clients), NEW y \in Seq(Clients),
                        NEW j \in DOMAIN (x \o y)
                 PROVE  \/ \E l \in DOMAIN x : (x \o y)[j] = x[l]
                        \/ \E l \in DOMAIN y : (x \o y)[j] = y[l]
      OBVIOUS
    <3>1. PICK a \in Nat, b \in Nat : a = Len(x) /\ b = Len(y)
      OBVIOUS
    <3>2. j \in 1 .. a + b /\ (x \o y)[j] = IF j <= a THEN x[j] ELSE y[j - a]
      BY <3>1, ConcatProperties
    <3>3. DOMAIN x = 1 .. a /\ DOMAIN y = 1 .. b
      BY <3>1
    <3>4. j <= a => j \in 1 .. a
      BY <3>2
    <3>5. ~ j <= a => j - a \in 1 .. b
      BY <3>2
    <3> QED
      BY <3>2, <3>3, <3>4, <3>5
  <2>2. s \o t \in Seq(Clients) /\ i \in DOMAIN ((s \o t) \o u)
    BY <1>4
  <2>3. \/ \E l \in DOMAIN (s \o t) : Backlog[i] = (s \o t)[l]
        \/ \E l \in DOMAIN u : Backlog[i] = u[l]
    BY <1>4, <2>1, <2>2, Zenon
  <2>4. \A l \in DOMAIN (s \o t) :
            \/ \E j \in DOMAIN s : (s \o t)[l] = s[j]
            \/ \E j \in DOMAIN t : (s \o t)[l] = t[j]
    BY <2>1, Zenon
  <2> QED
    BY <2>3, <2>4
<1>6. ASSUME NEW j \in DOMAIN s, Backlog[i] = s[j]
      PROVE  \E p \in Paths : InQueue(p) /\ p[1] = Backlog[i]
  <2>1. j \in 1 .. k
    BY <1>2, <1>3 DEF SecondsOf
  <2>2. PICK l \in 1 .. n : s[j] = queue[l][1]
    BY <1>2, <1>3, <2>1 DEF SecondsOf
  <2>3. l \in DOMAIN queue /\ queue[l] \in Paths
    BY <1>1, BacklogType
  <2> QED
    BY <1>6, <2>2, <2>3 DEF InQueue
<1>7. ASSUME NEW j \in DOMAIN t, Backlog[i] = t[j]
      PROVE  WithHost(RespPath(Backlog[i]))
  <2>1. host = "response"
    BY <1>3, <1>7 DEF Reading
  <2>2. t = <<client>>
    BY <1>3, <2>1 DEF Reading
  <2>3. Backlog[i] = client
    BY <1>7, <2>2
  <2> QED
    BY <2>1, <2>3 DEF WithHost
<1>8. ASSUME NEW j \in DOMAIN u, Backlog[i] = u[j]
      PROVE  InPipe(Backlog[i])
  BY <1>3, <1>8 DEF InPipe
<1> QED
  BY <1>5, <1>6, <1>7, <1>8


\* The host's two critical sections do not change the order.
LEMMA HostBacklog ==
    ASSUME TypeOK, PairInv, Parity, HostRequest \/ HostResponse
    PROVE  Backlog' = Backlog
<1>1. /\ queue \in Seq(Paths) /\ Seconds(queue) \in Seq(Clients)
      /\ Reading \in Seq(Clients) /\ serverPipe \in Seq(Clients)
  BY BacklogType
<1>2. CASE HostRequest
  <2>1. PICK c : c = Head(serverPipe)
    OBVIOUS
  <2>2. c \in Clients /\ serverPipe # <<>> /\ host = "read"
    BY <1>1, <1>2, <2>1 DEF HostRequest
  <2>3. ReqPath(c) \in Paths /\ ReqPath(c)[2] = "req"
    BY <2>2, PathFacts
  <2>4. \E d \in Nat : Len(queue) + FirstResp(queue) = 2 * d
    BY <2>2, Aligned
  <2>5. Seconds(Append(queue, ReqPath(c))) = Seconds(queue)
    BY <1>1, <2>3, <2>4, SecondsFirst
  <2>6. Backlog = (Seconds(queue) \o <<>>) \o serverPipe
    BY <2>2 DEF Backlog, Reading
  <2>7. Backlog' = (Seconds(queue) \o <<c>>) \o Tail(serverPipe)
    <3>1. /\ host' = "response" /\ client' = c /\ serverPipe' = Tail(serverPipe)
          /\ queue' = Append(queue, ReqPath(c))
      BY <1>2, <2>1 DEF HostRequest, Enqueue
    <3>2. Backlog' = (Seconds(queue') \o Reading') \o serverPipe'
      BY DEF Backlog, Seconds, FirstResp
    <3>3. Reading' = <<c>>
      BY <3>1 DEF Reading
    <3> QED
      BY <2>5, <3>1, <3>2, <3>3
  <2>8. (Seconds(queue) \o <<c>>) \o Tail(serverPipe) = (Seconds(queue) \o <<>>) \o serverPipe
    BY <1>1, <2>1, <2>2, PartsMove
  <2> QED
    BY <2>6, <2>7, <2>8
<1>3. CASE HostResponse
  <2>1. client \in Clients /\ host = "response"
    BY <1>3 DEF HostResponse, TypeOK
  <2>2. RespPath(client) \in Paths /\ RespPath(client)[2] = "resp" /\ RespPath(client)[1] = client
    BY <2>1, PathFacts
  <2>3. queue = <<>> \/ \E d \in Nat : Len(queue) + FirstResp(queue) = 2 * d + 1
    BY <2>1, Aligned
  <2>4. Seconds(Append(queue, RespPath(client))) = Append(Seconds(queue), client)
    BY <1>1, <2>2, <2>3, SecondsSecond
  <2>5. Backlog = (Seconds(queue) \o <<client>>) \o serverPipe
    BY <2>1 DEF Backlog, Reading
  <2>6. Backlog' = (Append(Seconds(queue), client) \o <<>>) \o serverPipe
    <3>1. /\ host' = "signal" /\ serverPipe' = serverPipe
          /\ queue' = Append(queue, RespPath(client))
      BY <1>3 DEF HostResponse, Enqueue
    <3>2. Backlog' = (Seconds(queue') \o Reading') \o serverPipe'
      BY DEF Backlog, Seconds, FirstResp
    <3>3. Reading' = <<>>
      BY <3>1 DEF Reading
    <3> QED
      BY <2>4, <3>1, <3>2, <3>3
  <2>7. (Append(Seconds(queue), client) \o <<>>) \o serverPipe
            = (Seconds(queue) \o <<client>>) \o serverPipe
    <3>1. Append(Seconds(queue), client) \o <<>> = Seconds(queue) \o <<client>>
      BY <1>1, <2>1
    <3> QED
      BY <3>1
  <2> QED
    BY <2>5, <2>6, <2>7
<1> QED
  BY <1>2, <1>3

\* A client asks.
LEMMA ConnectAsks ==
    ASSUME PathsInv, NEW c \in Clients, Setup(c) \/ SetupWithoutPipes(c)
    PROVE  Service!Ask(c)
<1> USE DEF PathsInv
<1>1. /\ cpc[c] = "start" /\ serverPipe' = Append(serverPipe, c)
      /\ UNCHANGED <<host, client, queue, taken>>
  BY DEF Setup, SetupWithoutPipes, Connect, GoClient
<1>2. \A p \in Paths : p[1] = c => /\ ~ InPipe(c) /\ ~ WithHost(p) /\ ~ InQueue(p)
                                   /\ \A w \in Workers : ~ Holds(w, p)
  BY <1>1 DEF PlacesInv, PathInv
<1>3. RespPath(c) \in Paths /\ RespPath(c)[1] = c
  BY PathFacts
<1>4. \A i \in DOMAIN Backlog : Backlog[i] # c
  <2> SUFFICES ASSUME NEW i \in DOMAIN Backlog, Backlog[i] = c PROVE FALSE
    OBVIOUS
  <2> QED
    BY <1>2, <1>3, BacklogHas
<1>5. \A w \in Workers : Serving[w] # c
  <2> SUFFICES ASSUME NEW w \in Workers, Serving[w] = c PROVE FALSE
    OBVIOUS
  <2>1. Len(taken[w]) = 2
    BY SessionsAssumption DEF Serving
  <2>2. taken[w][1][1] = c
    BY <2>1 DEF Serving
  <2>3. 1 \in DOMAIN taken[w] /\ taken[w][1] \in Paths
    <3>1. taken[w] \in Seq(Paths)
      BY DEF TypeOK
    <3> QED
      BY <2>1, <3>1
  <2>4. Holds(w, taken[w][1])
    BY <2>3 DEF Holds
  <2> QED
    BY <1>2, <2>2, <2>3, <2>4
<1>6. Backlog' = Append(Backlog, c)
  <2>1. Backlog' = (Seconds(queue) \o Reading) \o Append(serverPipe, c)
    BY <1>1 DEF Backlog, Reading, Seconds, FirstResp
  <2> QED
    BY <2>1, BacklogType, PartsGrow, SMTT(30) DEF Backlog
<1>7. Serving' = Serving
  BY <1>1 DEF Serving
<1> QED
  BY <1>4, <1>5, <1>6, <1>7 DEF Service!Ask

\* A worker that takes paths begins a session when it has two.
LEMMA TakeBegins ==
    ASSUME PathsInv, PairInv, Parity, NEW w \in Workers, Take(w),
           \A v \in Workers \ {w} : Len(taken[v]) # 1
    PROVE  Service!Begin(w) \/ (Backlog' = Backlog /\ Serving' = Serving)
<1> USE DEF PathsInv
<1>1. /\ queue \in Seq(Paths) /\ Seconds(queue) \in Seq(Clients)
      /\ Reading \in Seq(Clients) /\ serverPipe \in Seq(Clients)
  BY BacklogType
<1>2. /\ UNCHANGED <<serverPipe, host, client>>
      /\ \A v \in Workers \ {w} : taken'[v] = taken[v]
  BY TakeFrame
<1>3. Backlog' = (Seconds(queue') \o Reading) \o serverPipe
  BY <1>2 DEF Backlog, Reading, Seconds, FirstResp
<1>4. CASE queue = <<>>
  BY <1>2, <1>4, TakeNothing DEF Backlog, Reading, Seconds, FirstResp, Serving
<1>5. CASE queue # <<>>
  <2>1. PICK c \in Clients, k \in 1 .. 2 :
              /\ queue' \in Seq(Paths) /\ k <= Len(queue) /\ Len(queue') = Len(queue) - k
              /\ \A i \in 1 .. Len(queue) - k : queue'[i] = queue[i + k]
              /\ \/ /\ k = 1 /\ Len(queue) = 1 /\ host = "response" /\ client = c
                    /\ taken[w] = <<>> /\ taken'[w] = <<ReqPath(c)>>
                 \/ /\ queue[k] = RespPath(c) /\ taken'[w] = Pair(c)
                    /\ \/ k = 2 /\ taken[w] = <<>>
                       \/ k = 1 /\ taken[w] = <<ReqPath(c)>>
    BY <1>5, TakePair
  <2>2. Len(<<>>) = 0 /\ Len(<<ReqPath(c)>>) = 1 /\ Len(Pair(c)) = 2
        /\ Pair(c)[1] = ReqPath(c) /\ ReqPath(c)[1] = c
    BY PairFacts, PathFacts
  <2>3. CASE k = 1 /\ Len(queue) = 1 /\ taken[w] = <<>> /\ taken'[w] = <<ReqPath(c)>>
    <3>1. queue' = <<>>
      <4>1. Len(queue') = 0
        BY <2>1, <2>3
      <4>2. \A s \in Seq(Paths) : Len(s) = 0 => s = <<>>
        OBVIOUS
      <4> QED
        BY <2>1, <4>1, <4>2
    <3>2. FirstResp(queue) = 2
      <4>1. ~ HalfTaken
        BY <2>2, <2>3, SMTT(30) DEF HalfTaken
      <4> QED
        BY <1>1, <1>5, <4>1, Aligned, FirstRange
    <3>3. Seconds(queue) = Seconds(queue')
      <4>1. \A q \in Seq(Paths) : FirstResp(q) = 2 /\ Len(q) \in 0 .. 1 => Seconds(q) = <<>>
        <5> SUFFICES ASSUME NEW q \in Seq(Paths), FirstResp(q) = 2, Len(q) \in 0 .. 1
                     PROVE  Seconds(q) = <<>>
          OBVIOUS
        <5>1. PICK n \in 0 .. 1 : n = Len(q)
          OBVIOUS
        <5>2. PICK l \in Nat : SecondsOf(q, 2, n, l)
          BY <5>1, SecondsAre
        <5>3. Seconds(q) \in Seq(Clients) /\ Len(Seconds(q)) = 0
          BY <5>2 DEF SecondsOf, Halves
        <5> QED
          BY <5>3
      <4>2. FirstResp(<<>>) = 2 /\ <<>> \in Seq(Paths) /\ Len(<<>>) = 0
        BY DEF FirstResp
      <4> QED
        BY <1>1, <2>3, <3>1, <3>2, <4>1, <4>2
    <3>4. Backlog' = Backlog
      BY <1>3, <3>3 DEF Backlog
    <3>5. Serving' = Serving
      <4>1. Len(taken[w]) # 2 /\ Len(taken'[w]) # 2
        BY <2>2, <2>3
      <4> QED
        BY <1>2, <4>1 DEF Serving
    <3> QED
      BY <3>4, <3>5
  <2>4. CASE /\ queue[k] = RespPath(c) /\ taken'[w] = Pair(c)
             /\ \/ k = 2 /\ taken[w] = <<>>
                \/ k = 1 /\ taken[w] = <<ReqPath(c)>>
    <3>1. k = FirstResp(queue)
      <4>1. HalfTaken <=> Len(taken[w]) = 1
        BY DEF HalfTaken
      <4>2. Len(taken[w]) = 1 <=> k = 1
        <5>1. CASE k = 2 /\ taken[w] = <<>>
          <6>1. Len(taken[w]) = 0
            BY <5>1
          <6> QED
            BY <5>1, <6>1
        <5>2. CASE k = 1 /\ taken[w] = <<ReqPath(c)>>
          <6>1. Len(taken[w]) = 1
            BY <5>2
          <6> QED
            BY <5>2, <6>1
        <5> QED
          BY <2>4, <5>1, <5>2
      <4> QED
        BY <1>1, <1>5, <4>1, <4>2, Aligned, FirstRange
    <3>2. FirstResp(queue') = 2
      <4> SUFFICES ASSUME queue' # <<>>, Head(queue')[2] = "resp" PROVE FALSE
        BY DEF FirstResp
      <4>1. PICK n \in Nat : n = Len(queue)
        BY <1>1
      <4>2. Head(queue') = queue'[1] /\ 1 \in 1 .. n - k /\ 1 + k \in 1 .. n
        BY <2>1, <4>1
      <4>3. queue'[1] = queue[1 + k] /\ queue[1 + k] \in Paths
        BY <1>1, <2>1, <4>1, <4>2
      <4>4. PICK d \in Clients : queue[1 + k] = RespPath(d)
        BY <4>2, <4>3, PathFacts
      <4>5. Preceded(d, 1 + k)
        BY <1>1, <4>1, <4>2, <4>4 DEF PairInv
      <4>6. queue[k] = ReqPath(d)
        BY <4>5 DEF Preceded
      <4> QED
        BY <2>4, <4>6, PathFacts, SMTT(20), ZenonT(40)
    <3>3. /\ Seconds(queue) # <<>> /\ Head(Seconds(queue)) = c
          /\ Seconds(queue') = Tail(Seconds(queue))
      <4>1. /\ Seconds(queue) # <<>> /\ Head(Seconds(queue)) = queue[k][1]
            /\ Seconds(queue') = Tail(Seconds(queue))
        BY <1>1, <2>1, <3>1, <3>2, SecondsTake
      <4> QED
        BY <2>4, <4>1, PathFacts
    <3>4. Backlog # <<>> /\ Head(Backlog) = c /\ Backlog' = Tail(Backlog)
      <4>1. PICK s, t, u : s = Seconds(queue) /\ t = Reading /\ u = serverPipe
        OBVIOUS
      <4>2. s \in Seq(Clients) /\ t \in Seq(Clients) /\ u \in Seq(Clients)
        BY <1>1, <4>1
      <4>3. s # <<>> /\ Head(s) = c /\ Seconds(queue') = Tail(s)
        BY <3>3, <4>1
      <4>4. /\ (Tail(s) \o t) \o u = Tail((s \o t) \o u)
            /\ Head((s \o t) \o u) = Head(s)
            /\ (s \o t) \o u # <<>>
        <5>1. s # <<>>
          BY <4>3
        <5> QED
          BY <4>2, <5>1, PartsShrink, Zenon
      <4>5. Backlog = (s \o t) \o u /\ Backlog' = (Tail(s) \o t) \o u
        BY <1>3, <4>1, <4>3 DEF Backlog
      <4> QED
        BY <4>3, <4>4, <4>5
    <3>5. Serving[w] = None /\ Serving' = [Serving EXCEPT ![w] = c]
      <4>1. Len(taken[w]) # 2 /\ Len(taken'[w]) = 2 /\ taken'[w][1][1] = c
        BY <2>2, <2>4
      <4> QED
        BY <1>2, <4>1 DEF Serving
    <3> QED
      BY <3>4, <3>5 DEF Service!Begin
  <2> QED
    BY <2>1, <2>3, <2>4
<1> QED
  BY <1>4, <1>5

\* A worker whose client has quit ends the session; nothing else it does shows.
LEMMA RestEnds ==
    ASSUME TypeOK, NEW w \in Workers, WorkerRest(w)
    PROVE  Service!End(w) \/ (Backlog' = Backlog /\ Serving' = Serving)
<1>1. /\ UNCHANGED <<serverPipe, host, client, queue>> /\ wpc[w] # "take"
      /\ \A v \in Workers \ {w} : taken'[v] = taken[v]
  BY WorkerFrame
<1>2. Backlog' = Backlog
  BY <1>1 DEF Backlog, Reading, Seconds, FirstResp
<1>3. CASE taken'[w] = taken[w]
  BY <1>1, <1>2, <1>3 DEF Serving
<1>4. CASE ReadQuit(w) \/ RepeatQuit(w)
  <2>1. taken'[w] = <<>> /\ Len(<<>>) = 0
    BY <1>4 DEF ReadQuit, RepeatQuit, EndSession, TypeOK
  <2>2. Len(taken[w]) = 2 /\ taken[w] \in Seq(Paths)
    BY <1>1 DEF TypeOK
  <2>3. Serving[w] = taken[w][1][1] /\ taken[w][1][1] \in Clients
    BY <2>2, PathFacts DEF Serving
  <2>4. Serving' = [Serving EXCEPT ![w] = None]
    <3>1. Len(taken'[w]) # 2
      BY <2>1
    <3> QED
      BY <1>1, <3>1 DEF Serving
  <2> QED
    BY <1>2, <2>3, <2>4, SessionsAssumption DEF Service!End
<1>5. CASE ~ (ReadQuit(w) \/ RepeatQuit(w))
  <2>1. taken' = taken
    BY <1>5 DEF WorkerRest, OpenReq, OpenFails, ReqOpened, OpenResp, RespOpened,
       SendId, ReadRequest, RepeatRequest, RepeatUnknown, SendAnswer, WriteBroken,
       ServerDies, queueVars
  <2> QED
    BY <1>3, <2>1
<1> QED
  BY <1>4, <1>5

LEMMA ServiceStep ==
    ASSUME TakesAlone, PathsInv, PairInv, Parity, [Next]_vars
    PROVE  Service!Next \/ (Backlog' = Backlog /\ Serving' = Serving)
<1>1. TypeOK /\ PathsInv /\ PairInv /\ Parity
  BY DEF PathsInv
<1>2. CASE HostRequest \/ HostResponse
  <2>1. Serving' = Serving
    BY <1>2 DEF HostRequest, HostResponse, Serving
  <2> QED
    BY <1>1, <1>2, <2>1, HostBacklog
<1>3. ASSUME UNCHANGED <<queue, host, client, serverPipe, taken>>
      PROVE  Backlog' = Backlog /\ Serving' = Serving
  BY <1>3 DEF Backlog, Reading, Seconds, FirstResp, Serving
<1>4. CASE HostSignal \/ UNCHANGED vars \/ \E w \in Workers : SpuriousWakeUp(w)
  <2>1. UNCHANGED <<queue, host, client, serverPipe, taken>> \/ HostSignal
    BY <1>4 DEF vars, queueVars, SpuriousWakeUp, WakeUp
  <2>2. CASE HostSignal
    <3>1. UNCHANGED <<queue, client, serverPipe, taken>> /\ Reading' = Reading
      BY <2>2 DEF HostSignal, Reading
    <3> QED
      BY <3>1 DEF Backlog, Seconds, FirstResp, Serving
  <2> QED
    BY <1>3, <2>1, <2>2
<1>5. ASSUME NEW w \in Workers, Take(w)
      PROVE  Service!Next \/ (Backlog' = Backlog /\ Serving' = Serving)
  BY <1>1, <1>5, TakeBegins DEF Service!Next, TakesAlone
<1>6. ASSUME NEW w \in Workers, WorkerRest(w)
      PROVE  Service!Next \/ (Backlog' = Backlog /\ Serving' = Serving)
  BY <1>1, <1>6, RestEnds DEF Service!Next
<1>7. ASSUME NEW c \in Clients, Setup(c) \/ SetupWithoutPipes(c)
      PROVE  Service!Next
  BY <1>1, <1>7, ConnectAsks DEF Service!Next
<1>8. ASSUME NEW c \in Clients, Client(c) \/ Crash(c)
      PROVE  Backlog' = Backlog /\ Serving' = Serving
  <2>1. UNCHANGED <<queue, host, client, serverPipe, taken>>
    BY <1>8 DEF Client, Crash, ClientOpenReq, ClientOpenFails, ClientReqOpened,
       ClientOpenResp, ClientRespOpened, ReadId, SendRequest, ReadAnswer, Receive,
       Quit, ClientBroken, queueVars
  <2> QED
    BY <1>3, <2>1
<1> QED
  BY <1>2, <1>4, <1>5, <1>6, <1>7, <1>8 DEF Next, Quiet, Host, Worker, WorkerRest

LEMMA ServiceInit == Init => Service!Init
<1> SUFFICES ASSUME Init PROVE Service!Init
  OBVIOUS
<1>1. queue = <<>> /\ host = "read" /\ serverPipe = <<>> /\ taken = [w \in Workers |-> <<>>]
  BY DEF Init, QueueInit
<1>2. Seconds(<<>>) = <<>>
  <2>1. FirstResp(<<>>) = 2 /\ Len(<<>>) = 0 /\ <<>> \in Seq(Paths)
    BY DEF FirstResp
  <2>2. 2 \in 1 .. 2 /\ 0 \in Nat
    OBVIOUS
  <2>3. PICK k \in Nat : SecondsOf(<<>>, 2, 0, k)
    BY <2>1, <2>2, SecondsAre
  <2>4. Seconds(<<>>) \in Seq(Clients) /\ Len(Seconds(<<>>)) = 0
    BY <2>3 DEF SecondsOf, Halves
  <2> QED
    BY <2>4
<1>3. Backlog = <<>>
  BY <1>1, <1>2 DEF Backlog, Reading
<1>4. Serving = [w \in Workers |-> None]
  <2>1. Len(<<>>) # 2
    OBVIOUS
  <2> QED
    BY <1>1, <2>1 DEF Serving
<1> QED
  BY <1>3, <1>4 DEF Service!Init

\* Clients get sessions in the order in which they asked, one worker each, as long as
\* no worker takes paths while another one has only the first of two: the queue of
\* single paths then does what SessionService promises.
THEOREM SessionsImplementService == Spec /\ [][TakesAlone]_vars => ServiceSpec
<1>1. /\ PathsInv /\ PairInv /\ Parity
      /\ [Next]_vars /\ [TakesAlone]_vars
      => [Service!Next]_(Service!vars)
  <2> SUFFICES ASSUME PathsInv, PairInv, Parity, [Next]_vars, [TakesAlone]_vars
               PROVE  Service!Next \/ (Backlog' = Backlog /\ Serving' = Serving)
    BY DEF Service!vars
  <2>1. CASE TakesAlone
    BY <2>1, ServiceStep
  <2>2. CASE UNCHANGED vars
    BY <2>2 DEF vars, queueVars, Backlog, Reading, Seconds, FirstResp, Serving
  <2> QED
    BY <2>1, <2>2
<1> QED
  BY <1>1, ServiceInit, PathsInvariant, PairsInvariant, PTL
     DEF Spec, ServiceSpec, Service!Spec

\* That is so with one worker, or with clients that come and go one by one.
THEOREM ServiceKept == (OneWorkerOnly \/ ClientsSpaced) /\ Spec => ServiceSpec
  BY TakesKept, SessionsImplementService, PTL

=============================================================================
