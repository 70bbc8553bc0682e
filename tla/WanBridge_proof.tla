--------------------------- MODULE WanBridge_proof ---------------------------
(***************************************************************************)
(* Proofs about WanBridge, for every set of clients.                       *)
(***************************************************************************)
EXTENDS WanBridge, CompletionQueue_proof

(* What TypeOK needs to be inductive: the branch the server is in is the   *)
(* one for its event, and it only uses the wr_id of a receive.             *)
BranchOK ==
  /\ spc = "on_connect_request" => event_copy.type = "CONNECT_REQUEST"
  /\ spc \in {"socket_connect", "send"} => wc.op = "RECV"

TypeInv == TypeOK /\ BranchOK

(* Every initial state is well typed. *)
LEMMA InitTypeInv == Init => TypeInv
<1> SUFFICES ASSUME Init PROVE TypeInv
  OBVIOUS
<1> USE DEF Init, FabricInit, ClientInit, ServerInit
<1>1. CmTypeOK
  BY DEF CmTypeOK, CmStates
<1>2. NetTypeOK
  BY DEF NetTypeOK, ReqStates
<1>3. ClientTypeOK
  BY NewCqType DEF ClientTypeOK, ClientPcs, PollerPcs, Data
<1>4. ServerTypeOK
  BY NewCqType DEF ServerTypeOK, ServerPcs, SrvEventSet, ServerWcs, NoWc,
                   WorkCompletion, Data
<1>5. WorkerTypeOK
  BY DEF WorkerTypeOK, WorkerPcs
<1>6. ProxyTypeOK
  BY DEF ProxyTypeOK, Data
<1>7. BranchOK
  BY DEF BranchOK
<1> QED BY <1>1, <1>2, <1>3, <1>4, <1>5, <1>6, <1>7 DEF TypeInv, TypeOK

(* Queueing an event keeps an event channel a sequence of events.          *)
LEMMA TellClientType ==
  ASSUME CmTypeOK, NEW c \in Clients, NEW t \in CliEventTypes, TellClient(c, t)
  PROVE  cliEvents' \in [Clients -> Seq(CliEventTypes)]
BY DEF CmTypeOK, TellClient

(* Telling the server of an event keeps its event channel a sequence of events. *)
LEMMA TellServerType ==
  ASSUME CmTypeOK, NEW c, NEW t, SrvEvent(t, c) \in SrvEventSet, TellServer(t, c)
  PROVE  srvEvents' \in Seq(SrvEventSet)
BY DEF CmTypeOK, TellServer

(* Every step keeps the state of the connection manager well typed. *)
LEMMA CmTypeStep == TypeInv /\ [Next]_vars => CmTypeOK'
<1> SUFFICES ASSUME TypeInv, [Next]_vars PROVE CmTypeOK'
  OBVIOUS
<1>0. CmTypeOK
  BY DEF TypeInv, TypeOK
<1> USE <1>0
<1> USE DEF CmTypeOK, CmStates, CliEventTypes, SrvEventTypes, SrvEvent, SrvEventSet
<1>1. ASSUME NEW c \in Clients, Launch(c) PROVE CmTypeOK'
  BY <1>1 DEF Launch, cmVars
<1>2. ASSUME NEW c \in Clients, ClientMain(c) PROVE CmTypeOK'
  <2>1. CASE OnAddrResolved(c)
    BY <2>1 DEF OnAddrResolved, ClientBuildContext, ClientPostReceives,
         GetsEvent, cmVars
  <2>2. CASE OnRouteResolved(c)
    BY <2>2 DEF OnRouteResolved, GetsEvent, cmVars
  <2>3. CASE OnConnectionReqSock(c)
    BY <2>3 DEF OnConnectionReqSock, GetsEvent, cmVars
  <2>4. CASE ClientOnDisconnect(c)
    BY <2>4 DEF ClientOnDisconnect, GetsEvent, cmVars
  <2>5. CASE OnUnknownEvent(c)
    BY <2>5 DEF OnUnknownEvent, GetsEvent, Die, cmVars
  <2>6. CASE ClientExit(c)
    BY <2>6 DEF ClientExit, cmVars
  <2> QED BY <1>2, <2>1, <2>2, <2>3, <2>4, <2>5, <2>6 DEF ClientMain
<1>3. ASSUME NEW c \in Clients, Poller(c) PROVE CmTypeOK'
  <2>1. CASE PollerGetEvent(c)
    BY <2>1 DEF PollerGetEvent, cmVars
  <2>2. CASE PollerReqNotify(c)
    BY <2>2 DEF PollerReqNotify, cmVars
  <2>3. CASE PollerPoll(c)
    BY <2>3 DEF PollerPoll, cmVars
  <2>4. CASE PollerOnCompletion(c)
    BY <2>4 DEF PollerOnCompletion, RdmaDisconnect, Die, cmVars
  <2> QED BY <1>3, <2>1, <2>2, <2>3, <2>4 DEF Poller
<1>4. ASSUME NEW c \in Clients, CmStep(c) PROVE CmTypeOK'
  <2>1. CASE CmAddr(c)
    BY <2>1, TellClientType DEF CmAddr
  <2>2. CASE CmRoute(c)
    BY <2>2, TellClientType DEF CmRoute
  <2>3. CASE CmRequest(c)
    BY <2>3 DEF CmRequest, TellServer, cmVars
  <2>4. CASE CmReply(c)
    BY <2>4 DEF CmReply, TellClient, cmVars
  <2>5. CASE CmRtu(c)
    BY <2>5, TellServerType DEF CmRtu
  <2>6. CASE CmDreq(c)
    BY <2>6 DEF CmDreq, TellServer, cmVars
  <2>7. CASE CmDrep(c)
    BY <2>7 DEF CmDrep, TellClient, cmVars
  <2>8. CASE CmServerGone(c)
    BY <2>8, TellClientType DEF CmServerGone
  <2>9. CASE CmClientGone(c)
    BY <2>9, TellServerType DEF CmClientGone
  <2>10. CASE CmTimeout(c)
    BY <2>10, TellClientType DEF CmTimeout
  <2> QED
    BY <1>4, <2>1, <2>2, <2>3, <2>4, <2>5, <2>6, <2>7, <2>8, <2>9, <2>10
       DEF CmStep
<1>5. ASSUME NEW c \in Clients, Adapter(c) PROVE CmTypeOK'
  BY <1>5 DEF Adapter, DeliverRequest, AckRequest, FailRequest,
       DeliverResponse, FailResponse, ServerCompletes, cmVars
<1>6. ASSUME NEW c \in Clients, Worker(c) PROVE CmTypeOK'
  BY <1>6 DEF Worker, WorkerStart, WorkerCopy, WorkerPost, cmVars
<1>7. ASSUME ServerThread PROVE CmTypeOK'
  <2>1. CASE ServerGetEvent
    BY <2>1 DEF ServerGetEvent, cmVars
  <2>2. CASE OnConnectRequest
    BY <2>2 DEF OnConnectRequest, ServerBuildContext, ServerPostReceives, cmVars
  <2>3. CASE ServerGetCqEvent
    BY <2>3 DEF ServerGetCqEvent, cmVars
  <2>4. CASE ServerReqNotify
    BY <2>4 DEF ServerReqNotify, cmVars
  <2>5. CASE ServerPoll
    BY <2>5 DEF ServerPoll, cmVars
  <2>6. CASE SocketConnect
    BY <2>6 DEF SocketConnect, ConnectsSocket, cmVars
  <2>7. CASE SocketSend
    BY <2>7 DEF SocketSend, cmVars
  <2>8. CASE SocketRead
    BY <2>8 DEF SocketRead, cmVars
  <2>9. CASE OnEstablished
    BY <2>9 DEF OnEstablished, ClientThreadInit, cmVars
  <2>10. CASE OnDisconnect
    BY <2>10 DEF OnDisconnect, FreeConnection, cmVars
  <2>11. CASE OnUnknown
    BY <2>11 DEF OnUnknown, cmVars
  <2> QED
    BY <1>7, <2>1, <2>2, <2>3, <2>4, <2>5, <2>6, <2>7, <2>8, <2>9, <2>10,
       <2>11 DEF ServerThread
<1>8. ASSUME ProxyAnswers PROVE CmTypeOK'
  BY <1>8 DEF ProxyAnswers, cmVars
<1>9. ASSUME CmFault PROVE CmTypeOK'
  BY <1>9 DEF CmFault, CmDeviceRemoval, TellServer, cmVars
<1>10. CASE UNCHANGED vars
  BY <1>10 DEF vars, cmVars
<1>11. ASSUME NEW c \in Clients, ClientCrash(c) PROVE CmTypeOK'
  BY <1>11 DEF ClientCrash, Die, cmVars
<1> QED
  BY <1>1, <1>2, <1>3, <1>4, <1>5, <1>6, <1>7, <1>8, <1>9, <1>10, <1>11 DEF Next

(* The two kinds of CQ under the operators.                                *)
LEMMA ClientCqTypes ==
  ASSUME ClientTypeOK, NEW c \in Clients
  PROVE  /\ \A w \in ClientWcs : Complete(ccq[c], w) \in CompletionQueues(ClientWcs)
         /\ Arm(ccq[c]) \in CompletionQueues(ClientWcs)
         /\ HasEvent(ccq[c]) => TakeEvent(ccq[c]) \in CompletionQueues(ClientWcs)
         /\ HasCompletion(ccq[c]) => /\ Oldest(ccq[c]) \in ClientWcs
                                     /\ Poll(ccq[c]) \in CompletionQueues(ClientWcs)
         /\ Flush(ccq[c]) \in CompletionQueues(ClientWcs)
<1>1. ccq[c] \in CompletionQueues(ClientWcs)
  BY DEF ClientTypeOK
<1>2. Wc("SEND", TRUE, c) \in ClientWcs
  BY DEF Wc, ClientWcs, WorkCompletion
<1> QED BY <1>1, <1>2, CqTypes

(* A completion queue the server polls holds completions only. *)
LEMMA ServerCqTypes ==
  ASSUME ServerTypeOK
  PROVE  /\ \A w \in ServerWcs : Complete(scq, w) \in CompletionQueues(ServerWcs)
         /\ Arm(scq) \in CompletionQueues(ServerWcs)
         /\ HasEvent(scq) => TakeEvent(scq) \in CompletionQueues(ServerWcs)
         /\ HasCompletion(scq) => /\ Oldest(scq) \in ServerWcs
                                  /\ Poll(scq) \in CompletionQueues(ServerWcs)
<1>1. scq \in CompletionQueues(ServerWcs)
  BY DEF ServerTypeOK
<1>2. NoWc \in ServerWcs
  BY DEF NoWc, ServerWcs, WorkCompletion
<1> QED BY <1>1, <1>2, CqTypes

(* The completions the adapters write are completions. *)
LEMMA WcTypes ==
  ASSUME NEW c \in Clients, NEW ok \in BOOLEAN
  PROVE  /\ Wc("SEND", ok, c) \in ClientWcs /\ Wc("RECV", ok, c) \in ClientWcs
         /\ Wc("RECV", ok, c) \in ServerWcs /\ Wc("SEND", ok, None) \in ServerWcs
BY DEF Wc, ClientWcs, ServerWcs, WorkCompletion

(* Every step keeps the messages between the two adapters well typed. *)
LEMMA NetTypeStep == TypeInv /\ [Next]_vars => NetTypeOK'
<1> SUFFICES ASSUME TypeInv, [Next]_vars PROVE NetTypeOK'
  OBVIOUS
<1>0. NetTypeOK
  BY DEF TypeInv, TypeOK
<1> USE <1>0
<1> USE DEF NetTypeOK, ReqStates
<1>1. ASSUME NEW c \in Clients, Launch(c) PROVE NetTypeOK'
  BY <1>1 DEF Launch, netVars
<1>2. ASSUME NEW c \in Clients, ClientMain(c) PROVE NetTypeOK'
  <2>1. CASE OnAddrResolved(c)
    BY <2>1 DEF OnAddrResolved, ClientBuildContext, ClientPostReceives,
         GetsEvent, netVars
  <2>2. CASE OnRouteResolved(c)
    BY <2>2 DEF OnRouteResolved, GetsEvent, netVars
  <2>3. CASE OnConnectionReqSock(c)
    BY <2>3 DEF OnConnectionReqSock, GetsEvent, netVars
  <2>4. CASE ClientOnDisconnect(c)
    BY <2>4 DEF ClientOnDisconnect, GetsEvent, netVars
  <2>5. CASE OnUnknownEvent(c)
    BY <2>5 DEF OnUnknownEvent, GetsEvent, Die, netVars
  <2>6. CASE ClientExit(c)
    BY <2>6 DEF ClientExit, netVars
  <2> QED BY <1>2, <2>1, <2>2, <2>3, <2>4, <2>5, <2>6 DEF ClientMain
<1>3. ASSUME NEW c \in Clients, Poller(c) PROVE NetTypeOK'
  BY <1>3 DEF Poller, PollerGetEvent, PollerReqNotify, PollerPoll,
       PollerOnCompletion, Die, RdmaDisconnect, netVars
<1>4. ASSUME NEW c \in Clients, CmStep(c) PROVE NetTypeOK'
  BY <1>4 DEF CmStep, netVars
<1>5. ASSUME NEW c \in Clients, Adapter(c) PROVE NetTypeOK'
  <2>1. CASE DeliverRequest(c)
    BY <2>1 DEF DeliverRequest, ServerCompletes, netVars
  <2>2. CASE AckRequest(c)
    BY <2>2 DEF AckRequest, netVars
  <2>3. CASE FailRequest(c)
    BY <2>3 DEF FailRequest, netVars
  <2>4. CASE DeliverResponse(c)
    BY <2>4 DEF DeliverResponse, ServerCompletes, netVars
  <2>5. CASE FailResponse(c)
    BY <2>5 DEF FailResponse, ServerCompletes, netVars
  <2> QED BY <1>5, <2>1, <2>2, <2>3, <2>4, <2>5 DEF Adapter
<1>6. ASSUME NEW c \in Clients, Worker(c) PROVE NetTypeOK'
  <2>1. CASE WorkerStart(c)
    BY <2>1 DEF WorkerStart, netVars
  <2>2. CASE WorkerCopy(c)
    BY <2>2 DEF WorkerCopy, netVars
  <2>3. CASE WorkerPost(c)
    BY <2>3 DEF WorkerPost, netVars
  <2> QED BY <1>6, <2>1, <2>2, <2>3 DEF Worker
<1>7. ASSUME ServerThread PROVE NetTypeOK'
  BY <1>7 DEF ServerThread, ServerGetEvent, OnConnectRequest,
       ServerBuildContext, ServerPostReceives, ServerGetCqEvent,
       ServerReqNotify, ServerPoll, SocketConnect, ConnectsSocket, SocketSend,
       SocketRead, OnEstablished, ClientThreadInit, OnDisconnect,
       FreeConnection, OnUnknown, netVars
<1>8. ASSUME ProxyAnswers PROVE NetTypeOK'
  BY <1>8 DEF ProxyAnswers, netVars
<1>9. ASSUME CmFault PROVE NetTypeOK'
  BY <1>9 DEF CmFault, netVars
<1>10. CASE UNCHANGED vars
  BY <1>10 DEF vars, netVars
<1>11. ASSUME NEW c \in Clients, ClientCrash(c) PROVE NetTypeOK'
  BY <1>11 DEF ClientCrash, Die, netVars
<1> QED
  BY <1>1, <1>2, <1>3, <1>4, <1>5, <1>6, <1>7, <1>8, <1>9, <1>10, <1>11 DEF Next

(* Every step keeps the state of every ./client well typed. *)
LEMMA ClientTypeStep == TypeInv /\ [Next]_vars => ClientTypeOK'
<1> SUFFICES ASSUME TypeInv, [Next]_vars PROVE ClientTypeOK'
  OBVIOUS
<1>0. ClientTypeOK /\ ServerTypeOK
  BY DEF TypeInv, TypeOK
<1> USE <1>0
<1> USE DEF ClientTypeOK, ClientPcs, PollerPcs
<1>1. ASSUME NEW c \in Clients, Launch(c) PROVE ClientTypeOK'
  BY <1>1, ClientCqTypes, WcTypes, NewCqType DEF Launch, clientVars
<1>2. ASSUME NEW c \in Clients, ClientMain(c) PROVE ClientTypeOK'
  <2>1. CASE OnAddrResolved(c)
    BY <2>1, ClientCqTypes, WcTypes, NewCqType DEF OnAddrResolved,
         ClientBuildContext, ClientPostReceives, GetsEvent, clientVars
  <2>2. CASE OnRouteResolved(c)
    BY <2>2 DEF OnRouteResolved, GetsEvent, clientVars
  <2>3. CASE OnConnectionReqSock(c)
    BY <2>3 DEF OnConnectionReqSock, GetsEvent, clientVars
  <2>4. CASE ClientOnDisconnect(c)
    BY <2>4, ClientCqTypes, WcTypes, NewCqType DEF ClientOnDisconnect,
         GetsEvent, clientVars
  <2>5. CASE OnUnknownEvent(c)
    BY <2>5, ClientCqTypes, WcTypes, NewCqType DEF OnUnknownEvent, GetsEvent,
         Die, clientVars
  <2>6. CASE ClientExit(c)
    BY <2>6, ClientCqTypes, WcTypes, NewCqType DEF ClientExit, clientVars
  <2> QED BY <1>2, <2>1, <2>2, <2>3, <2>4, <2>5, <2>6 DEF ClientMain
<1>3. ASSUME NEW c \in Clients, Poller(c) PROVE ClientTypeOK'
  <2>1. CASE PollerGetEvent(c)
    BY <2>1, ClientCqTypes, WcTypes, NewCqType DEF PollerGetEvent, clientVars
  <2>2. CASE PollerReqNotify(c)
    BY <2>2, ClientCqTypes, WcTypes, NewCqType DEF PollerReqNotify, clientVars
  <2>3. CASE PollerPoll(c)
    <3>1. CASE HasCompletion(ccq[c])
      <4>1. Oldest(ccq[c]) \in ClientWcs /\ Poll(ccq[c]) \in CompletionQueues(ClientWcs)
        BY <3>1, ClientCqTypes
      <4> QED BY <2>3, <3>1, <4>1 DEF PollerPoll, clientVars
    <3>2. CASE ~HasCompletion(ccq[c])
      BY <2>3, <3>2 DEF PollerPoll, clientVars
    <3> QED BY <3>1, <3>2
  <2>4. CASE PollerOnCompletion(c)
    BY <2>4 DEF PollerOnCompletion, RdmaDisconnect, Die, clientVars
  <2> QED BY <1>3, <2>1, <2>2, <2>3, <2>4 DEF Poller
<1>4. ASSUME NEW c \in Clients, CmStep(c) PROVE ClientTypeOK'
  BY <1>4 DEF CmStep, clientVars
<1>5. ASSUME NEW c \in Clients, Adapter(c) PROVE ClientTypeOK'
  <2>1. CASE DeliverRequest(c)
    BY <2>1 DEF DeliverRequest, ServerCompletes, clientVars
  <2>2. CASE AckRequest(c)
    <3>1. Complete(ccq[c], Wc("SEND", TRUE, c)) \in CompletionQueues(ClientWcs)
      BY ClientCqTypes, WcTypes
    <3> QED BY <2>2, <3>1 DEF AckRequest, clientVars
  <2>3. CASE FailRequest(c)
    <3>1. Complete(ccq[c], Wc("SEND", FALSE, c)) \in CompletionQueues(ClientWcs)
      BY ClientCqTypes, WcTypes
    <3> QED BY <2>3, <3>1 DEF FailRequest, clientVars
  <2>4. CASE DeliverResponse(c)
    <3>1. sendRegion[c] \in Data
      BY DEF ServerTypeOK
    <3>2. Complete(ccq[c], Wc("RECV", TRUE, c)) \in CompletionQueues(ClientWcs)
      BY ClientCqTypes, WcTypes
    <3> QED BY <2>4, <3>1, <3>2 DEF DeliverResponse, clientVars
  <2>5. CASE FailResponse(c)
    BY <2>5 DEF FailResponse, ServerCompletes, clientVars
  <2> QED BY <1>5, <2>1, <2>2, <2>3, <2>4, <2>5 DEF Adapter
<1>6. ASSUME NEW c \in Clients, Worker(c) PROVE ClientTypeOK'
  BY <1>6 DEF Worker, WorkerStart, WorkerCopy, WorkerPost, clientVars
<1>7. ASSUME ServerThread PROVE ClientTypeOK'
  BY <1>7 DEF ServerThread, ServerGetEvent, OnConnectRequest,
       ServerBuildContext, ServerPostReceives, ServerGetCqEvent,
       ServerReqNotify, ServerPoll, SocketConnect, ConnectsSocket, SocketSend,
       SocketRead, OnEstablished, ClientThreadInit, OnDisconnect,
       FreeConnection, OnUnknown, clientVars
<1>8. ASSUME ProxyAnswers PROVE ClientTypeOK'
  BY <1>8 DEF ProxyAnswers, clientVars
<1>9. ASSUME CmFault PROVE ClientTypeOK'
  BY <1>9 DEF CmFault, clientVars
<1>10. CASE UNCHANGED vars
  BY <1>10 DEF vars, clientVars
<1>11. ASSUME NEW c \in Clients, ClientCrash(c) PROVE ClientTypeOK'
  BY <1>11 DEF ClientCrash, Die, clientVars
<1> QED
  BY <1>1, <1>2, <1>3, <1>4, <1>5, <1>6, <1>7, <1>8, <1>9, <1>10, <1>11 DEF Next

(* Every step keeps the workers of ./server well typed. *)
LEMMA WorkerTypeStep == TypeInv /\ [Next]_vars => WorkerTypeOK'
<1> SUFFICES ASSUME TypeInv, [Next]_vars PROVE WorkerTypeOK'
  OBVIOUS
<1>0. WorkerTypeOK
  BY DEF TypeInv, TypeOK
<1> USE <1>0
<1> USE DEF WorkerTypeOK, WorkerPcs
<1>1. ASSUME NEW c \in Clients, Launch(c) PROVE WorkerTypeOK'
  BY <1>1 DEF Launch, workerVars
<1>2. ASSUME NEW c \in Clients, ClientMain(c) PROVE WorkerTypeOK'
  BY <1>2 DEF ClientMain, OnAddrResolved, OnRouteResolved, OnConnectionReqSock,
       ClientOnDisconnect, OnUnknownEvent, ClientExit, Die, GetsEvent,
       workerVars
<1>3. ASSUME NEW c \in Clients, Poller(c) PROVE WorkerTypeOK'
  BY <1>3 DEF Poller, PollerGetEvent, PollerReqNotify, PollerPoll,
       PollerOnCompletion, Die, RdmaDisconnect, workerVars
<1>4. ASSUME NEW c \in Clients, CmStep(c) PROVE WorkerTypeOK'
  BY <1>4 DEF CmStep, workerVars
<1>5. ASSUME NEW c \in Clients, Adapter(c) PROVE WorkerTypeOK'
  BY <1>5 DEF Adapter, DeliverRequest, AckRequest, FailRequest,
       DeliverResponse, FailResponse, ServerCompletes, workerVars
<1>6. ASSUME NEW c \in Clients, Worker(c) PROVE WorkerTypeOK'
  <2>1. CASE WorkerStart(c)
    BY <2>1 DEF WorkerStart, workerVars
  <2>2. CASE WorkerCopy(c)
    BY <2>2 DEF WorkerCopy, workerVars
  <2>3. CASE WorkerPost(c)
    BY <2>3 DEF WorkerPost, workerVars
  <2> QED BY <1>6, <2>1, <2>2, <2>3 DEF Worker
<1>7. ASSUME ServerThread PROVE WorkerTypeOK'
  <2>1. CASE ServerGetEvent
    BY <2>1 DEF ServerGetEvent, workerVars
  <2>2. CASE OnConnectRequest
    BY <2>2 DEF OnConnectRequest, ServerBuildContext, ServerPostReceives,
         workerVars
  <2>3. CASE ServerGetCqEvent
    BY <2>3 DEF ServerGetCqEvent, workerVars
  <2>4. CASE ServerReqNotify
    BY <2>4 DEF ServerReqNotify, workerVars
  <2>5. CASE ServerPoll
    BY <2>5 DEF ServerPoll, workerVars
  <2>6. CASE SocketConnect
    BY <2>6 DEF SocketConnect, ConnectsSocket, workerVars
  <2>7. CASE SocketSend
    BY <2>7 DEF SocketSend, workerVars
  <2>8. CASE SocketRead
    BY <2>8 DEF SocketRead, workerVars
  <2>9. CASE OnEstablished
    BY <2>9 DEF OnEstablished, ClientThreadInit, workerVars
  <2>10. CASE OnDisconnect
    BY <2>10 DEF OnDisconnect, FreeConnection, workerVars
  <2>11. CASE OnUnknown
    BY <2>11 DEF OnUnknown, workerVars
  <2> QED
    BY <1>7, <2>1, <2>2, <2>3, <2>4, <2>5, <2>6, <2>7, <2>8, <2>9, <2>10,
       <2>11 DEF ServerThread
<1>8. ASSUME ProxyAnswers PROVE WorkerTypeOK'
  BY <1>8 DEF ProxyAnswers, workerVars
<1>9. ASSUME CmFault PROVE WorkerTypeOK'
  BY <1>9 DEF CmFault, workerVars
<1>10. CASE UNCHANGED vars
  BY <1>10 DEF vars, workerVars
<1>11. ASSUME NEW c \in Clients, ClientCrash(c) PROVE WorkerTypeOK'
  BY <1>11 DEF ClientCrash, Die, workerVars
<1> QED
  BY <1>1, <1>2, <1>3, <1>4, <1>5, <1>6, <1>7, <1>8, <1>9, <1>10, <1>11 DEF Next

(* Every step keeps the connections to WANProxy well typed. *)
LEMMA ProxyTypeStep == TypeInv /\ [Next]_vars => ProxyTypeOK'
<1> SUFFICES ASSUME TypeInv, [Next]_vars PROVE ProxyTypeOK'
  OBVIOUS
<1>0. ProxyTypeOK /\ ServerTypeOK /\ BranchOK
  BY DEF TypeInv, TypeOK
<1> USE <1>0
<1> USE DEF ProxyTypeOK, Data
<1>1. ASSUME NEW c \in Clients, Launch(c) PROVE ProxyTypeOK'
  BY <1>1 DEF Launch, proxyVars
<1>2. ASSUME NEW c \in Clients, ClientMain(c) PROVE ProxyTypeOK'
  BY <1>2 DEF ClientMain, OnAddrResolved, OnRouteResolved, OnConnectionReqSock,
       ClientOnDisconnect, OnUnknownEvent, ClientExit, Die, GetsEvent, proxyVars
<1>3. ASSUME NEW c \in Clients, Poller(c) PROVE ProxyTypeOK'
  BY <1>3 DEF Poller, PollerGetEvent, PollerReqNotify, PollerPoll,
       PollerOnCompletion, Die, RdmaDisconnect, proxyVars
<1>4. ASSUME NEW c \in Clients, CmStep(c) PROVE ProxyTypeOK'
  BY <1>4 DEF CmStep, proxyVars
<1>5. ASSUME NEW c \in Clients, Adapter(c) PROVE ProxyTypeOK'
  BY <1>5 DEF Adapter, DeliverRequest, AckRequest, FailRequest,
       DeliverResponse, FailResponse, ServerCompletes, proxyVars
<1>6. ASSUME NEW c \in Clients, Worker(c) PROVE ProxyTypeOK'
  BY <1>6 DEF Worker, WorkerStart, WorkerCopy, WorkerPost, proxyVars
<1>7. ASSUME ServerThread PROVE ProxyTypeOK'
  <2>1. CASE ServerGetEvent
    BY <2>1 DEF ServerGetEvent, proxyVars
  <2>2. CASE OnConnectRequest
    BY <2>2 DEF OnConnectRequest, ServerBuildContext, ServerPostReceives,
         proxyVars
  <2>3. CASE ServerGetCqEvent
    BY <2>3 DEF ServerGetCqEvent, proxyVars
  <2>4. CASE ServerReqNotify
    BY <2>4 DEF ServerReqNotify, proxyVars
  <2>5. CASE ServerPoll
    BY <2>5 DEF ServerPoll, proxyVars
  <2>6. CASE SocketConnect
    BY <2>6 DEF SocketConnect, ConnectsSocket, proxyVars
  <2>7. CASE SocketSend
    <3>1. wc.conn \in Clients
      BY <2>7 DEF SocketSend, ServerTypeOK, BranchOK, ServerWcs
    <3>2. recvRegion[wc.conn] \in Data
      BY <3>1 DEF ServerTypeOK
    <3>3. pending' \in Data /\ reply' \in Data
      BY <2>7, <3>2 DEF SocketSend
    <3>4. seen' \in [Clients -> Nat]
      <4> DEFINE r == recvRegion[wc.conn]
      <4>1. seen' = [d \in Clients |-> IF d = r THEN seen[d] + 1 ELSE seen[d]]
        BY <2>7 DEF SocketSend
      <4> QED BY <4>1
    <3> QED BY <3>3, <3>4
  <2>8. CASE SocketRead
    BY <2>8 DEF SocketRead, proxyVars
  <2>9. CASE OnEstablished
    BY <2>9 DEF OnEstablished, ClientThreadInit, proxyVars
  <2>10. CASE OnDisconnect
    BY <2>10 DEF OnDisconnect, FreeConnection, proxyVars
  <2>11. CASE OnUnknown
    BY <2>11 DEF OnUnknown, proxyVars
  <2> QED
    BY <1>7, <2>1, <2>2, <2>3, <2>4, <2>5, <2>6, <2>7, <2>8, <2>9, <2>10,
       <2>11 DEF ServerThread
<1>8. ASSUME ProxyAnswers PROVE ProxyTypeOK'
  BY <1>8 DEF ProxyAnswers, proxyVars
<1>9. ASSUME CmFault PROVE ProxyTypeOK'
  BY <1>9 DEF CmFault, proxyVars
<1>10. CASE UNCHANGED vars
  BY <1>10 DEF vars, proxyVars
<1>11. ASSUME NEW c \in Clients, ClientCrash(c) PROVE ProxyTypeOK'
  BY <1>11 DEF ClientCrash, Die, proxyVars
<1> QED
  BY <1>1, <1>2, <1>3, <1>4, <1>5, <1>6, <1>7, <1>8, <1>9, <1>10, <1>11 DEF Next

(* Every step keeps the state of ./server well typed. *)
LEMMA ServerTypeStep == TypeInv /\ [Next]_vars => ServerTypeOK'
<1> SUFFICES ASSUME TypeInv, [Next]_vars PROVE ServerTypeOK'
  OBVIOUS
<1>0. ServerTypeOK /\ CmTypeOK /\ ProxyTypeOK /\ BranchOK
  BY DEF TypeInv, TypeOK
<1> USE <1>0
<1> USE DEF ServerTypeOK, ServerPcs, Data
<1>1. ASSUME NEW c \in Clients, Launch(c) PROVE ServerTypeOK'
  BY <1>1 DEF Launch, serverVars
<1>2. ASSUME NEW c \in Clients, ClientMain(c) PROVE ServerTypeOK'
  BY <1>2 DEF ClientMain, OnAddrResolved, OnRouteResolved, OnConnectionReqSock,
       ClientOnDisconnect, OnUnknownEvent, ClientExit, Die, GetsEvent,
       serverVars
<1>3. ASSUME NEW c \in Clients, Poller(c) PROVE ServerTypeOK'
  BY <1>3 DEF Poller, PollerGetEvent, PollerReqNotify, PollerPoll,
       PollerOnCompletion, Die, RdmaDisconnect, serverVars
<1>4. ASSUME NEW c \in Clients, CmStep(c) PROVE ServerTypeOK'
  BY <1>4 DEF CmStep, serverVars
<1>5. ASSUME NEW c \in Clients, Adapter(c) PROVE ServerTypeOK'
  <2>1. CASE DeliverRequest(c)
    <3>1. Complete(scq, Wc("RECV", TRUE, c)) \in CompletionQueues(ServerWcs)
      BY ServerCqTypes, WcTypes
    <3> QED BY <2>1, <3>1 DEF DeliverRequest, ServerCompletes, serverVars
  <2>2. CASE AckRequest(c)
    BY <2>2 DEF AckRequest, serverVars
  <2>3. CASE FailRequest(c)
    BY <2>3 DEF FailRequest, serverVars
  <2>4. CASE DeliverResponse(c)
    <3>1. Complete(scq, Wc("SEND", TRUE, None)) \in CompletionQueues(ServerWcs)
      BY ServerCqTypes, WcTypes
    <3> QED BY <2>4, <3>1 DEF DeliverResponse, ServerCompletes, serverVars
  <2>5. CASE FailResponse(c)
    <3>1. Complete(scq, Wc("SEND", FALSE, None)) \in CompletionQueues(ServerWcs)
      BY ServerCqTypes, WcTypes
    <3> QED BY <2>5, <3>1 DEF FailResponse, ServerCompletes, serverVars
  <2> QED BY <1>5, <2>1, <2>2, <2>3, <2>4, <2>5 DEF Adapter
<1>6. ASSUME NEW c \in Clients, Worker(c) PROVE ServerTypeOK'
  <2>1. CASE WorkerStart(c)
    BY <2>1, ServerCqTypes, NewCqType DEF WorkerStart, serverVars
  <2>2. CASE WorkerCopy(c)
    BY <2>2, ServerCqTypes, NewCqType DEF WorkerCopy, serverVars
  <2>3. CASE WorkerPost(c)
    BY <2>3, ServerCqTypes, NewCqType DEF WorkerPost, serverVars
  <2> QED BY <1>6, <2>1, <2>2, <2>3 DEF Worker
<1>7. ASSUME ServerThread PROVE ServerTypeOK'
  <2>1. CASE ServerGetEvent
    <3>1. Head(srvEvents) \in SrvEventSet
      BY <2>1 DEF ServerGetEvent, CmTypeOK
    <3> QED BY <2>1, <3>1 DEF ServerGetEvent, serverVars
  <2>2. CASE OnConnectRequest
    <3>1. event_copy.id \in Clients
      BY <2>2 DEF OnConnectRequest, ServerBuildContext, ServerPostReceives,
           BranchOK, SrvEventSet, SrvEvent
    <3>2. scq' \in CompletionQueues(ServerWcs)
      BY <2>2, NewCqType DEF OnConnectRequest, ServerBuildContext,
           ServerPostReceives
    <3> QED
      BY <2>2, <3>1, <3>2 DEF OnConnectRequest, ServerBuildContext,
         ServerPostReceives, serverVars
  <2>3. CASE ServerGetCqEvent
    BY <2>3, ServerCqTypes, NewCqType DEF ServerGetCqEvent, serverVars
  <2>4. CASE ServerReqNotify
    BY <2>4, ServerCqTypes, NewCqType DEF ServerReqNotify, serverVars
  <2>5. CASE ServerPoll
    BY <2>5, ServerCqTypes, NewCqType DEF ServerPoll, serverVars
  <2>6. CASE SocketConnect
    BY <2>6, ServerCqTypes, NewCqType DEF SocketConnect, ConnectsSocket,
         serverVars
  <2>7. CASE SocketSend
    BY <2>7, ServerCqTypes, NewCqType DEF SocketSend, serverVars
  <2>8. CASE SocketRead
    BY <2>8 DEF SocketRead, ProxyTypeOK, serverVars
  <2>9. CASE OnEstablished
    BY <2>9, ServerCqTypes, NewCqType DEF OnEstablished, ClientThreadInit,
         serverVars
  <2>10. CASE OnDisconnect
    BY <2>10, ServerCqTypes, NewCqType DEF OnDisconnect, FreeConnection,
         serverVars
  <2>11. CASE OnUnknown
    BY <2>11, ServerCqTypes, NewCqType DEF OnUnknown, serverVars
  <2> QED
    BY <1>7, <2>1, <2>2, <2>3, <2>4, <2>5, <2>6, <2>7, <2>8, <2>9, <2>10,
       <2>11 DEF ServerThread
<1>8. ASSUME ProxyAnswers PROVE ServerTypeOK'
  BY <1>8 DEF ProxyAnswers, serverVars
<1>9. ASSUME CmFault PROVE ServerTypeOK'
  BY <1>9 DEF CmFault, serverVars
<1>10. CASE UNCHANGED vars
  BY <1>10 DEF vars, serverVars
<1>11. ASSUME NEW c \in Clients, ClientCrash(c) PROVE ServerTypeOK'
  BY <1>11 DEF ClientCrash, Die, serverVars
<1> QED
  BY <1>1, <1>2, <1>3, <1>4, <1>5, <1>6, <1>7, <1>8, <1>9, <1>10, <1>11 DEF Next

(* Every step keeps the branch of rdma_sock_thread ./server is in, with the event
   it handles. *)
LEMMA BranchStep == TypeInv /\ [Next]_vars => BranchOK'
<1> SUFFICES ASSUME TypeInv, [Next]_vars PROVE BranchOK'
  OBVIOUS
<1>0. BranchOK
  BY DEF TypeInv, TypeOK
<1> USE <1>0
<1> USE DEF BranchOK
<1>1. ASSUME NEW c \in Clients, Launch(c) PROVE BranchOK'
  BY <1>1 DEF Launch, serverVars
<1>2. ASSUME NEW c \in Clients, ClientMain(c) PROVE BranchOK'
  BY <1>2 DEF ClientMain, OnAddrResolved, OnRouteResolved, OnConnectionReqSock,
       ClientOnDisconnect, OnUnknownEvent, ClientExit, Die, GetsEvent,
       serverVars
<1>3. ASSUME NEW c \in Clients, Poller(c) PROVE BranchOK'
  BY <1>3 DEF Poller, PollerGetEvent, PollerReqNotify, PollerPoll,
       PollerOnCompletion, Die, RdmaDisconnect, serverVars
<1>4. ASSUME NEW c \in Clients, CmStep(c) PROVE BranchOK'
  BY <1>4 DEF CmStep, serverVars
<1>5. ASSUME NEW c \in Clients, Adapter(c) PROVE BranchOK'
  BY <1>5 DEF Adapter, DeliverRequest, AckRequest, FailRequest,
       DeliverResponse, FailResponse, ServerCompletes, serverVars
<1>6. ASSUME NEW c \in Clients, Worker(c) PROVE BranchOK'
  <2>1. CASE WorkerStart(c)
    BY <2>1 DEF WorkerStart, serverVars
  <2>2. CASE WorkerCopy(c)
    BY <2>2 DEF WorkerCopy, serverVars
  <2>3. CASE WorkerPost(c)
    BY <2>3 DEF WorkerPost, serverVars
  <2> QED BY <1>6, <2>1, <2>2, <2>3 DEF Worker
<1>7. ASSUME ServerThread PROVE BranchOK'
  <2>1. CASE ServerGetEvent
    BY <2>1 DEF ServerGetEvent, serverVars
  <2>2. CASE OnConnectRequest
    BY <2>2 DEF OnConnectRequest, ServerBuildContext, ServerPostReceives,
         serverVars
  <2>3. CASE ServerGetCqEvent
    BY <2>3 DEF ServerGetCqEvent, serverVars
  <2>4. CASE ServerReqNotify
    BY <2>4 DEF ServerReqNotify, serverVars
  <2>5. CASE ServerPoll
    BY <2>5 DEF ServerPoll, serverVars
  <2>6. CASE SocketConnect
    BY <2>6 DEF SocketConnect, ConnectsSocket, serverVars
  <2>7. CASE SocketSend
    BY <2>7 DEF SocketSend, serverVars
  <2>8. CASE SocketRead
    BY <2>8 DEF SocketRead, serverVars
  <2>9. CASE OnEstablished
    BY <2>9 DEF OnEstablished, ClientThreadInit, serverVars
  <2>10. CASE OnDisconnect
    BY <2>10 DEF OnDisconnect, FreeConnection, serverVars
  <2>11. CASE OnUnknown
    BY <2>11 DEF OnUnknown, serverVars
  <2> QED
    BY <1>7, <2>1, <2>2, <2>3, <2>4, <2>5, <2>6, <2>7, <2>8, <2>9, <2>10,
       <2>11 DEF ServerThread
<1>8. ASSUME ProxyAnswers PROVE BranchOK'
  BY <1>8 DEF ProxyAnswers, serverVars
<1>9. ASSUME CmFault PROVE BranchOK'
  BY <1>9 DEF CmFault, serverVars
<1>10. CASE UNCHANGED vars
  BY <1>10 DEF vars, serverVars
<1>11. ASSUME NEW c \in Clients, ClientCrash(c) PROVE BranchOK'
  BY <1>11 DEF ClientCrash, Die, serverVars
<1> QED
  BY <1>1, <1>2, <1>3, <1>4, <1>5, <1>6, <1>7, <1>8, <1>9, <1>10, <1>11 DEF Next

(* Every step keeps every variable well typed. *)
LEMMA StepTypeInv == TypeInv /\ [Next]_vars => TypeInv'
BY CmTypeStep, NetTypeStep, ClientTypeStep, ServerTypeStep, WorkerTypeStep,
   ProxyTypeStep, BranchStep DEF TypeInv, TypeOK

(* The inductive form of TypeCorrect, which other proofs cite. *)
LEMMA TypeInvariance == Spec => []TypeInv
BY InitTypeInv, StepTypeInv, PTL DEF Spec

(* Every variable keeps its type, whatever the constants are.              *)
THEOREM TypeCorrect == Spec => []TypeOK
<1>1. TypeInv => TypeOK
  BY DEF TypeInv
<1> QED BY <1>1, TypeInvariance, PTL
=============================================================================
