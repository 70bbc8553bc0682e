------------------------ MODULE WanBridgeAlways_proof ------------------------
(***************************************************************************)
(* What the two programs can rely on whatever happens: with overlapping    *)
(* runs, faults and crashes, for every set of clients.                     *)
(*                                                                         *)
(* The poller of ./client misses no completion, and ./client disconnects   *)
(* only when its request is acknowledged and its answer received.          *)
(***************************************************************************)
EXTENDS WanBridge_proof

(* While the poller waits, an event is queued or the CQ is armed and empty; *)
(* after it has armed the CQ, the CQ stays armed until it queues an event. *)
WakeOK(c) ==
  /\ ppc[c] = "wait" =>
       ccq[c].events > 0 \/ (ccq[c].armed /\ ccq[c].wcs = << >>)
  /\ ppc[c] \in {"poll", "handle"} => ccq[c].events > 0 \/ ccq[c].armed

(* Before the client has a connection, and before it can send.             *)
Early  == {"idle", "resolving_addr", "addr_done"}
Before == Early \cup
            {"resolving_route", "route_done", "connecting", "requested", "accepted"}

(* Where the client's threads can be.                                      *)
ThreadsOK(c) ==
  /\ cpc[c] = "idle" => cm[c] = "idle"
  /\ cm[c] \in Early =>
       cconn[c] = "none" /\ ppc[c] = "none" /\ ~crecv[c] /\ cregion[c] = None
  /\ ppc[c] # "none" => ~Ended(c)
  /\ crecv[c] => cregion[c] = None

(* The events that wait for the client fit its connection: it connects     *)
(* once, and is told so once, before it sends its request.                 *)
EventsOK(c) ==
  /\ cm[c] \in Before => req[c] = "none"
  /\ cm[c] \in Before \ {"addr_done", "route_done"} => Len(cliEvents[c]) = 0
  /\ cm[c] = "addr_done" =>
       /\ Len(cliEvents[c]) <= 1
       /\ \A i \in 1 .. Len(cliEvents[c]) :
            cliEvents[c][i] \in {"ADDR_RESOLVED", "ADDR_ERROR"}
  /\ cm[c] = "route_done" =>
       /\ Len(cliEvents[c]) <= 1
       /\ \A i \in 1 .. Len(cliEvents[c]) :
            cliEvents[c][i] \in {"ROUTE_RESOLVED", "ROUTE_ERROR"}
  /\ cm[c] \notin Before =>
       \A i \in 1 .. Len(cliEvents[c]) :
         /\ cliEvents[c][i] \notin {"ADDR_RESOLVED", "ROUTE_RESOLVED"}
         /\ cliEvents[c][i] = "ESTABLISHED" => i = 1 /\ req[c] = "none"

(* What has completed, and what the poller has been told of it.            *)
Finished(c) == (IF req[c] \in {"acked", "failed"} THEN 1 ELSE 0)
                 + (IF cregion[c] # None THEN 1 ELSE 0)
Reported(c) == num[c] + Len(ccq[c].wcs) + (IF ppc[c] = "handle" THEN 1 ELSE 0)

(* The failure of a request is still to be seen by the poller.             *)
FailureDue(c) == \/ \E i \in 1 .. Len(ccq[c].wcs) : ~ccq[c].wcs[i].ok
                 \/ ppc[c] = "handle" /\ ~pwc[c].ok

(* Each send and each receive completes once.                              *)
CountOK(c) ==
  /\ Reported(c) <= Finished(c)
  /\ req[c] = "failed" /\ cconn[c] = "live" /\ ~Ended(c) => FailureDue(c)

(* Only an answer, if perhaps not the right one, is ever sent.             *)
AnswerOK(c) ==
  /\ wpc[c] \in {"copy", "post"} => wconn[c] \in Clients
  /\ wpc[c] = "post" => sendRegion[wconn[c]] # None
  /\ rsp[c] > 0 => sendRegion[c] # None

WakeInv    == \A c \in Clients : WakeOK(c)
ThreadsInv == \A c \in Clients : ThreadsOK(c)
EventsInv  == \A c \in Clients : EventsOK(c)
CountInv   == \A c \in Clients : CountOK(c)
AnswerInv  == \A c \in Clients : AnswerOK(c)

(* What queueing an event at a client does to its channel.                 *)
LEMMA Told ==
  ASSUME TypeInv, NEW c \in Clients, NEW t \in CliEventTypes, TellClient(c, t),
         NEW d \in Clients
  PROVE  /\ d # c => cliEvents'[d] = cliEvents[d]
         /\ d = c => /\ Len(cliEvents'[d]) = Len(cliEvents[d]) + 1
                     /\ cliEvents'[d][Len(cliEvents[d]) + 1] = t
                     /\ \A i \in 1 .. Len(cliEvents[d]) :
                          cliEvents'[d][i] = cliEvents[d][i]
         /\ Len(cliEvents[d]) \in Nat
<1>1. cliEvents \in [Clients -> Seq(CliEventTypes)]
  BY DEF TypeInv, TypeOK, CmTypeOK
<1>2. /\ d # c => cliEvents'[d] = cliEvents[d]
      /\ d = c => cliEvents'[d] = Append(cliEvents[d], t)
  BY <1>1 DEF TellClient
<1>3. cliEvents[d] \in Seq(CliEventTypes)
  BY <1>1
<1>4. ASSUME NEW s \in Seq(CliEventTypes)
      PROVE  /\ Len(Append(s, t)) = Len(s) + 1 /\ Len(s) \in Nat
             /\ Append(s, t)[Len(s) + 1] = t
             /\ \A i \in 1 .. Len(s) : Append(s, t)[i] = s[i]
  OBVIOUS
<1>5. CASE d # c
  BY <1>2, <1>3, <1>5
<1>6. CASE d = c
  <2>1. cliEvents'[d] = Append(cliEvents[d], t)
    BY <1>2, <1>6
  <2> HIDE <1>1
  <2> QED BY <1>3, <1>4, <1>6, <2>1
<1> QED BY <1>5, <1>6

(* What taking an event off a client's channel does to it.                 *)
LEMMA Got ==
  ASSUME TypeInv, NEW c \in Clients, NEW types, GetsEvent(c, types),
         NEW d \in Clients
  PROVE  /\ cpc[c] = "loop" /\ cliEvents[c][1] \in types
         /\ Len(cliEvents[c]) > 0
         /\ d # c => cliEvents'[d] = cliEvents[d]
         /\ d = c => /\ Len(cliEvents'[d]) = Len(cliEvents[d]) - 1
                     /\ \A i \in 1 .. Len(cliEvents[d]) - 1 :
                          cliEvents'[d][i] = cliEvents[d][i + 1]
         /\ Len(cliEvents[d]) \in Nat
<1>1. cliEvents \in [Clients -> Seq(CliEventTypes)]
  BY DEF TypeInv, TypeOK, CmTypeOK
<1>2. /\ d # c => cliEvents'[d] = cliEvents[d]
      /\ d = c => cliEvents'[d] = Tail(cliEvents[d])
      /\ cpc[c] = "loop" /\ cliEvents[c] # << >> /\ Head(cliEvents[c]) \in types
  BY <1>1 DEF GetsEvent
<1>3. cliEvents[d] \in Seq(CliEventTypes) /\ cliEvents[c] \in Seq(CliEventTypes)
  BY <1>1
<1>4. Len(cliEvents[c]) > 0 /\ Head(cliEvents[c]) = cliEvents[c][1]
  BY <1>2, <1>3
<1>5. ASSUME d = c
      PROVE  /\ Len(cliEvents'[d]) = Len(cliEvents[d]) - 1
             /\ \A i \in 1 .. Len(cliEvents[d]) - 1 :
                  cliEvents'[d][i] = cliEvents[d][i + 1]
  <2>1. cliEvents'[d] = Tail(cliEvents[d]) /\ cliEvents[d] # << >>
    BY <1>2, <1>5
  <2> HIDE <1>1
  <2> QED BY <1>3, <2>1
<1>6. Len(cliEvents[d]) \in Nat
  BY <1>3
<1> QED BY <1>2, <1>4, <1>5, <1>6

(* Arithmetic that is proved of a number, then used of a length.           *)
LEMMA OneLeft == ASSUME NEW n \in Nat, n > 0, n <= 1 PROVE n = 1
OBVIOUS

(* The first event tells where the connection is.                          *)
LEMMA Expected ==
  ASSUME TypeInv, EventsInv, NEW c \in Clients, Len(cliEvents[c]) > 0
  PROVE  /\ cm[c] \in {"addr_done", "route_done"} \/ cm[c] \notin Before
         /\ cliEvents[c][1] = "ADDR_RESOLVED" =>
              cm[c] = "addr_done" /\ Len(cliEvents[c]) = 1
         /\ cliEvents[c][1] = "ROUTE_RESOLVED" =>
              cm[c] = "route_done" /\ Len(cliEvents[c]) = 1
         /\ cliEvents[c][1] \in {"ESTABLISHED", "DISCONNECTED"} =>
              cm[c] \notin Before
         /\ cliEvents[c][1] = "ESTABLISHED" => req[c] = "none"
<1>0. Len(cliEvents[c]) \in Nat
  BY DEF TypeInv, TypeOK, CmTypeOK
<1>1. EventsOK(c) /\ Len(cliEvents[c]) \in Nat
  BY <1>0 DEF EventsInv
<1>2. 1 \in 1 .. Len(cliEvents[c])
  BY <1>1
<1>3. Len(cliEvents[c]) # 0
  OBVIOUS
<1>4. CASE cm[c] = "addr_done"
  <2>1. Len(cliEvents[c]) <= 1
    BY <1>1, <1>4 DEF EventsOK
  <2>2. cliEvents[c][1] \in {"ADDR_RESOLVED", "ADDR_ERROR"}
    BY <1>1, <1>2, <1>4 DEF EventsOK
  <2>3. Len(cliEvents[c]) = 1
    BY <1>0, <2>1, OneLeft
  <2> QED BY <1>4, <2>2, <2>3 DEF Before, Early
<1>5. CASE cm[c] = "route_done"
  <2>1. Len(cliEvents[c]) <= 1
    BY <1>1, <1>5 DEF EventsOK
  <2>2. cliEvents[c][1] \in {"ROUTE_RESOLVED", "ROUTE_ERROR"}
    BY <1>1, <1>2, <1>5 DEF EventsOK
  <2>3. Len(cliEvents[c]) = 1
    BY <1>0, <2>1, OneLeft
  <2> QED BY <1>5, <2>2, <2>3 DEF Before, Early
<1>6. CASE cm[c] \in Before \ {"addr_done", "route_done"}
  BY <1>1, <1>3, <1>6 DEF EventsOK
<1>7. CASE cm[c] \notin Before
  <2>1. /\ cliEvents[c][1] \notin {"ADDR_RESOLVED", "ROUTE_RESOLVED"}
        /\ cliEvents[c][1] = "ESTABLISHED" => req[c] = "none"
    BY <1>1, <1>2, <1>7 DEF EventsOK
  <2> QED BY <1>7, <2>1
<1> QED BY <1>4, <1>5, <1>6, <1>7

(* The steps that move a poller or touch its CQ.                           *)
LEMMA WakeFrame ==
  ASSUME [Next]_vars
  PROVE  \/ \E c \in Clients : \/ ClientCrash(c) \/ OnAddrResolved(c)
                                \/ ClientOnDisconnect(c) \/ OnUnknownEvent(c)
                                \/ ClientExit(c) \/ PollerGetEvent(c)
                                \/ PollerReqNotify(c) \/ PollerPoll(c)
                                \/ PollerOnCompletion(c) \/ AckRequest(c)
                                \/ FailRequest(c) \/ DeliverResponse(c)
         \/ UNCHANGED <<ppc, ccq>>
<1> USE DEF clientVars
<1>1. ASSUME NEW c \in Clients, Launch(c) PROVE UNCHANGED <<ppc, ccq>>
  BY <1>1 DEF Launch
<1>2. ASSUME NEW c \in Clients, ClientMain(c)
      PROVE  \/ OnAddrResolved(c)
             \/ ClientOnDisconnect(c)
             \/ OnUnknownEvent(c)
             \/ ClientExit(c)
             \/ UNCHANGED <<ppc, ccq>>
  BY <1>2 DEF ClientMain, OnRouteResolved, GetsEvent, OnConnectionReqSock
<1>3. ASSUME NEW c \in Clients, CmStep(c)
      PROVE  UNCHANGED <<ppc, ccq>>
  BY <1>3 DEF CmStep
<1>4. ASSUME NEW c \in Clients, Adapter(c)
      PROVE  \/ AckRequest(c)
             \/ FailRequest(c)
             \/ DeliverResponse(c)
             \/ UNCHANGED <<ppc, ccq>>
  BY <1>4 DEF Adapter, DeliverRequest, ServerCompletes, FailResponse
<1>5. ASSUME NEW c \in Clients, Worker(c)
      PROVE  UNCHANGED <<ppc, ccq>>
  BY <1>5 DEF Worker, WorkerStart, WorkerCopy, WorkerPost
<1>6. ASSUME ServerThread
      PROVE  UNCHANGED <<ppc, ccq>>
  BY <1>6 DEF ServerThread, ServerGetEvent, OnConnectRequest,
     ServerBuildContext, ServerPostReceives, ServerGetCqEvent,
     ServerReqNotify, ServerPoll, SocketConnect, ConnectsSocket, SocketSend,
     SocketRead, OnEstablished, ClientThreadInit, OnDisconnect,
     FreeConnection, OnUnknown
<1>7. ASSUME ProxyAnswers PROVE UNCHANGED <<ppc, ccq>>
  BY <1>7 DEF ProxyAnswers
<1>8. ASSUME CmFault PROVE UNCHANGED <<ppc, ccq>>
  BY <1>8 DEF CmFault
<1>9. CASE UNCHANGED vars
  BY <1>9 DEF vars
<1> QED BY <1>1, <1>2, <1>3, <1>4, <1>5, <1>6, <1>7, <1>8, <1>9 DEF Next,
       Poller

(* Every step keeps WakeInv.                                               *)
LEMMA WakeStep ==
  ASSUME TypeInv, WakeInv, [Next]_vars PROVE WakeInv'
<1> SUFFICES ASSUME NEW d \in Clients PROVE WakeOK(d)'
  BY DEF WakeInv
<1>0. /\ ppc \in [Clients -> PollerPcs] /\ WakeOK(d)
      /\ ccq \in [Clients -> CompletionQueues(ClientWcs)]
  BY DEF TypeInv, TypeOK, ClientTypeOK, WakeInv
<1> USE <1>0
<1> USE DEF WakeOK, CompletionQueues
<1>1. ASSUME NEW c \in Clients, ClientCrash(c) PROVE WakeOK(d)'
  BY <1>1 DEF ClientCrash, Die
<1>2. ASSUME NEW c \in Clients, OnAddrResolved(c) PROVE WakeOK(d)'
  BY <1>2 DEF OnAddrResolved, GetsEvent, ClientBuildContext,
     ClientPostReceives, NewCq
<1>3. ASSUME NEW c \in Clients, ClientOnDisconnect(c) PROVE WakeOK(d)'
  BY <1>3 DEF ClientOnDisconnect, GetsEvent, Flush
<1>4. ASSUME NEW c \in Clients, OnUnknownEvent(c) PROVE WakeOK(d)'
  BY <1>4 DEF OnUnknownEvent, GetsEvent, Die
<1>5. ASSUME NEW c \in Clients, ClientExit(c) PROVE WakeOK(d)'
  BY <1>5 DEF ClientExit
<1>6. ASSUME NEW c \in Clients, PollerGetEvent(c) PROVE WakeOK(d)'
  BY <1>6 DEF PollerGetEvent, TakeEvent
<1>7. ASSUME NEW c \in Clients, PollerReqNotify(c) PROVE WakeOK(d)'
  BY <1>7 DEF PollerReqNotify, Arm
<1>8. ASSUME NEW c \in Clients, PollerPoll(c) PROVE WakeOK(d)'
  <2>1. CASE HasCompletion(ccq[c])
    <3>1. /\ Poll(ccq[c]).armed = ccq[c].armed
          /\ Poll(ccq[c]).events = ccq[c].events
      BY DEF Poll
    <3>2. /\ ppc' = [ppc EXCEPT ![c] = "handle"]
          /\ ccq' = [ccq EXCEPT ![c] = Poll(ccq[c])]
          /\ ppc[c] = "poll"
      BY <2>1, <1>8 DEF PollerPoll
    <3> QED BY <3>1, <3>2
  <2>2. CASE ~HasCompletion(ccq[c])
    BY <2>2, <1>8 DEF PollerPoll, HasCompletion
  <2> QED BY <2>1, <2>2
<1>9. ASSUME NEW c \in Clients, PollerOnCompletion(c) PROVE WakeOK(d)'
  BY <1>9 DEF PollerOnCompletion, RdmaDisconnect, Die
<1>10. ASSUME NEW c \in Clients, AckRequest(c) PROVE WakeOK(d)'
  BY <1>10 DEF AckRequest, Complete
<1>11. ASSUME NEW c \in Clients, FailRequest(c) PROVE WakeOK(d)'
  BY <1>11 DEF FailRequest, Complete
<1>12. ASSUME NEW c \in Clients, DeliverResponse(c) PROVE WakeOK(d)'
  BY <1>12 DEF DeliverResponse, ServerCompletes, Complete
<1>13. CASE UNCHANGED <<ppc, ccq>>
  BY <1>13
<1> QED BY WakeFrame, <1>1, <1>2, <1>3, <1>4, <1>5, <1>6, <1>7, <1>8, <1>9,
       <1>10, <1>11, <1>12, <1>13

(* The steps that move a client's threads, connection or receive buffer.   *)
LEMMA ThreadsFrame ==
  ASSUME [Next]_vars
  PROVE  \/ \E c \in Clients : \/ Launch(c) \/ ClientCrash(c) \/ OnAddrResolved(c)
                                \/ OnRouteResolved(c) \/ ClientOnDisconnect(c)
                                \/ OnUnknownEvent(c) \/ ClientExit(c)
                                \/ PollerGetEvent(c) \/ PollerReqNotify(c)
                                \/ PollerPoll(c) \/ PollerOnCompletion(c)
                                \/ DeliverResponse(c) \/ CmStep(c)
         \/ OnConnectRequest
         \/ UNCHANGED <<cm, cpc, ppc, cconn, crecv, cregion>>
<1> USE DEF cmVars, clientVars
<1>1. ASSUME NEW c \in Clients, ClientMain(c)
      PROVE  \/ OnAddrResolved(c)
             \/ OnRouteResolved(c)
             \/ ClientOnDisconnect(c)
             \/ OnUnknownEvent(c)
             \/ ClientExit(c)
             \/ UNCHANGED <<cm, cpc, ppc, cconn, crecv, cregion>>
  BY <1>1 DEF ClientMain, OnConnectionReqSock, GetsEvent
<1>2. ASSUME NEW c \in Clients, Adapter(c)
      PROVE  \/ DeliverResponse(c)
             \/ UNCHANGED <<cm, cpc, ppc, cconn, crecv, cregion>>
  BY <1>2 DEF Adapter, DeliverRequest, ServerCompletes, AckRequest,
     FailRequest, FailResponse
<1>3. ASSUME NEW c \in Clients, Worker(c)
      PROVE  UNCHANGED <<cm, cpc, ppc, cconn, crecv, cregion>>
  BY <1>3 DEF Worker, WorkerStart, WorkerCopy, WorkerPost
<1>4. ASSUME ServerThread
      PROVE  \/ OnConnectRequest
             \/ UNCHANGED <<cm, cpc, ppc, cconn, crecv, cregion>>
  BY <1>4 DEF ServerThread, ServerGetEvent, ServerGetCqEvent,
     ServerReqNotify, ServerPoll, SocketConnect, ConnectsSocket, SocketSend,
     SocketRead, OnEstablished, ClientThreadInit, OnDisconnect,
     FreeConnection, OnUnknown
<1>5. ASSUME ProxyAnswers PROVE UNCHANGED <<cm, cpc, ppc, cconn, crecv, cregion>>
  BY <1>5 DEF ProxyAnswers
<1>6. ASSUME CmFault PROVE UNCHANGED <<cm, cpc, ppc, cconn, crecv, cregion>>
  BY <1>6 DEF CmFault, CmDeviceRemoval, TellServer
<1>7. CASE UNCHANGED vars
  BY <1>7 DEF vars
<1> QED BY <1>1, <1>2, <1>3, <1>4, <1>5, <1>6, <1>7 DEF Next, Poller

(* Every step keeps ThreadsInv.                                            *)
LEMMA ThreadsStep ==
  ASSUME TypeInv, ThreadsInv, EventsInv, [Next]_vars PROVE ThreadsInv'
<1> SUFFICES ASSUME NEW d \in Clients PROVE ThreadsOK(d)'
  BY DEF ThreadsInv
<1>0. /\ cpc \in [Clients -> ClientPcs] /\ ppc \in [Clients -> PollerPcs]
      /\ cm \in [Clients -> CmStates]
      /\ cconn \in [Clients -> {"none", "live", "freed"}]
      /\ crecv \in [Clients -> BOOLEAN] /\ cregion \in [Clients -> Data]
      /\ ThreadsOK(d) /\ EventsOK(d)
  BY DEF TypeInv, TypeOK, ClientTypeOK, CmTypeOK, ThreadsInv, EventsInv
<1> USE <1>0
<1> USE DEF ThreadsOK, EventsOK, Early, Before, Ended
<1>1. ASSUME NEW c \in Clients, Launch(c) PROVE ThreadsOK(d)'
  BY <1>1 DEF Launch, cmVars, clientVars
<1>2. ASSUME NEW c \in Clients, ClientCrash(c) PROVE ThreadsOK(d)'
  BY <1>2 DEF ClientCrash, Die, cmVars, clientVars
<1>3. ASSUME NEW c \in Clients, OnAddrResolved(c) PROVE ThreadsOK(d)'
  <2>1. GetsEvent(c, {"ADDR_RESOLVED"})
    BY <1>3 DEF OnAddrResolved
  <2>2. /\ cm[c] \in {"addr_done", "route_done"} \/ cm[c] \notin Before
        /\ cm[c] = "addr_done" /\ Len(cliEvents[c]) = 1
    BY <2>1, Got, Expected
  <2> QED
    BY <1>3, <2>1, <2>2, Got DEF OnAddrResolved, ClientBuildContext,
       ClientPostReceives, cmVars, clientVars
<1>4. ASSUME NEW c \in Clients, OnRouteResolved(c) PROVE ThreadsOK(d)'
  <2>1. GetsEvent(c, {"ROUTE_RESOLVED"})
    BY <1>4 DEF OnRouteResolved
  <2>2. /\ cm[c] \in {"addr_done", "route_done"} \/ cm[c] \notin Before
        /\ cm[c] = "route_done" /\ Len(cliEvents[c]) = 1
    BY <2>1, Got, Expected
  <2> QED
    BY <1>4, <2>1, <2>2, Got DEF OnRouteResolved, cmVars, clientVars
<1>5. ASSUME NEW c \in Clients, ClientOnDisconnect(c) PROVE ThreadsOK(d)'
  <2>1. GetsEvent(c, {"DISCONNECTED"})
    BY <1>5 DEF ClientOnDisconnect
  <2>2. /\ cm[c] \in {"addr_done", "route_done"} \/ cm[c] \notin Before
        /\ cm[c] \notin Before
    BY <2>1, Got, Expected
  <2> QED
    BY <1>5, <2>1, <2>2, Got DEF ClientOnDisconnect, cmVars, clientVars
<1>6. ASSUME NEW c \in Clients, OnUnknownEvent(c) PROVE ThreadsOK(d)'
  <2>1. GetsEvent(c, {"ADDR_ERROR", "ROUTE_ERROR", "REJECTED", "UNREACHABLE"})
    BY <1>6 DEF OnUnknownEvent
  <2>2. /\ cm[c] \in {"addr_done", "route_done"} \/ cm[c] \notin Before
        /\ cpc[c] = "loop"
    BY <2>1, Got, Expected
  <2> QED
    BY <1>6, <2>1, <2>2, Got DEF OnUnknownEvent, Die, cmVars, clientVars
<1>7. ASSUME NEW c \in Clients, ClientExit(c) PROVE ThreadsOK(d)'
  BY <1>7 DEF ClientExit, cmVars, clientVars
<1>8. ASSUME NEW c \in Clients, PollerGetEvent(c) PROVE ThreadsOK(d)'
  BY <1>8 DEF PollerGetEvent, cmVars, clientVars
<1>9. ASSUME NEW c \in Clients, PollerReqNotify(c) PROVE ThreadsOK(d)'
  BY <1>9 DEF PollerReqNotify, cmVars, clientVars
<1>10. ASSUME NEW c \in Clients, PollerPoll(c) PROVE ThreadsOK(d)'
  BY <1>10 DEF PollerPoll, cmVars, clientVars
<1>11. ASSUME NEW c \in Clients, PollerOnCompletion(c) PROVE ThreadsOK(d)'
  BY <1>11 DEF PollerOnCompletion, RdmaDisconnect, Die, cmVars, clientVars
<1>12. ASSUME NEW c \in Clients, CmStep(c), CmAddr(c) PROVE ThreadsOK(d)'
  BY <1>12 DEF CmAddr, TellClient, CmStep, cmVars, clientVars
<1>13. ASSUME NEW c \in Clients, CmStep(c), CmRoute(c) PROVE ThreadsOK(d)'
  BY <1>13 DEF CmRoute, TellClient, CmStep, cmVars, clientVars
<1>14. ASSUME NEW c \in Clients, CmStep(c), CmRequest(c) PROVE ThreadsOK(d)'
  BY <1>14 DEF CmRequest, TellServer, CmStep, cmVars, clientVars
<1>15. ASSUME NEW c \in Clients, CmStep(c), CmReply(c) PROVE ThreadsOK(d)'
  BY <1>15 DEF CmReply, TellClient, CmStep, cmVars, clientVars
<1>16. ASSUME NEW c \in Clients, CmStep(c), CmRtu(c) PROVE ThreadsOK(d)'
  BY <1>16 DEF CmRtu, TellServer, CmStep, cmVars, clientVars
<1>17. ASSUME NEW c \in Clients, CmStep(c), CmDreq(c) PROVE ThreadsOK(d)'
  BY <1>17 DEF CmDreq, TellServer, CmStep, cmVars, clientVars
<1>18. ASSUME NEW c \in Clients, CmStep(c), CmDrep(c) PROVE ThreadsOK(d)'
  BY <1>18 DEF CmDrep, TellClient, CmStep, cmVars, clientVars
<1>19. ASSUME NEW c \in Clients, CmStep(c), CmServerGone(c) PROVE ThreadsOK(d)'
  BY <1>19 DEF CmServerGone, TellClient, CmStep, cmVars, clientVars
<1>20. ASSUME NEW c \in Clients, CmStep(c), CmClientGone(c) PROVE ThreadsOK(d)'
  BY <1>20 DEF CmClientGone, TellServer, CmStep, cmVars, clientVars
<1>21. ASSUME NEW c \in Clients, CmStep(c), CmTimeout(c) PROVE ThreadsOK(d)'
  BY <1>21 DEF CmTimeout, TellClient, CmStep, cmVars, clientVars
<1>22. ASSUME NEW c \in Clients, DeliverResponse(c) PROVE ThreadsOK(d)'
  BY <1>22 DEF DeliverResponse, ClientQpReady, ServerCompletes, cmVars,
     clientVars
<1>23. ASSUME OnConnectRequest PROVE ThreadsOK(d)'
  BY <1>23 DEF OnConnectRequest, ServerBuildContext, ServerPostReceives,
     cmVars, clientVars
<1>24. CASE UNCHANGED <<cm, cpc, ppc, cconn, crecv, cregion>>
  BY <1>24
<1> QED BY ThreadsFrame, <1>1, <1>2, <1>3, <1>4, <1>5, <1>6, <1>7, <1>8,
       <1>9, <1>10, <1>11, <1>12, <1>13, <1>14, <1>15, <1>16, <1>17, <1>18,
       <1>19, <1>20, <1>21, <1>22, <1>23, <1>24 DEF CmStep

(* The steps that move a connection, its event channel or the request.     *)
LEMMA EventsFrame ==
  ASSUME [Next]_vars
  PROVE  \/ \E c \in Clients : \/ Launch(c) \/ OnAddrResolved(c)
                                \/ OnRouteResolved(c) \/ OnConnectionReqSock(c)
                                \/ ClientOnDisconnect(c) \/ OnUnknownEvent(c)
                                \/ PollerOnCompletion(c) \/ DeliverRequest(c)
                                \/ AckRequest(c) \/ FailRequest(c) \/ CmStep(c)
         \/ OnConnectRequest
         \/ UNCHANGED <<cm, cliEvents, req>>
<1> USE DEF cmVars, netVars
<1>1. ASSUME NEW c \in Clients, ClientCrash(c) PROVE UNCHANGED <<cm, cliEvents, req>>
  BY <1>1 DEF ClientCrash, Die
<1>2. ASSUME NEW c \in Clients, ClientMain(c)
      PROVE  \/ OnAddrResolved(c)
             \/ OnRouteResolved(c)
             \/ OnConnectionReqSock(c)
             \/ ClientOnDisconnect(c)
             \/ OnUnknownEvent(c)
             \/ UNCHANGED <<cm, cliEvents, req>>
  BY <1>2 DEF ClientMain, ClientExit
<1>3. ASSUME NEW c \in Clients, Poller(c)
      PROVE  \/ PollerOnCompletion(c)
             \/ UNCHANGED <<cm, cliEvents, req>>
  BY <1>3 DEF Poller, PollerGetEvent, PollerReqNotify, PollerPoll
<1>4. ASSUME NEW c \in Clients, Adapter(c)
      PROVE  \/ DeliverRequest(c)
             \/ AckRequest(c)
             \/ FailRequest(c)
             \/ UNCHANGED <<cm, cliEvents, req>>
  BY <1>4 DEF Adapter, DeliverResponse, ServerCompletes, FailResponse
<1>5. ASSUME NEW c \in Clients, Worker(c)
      PROVE  UNCHANGED <<cm, cliEvents, req>>
  BY <1>5 DEF Worker, WorkerStart, WorkerCopy, WorkerPost
<1>6. ASSUME ServerThread
      PROVE  \/ OnConnectRequest
             \/ UNCHANGED <<cm, cliEvents, req>>
  BY <1>6 DEF ServerThread, ServerGetEvent, ServerGetCqEvent,
     ServerReqNotify, ServerPoll, SocketConnect, ConnectsSocket, SocketSend,
     SocketRead, OnEstablished, ClientThreadInit, OnDisconnect,
     FreeConnection, OnUnknown
<1>7. ASSUME ProxyAnswers PROVE UNCHANGED <<cm, cliEvents, req>>
  BY <1>7 DEF ProxyAnswers
<1>8. ASSUME CmFault PROVE UNCHANGED <<cm, cliEvents, req>>
  BY <1>8 DEF CmFault, CmDeviceRemoval, TellServer
<1>9. CASE UNCHANGED vars
  BY <1>9 DEF vars
<1> QED BY <1>1, <1>2, <1>3, <1>4, <1>5, <1>6, <1>7, <1>8, <1>9 DEF Next

(* Every step keeps EventsInv.                                             *)
LEMMA EventsStep ==
  ASSUME TypeInv, ThreadsInv, EventsInv, [Next]_vars PROVE EventsInv'
<1> SUFFICES ASSUME NEW d \in Clients PROVE EventsOK(d)'
  BY DEF EventsInv
<1>0. /\ cm \in [Clients -> CmStates] /\ req \in [Clients -> ReqStates]
      /\ ThreadsOK(d) /\ EventsOK(d) /\ Len(cliEvents[d]) \in Nat
  BY DEF TypeInv, TypeOK, NetTypeOK, CmTypeOK, ThreadsInv, EventsInv
<1> USE <1>0
<1>1. ASSUME NEW c \in Clients, Launch(c) PROVE EventsOK(d)'
  BY <1>1 DEF EventsOK, ThreadsOK, Before, Early, Launch, cmVars, netVars,
     clientVars
<1>2. ASSUME NEW c \in Clients, OnAddrResolved(c) PROVE EventsOK(d)'
  <2>1. GetsEvent(c, {"ADDR_RESOLVED"})
    BY <1>2 DEF OnAddrResolved
  <2>2. /\ cm[c] = "addr_done" /\ Len(cliEvents[c]) = 1
        /\ Len(cliEvents[c]) > 0
    BY <2>1, Got, Expected
  <2>3. /\ d # c => cm'[d] = cm[d] /\ req'[d] = req[d]
        /\ cm'[c] = "resolving_route" /\ req'[c] = req[c]
    BY <1>2 DEF OnAddrResolved, ClientBuildContext, ClientPostReceives,
       cmVars, netVars, clientVars
  <2>4. CASE d # c
    <3>1. cliEvents'[d] = cliEvents[d]
      BY <2>1, <2>4, Got
    <3> QED BY <2>3, <2>4, <3>1 DEF EventsOK
  <2>5. CASE d = c
    <3>1. /\ Len(cliEvents'[c]) = Len(cliEvents[c]) - 1
          /\ \A i \in 1 .. Len(cliEvents[c]) - 1 :
               cliEvents'[c][i] = cliEvents[c][i + 1]
      BY <2>1, <2>5, Got
    <3> QED BY <2>2, <2>3, <2>5, <3>1 DEF EventsOK, Before, Early
  <2> QED BY <2>4, <2>5
<1>3. ASSUME NEW c \in Clients, OnRouteResolved(c) PROVE EventsOK(d)'
  <2>1. GetsEvent(c, {"ROUTE_RESOLVED"})
    BY <1>3 DEF OnRouteResolved
  <2>2. /\ cm[c] = "route_done" /\ Len(cliEvents[c]) = 1
        /\ Len(cliEvents[c]) > 0
    BY <2>1, Got, Expected
  <2>3. /\ d # c => cm'[d] = cm[d] /\ req'[d] = req[d]
        /\ cm'[c] = "connecting" /\ req'[c] = req[c]
    BY <1>3 DEF OnRouteResolved, cmVars, netVars, clientVars
  <2>4. CASE d # c
    <3>1. cliEvents'[d] = cliEvents[d]
      BY <2>1, <2>4, Got
    <3> QED BY <2>3, <2>4, <3>1 DEF EventsOK
  <2>5. CASE d = c
    <3>1. /\ Len(cliEvents'[c]) = Len(cliEvents[c]) - 1
          /\ \A i \in 1 .. Len(cliEvents[c]) - 1 :
               cliEvents'[c][i] = cliEvents[c][i + 1]
      BY <2>1, <2>5, Got
    <3> QED BY <2>2, <2>3, <2>5, <3>1 DEF EventsOK, Before, Early
  <2> QED BY <2>4, <2>5
<1>4. ASSUME NEW c \in Clients, OnConnectionReqSock(c) PROVE EventsOK(d)'
  <2>1. GetsEvent(c, {"ESTABLISHED"})
    BY <1>4 DEF OnConnectionReqSock
  <2>2. /\ cm[c] \notin Before /\ req[c] = "none" /\ cliEvents[c][1] = "ESTABLISHED"
        /\ Len(cliEvents[c]) > 0
    BY <2>1, Got, Expected
  <2>3. /\ d # c => cm'[d] = cm[d] /\ req'[d] = req[d]
        /\ cm'[c] = cm[c] /\ req'[c] = "posted"
    BY <1>4 DEF OnConnectionReqSock, cmVars, netVars, clientVars
  <2>4. CASE d # c
    <3>1. cliEvents'[d] = cliEvents[d]
      BY <2>1, <2>4, Got
    <3> QED BY <2>3, <2>4, <3>1 DEF EventsOK
  <2>5. CASE d = c
    <3>1. /\ Len(cliEvents'[c]) = Len(cliEvents[c]) - 1
          /\ \A i \in 1 .. Len(cliEvents[c]) - 1 :
               cliEvents'[c][i] = cliEvents[c][i + 1]
      BY <2>1, <2>5, Got
    <3> QED BY <2>2, <2>3, <2>5, <3>1 DEF EventsOK
  <2> QED BY <2>4, <2>5
<1>5. ASSUME NEW c \in Clients, ClientOnDisconnect(c) PROVE EventsOK(d)'
  <2>1. GetsEvent(c, {"DISCONNECTED"})
    BY <1>5 DEF ClientOnDisconnect
  <2>2. /\ cm[c] \notin Before
        /\ Len(cliEvents[c]) > 0
    BY <2>1, Got, Expected
  <2>3. /\ d # c => cm'[d] = cm[d] /\ req'[d] = req[d]
        /\ cm'[c] = cm[c] /\ req'[c] = req[c]
    BY <1>5 DEF ClientOnDisconnect, cmVars, netVars, clientVars
  <2>4. CASE d # c
    <3>1. cliEvents'[d] = cliEvents[d]
      BY <2>1, <2>4, Got
    <3> QED BY <2>3, <2>4, <3>1 DEF EventsOK
  <2>5. CASE d = c
    <3>1. /\ Len(cliEvents'[c]) = Len(cliEvents[c]) - 1
          /\ \A i \in 1 .. Len(cliEvents[c]) - 1 :
               cliEvents'[c][i] = cliEvents[c][i + 1]
      BY <2>1, <2>5, Got
    <3> QED BY <2>2, <2>3, <2>5, <3>1 DEF EventsOK
  <2> QED BY <2>4, <2>5
<1>6. ASSUME NEW c \in Clients, OnUnknownEvent(c) PROVE EventsOK(d)'
  <2>1. GetsEvent(c, {"ADDR_ERROR", "ROUTE_ERROR", "REJECTED", "UNREACHABLE"})
    BY <1>6 DEF OnUnknownEvent
  <2>2. /\ cpc[c] = "loop"
        /\ Len(cliEvents[c]) > 0
    BY <2>1, Got, Expected
  <2>3. /\ d # c => cm'[d] = cm[d] /\ req'[d] = req[d]
        /\ cm'[c] = cm[c] /\ req'[c] = req[c]
    BY <1>6 DEF OnUnknownEvent, Die, cmVars, netVars, clientVars
  <2>4. CASE d # c
    <3>1. cliEvents'[d] = cliEvents[d]
      BY <2>1, <2>4, Got
    <3> QED BY <2>3, <2>4, <3>1 DEF EventsOK
  <2>5. CASE d = c
    <3>1. /\ Len(cliEvents'[c]) = Len(cliEvents[c]) - 1
          /\ \A i \in 1 .. Len(cliEvents[c]) - 1 :
               cliEvents'[c][i] = cliEvents[c][i + 1]
      BY <2>1, <2>5, Got
    <3> QED BY <2>2, <2>3, <2>5, <3>1 DEF EventsOK
  <2> QED BY <2>4, <2>5
<1>7. ASSUME NEW c \in Clients, PollerOnCompletion(c) PROVE EventsOK(d)'
  BY <1>7 DEF EventsOK, ThreadsOK, Before, Early, PollerOnCompletion,
     RdmaDisconnect, Die, cmVars, netVars, clientVars
<1>8. ASSUME NEW c \in Clients, CmStep(c), CmAddr(c) PROVE EventsOK(d)'
  <2>1. PICK t \in {"ADDR_RESOLVED", "ADDR_ERROR"} : TellClient(c, t)
    BY <1>8 DEF CmAddr
  <2>2. t \in CliEventTypes
    BY DEF CliEventTypes
  <2>3. /\ d # c => cm'[d] = cm[d] /\ req'[d] = req[d]
        /\ cm[c] = "resolving_addr" /\ cm'[c] = "addr_done" /\ req'[c] = req[c]
    BY <1>8 DEF CmAddr, CmStep, netVars
  <2>4. CASE d # c
    <3>1. cliEvents'[d] = cliEvents[d]
      BY <2>1, <2>2, <2>4, Told
    <3> QED BY <2>3, <2>4, <3>1 DEF EventsOK
  <2>5. CASE d = c
    <3>1. /\ Len(cliEvents'[c]) = Len(cliEvents[c]) + 1
          /\ cliEvents'[c][Len(cliEvents[c]) + 1] = t
          /\ \A i \in 1 .. Len(cliEvents[c]) :
               cliEvents'[c][i] = cliEvents[c][i]
      BY <2>1, <2>2, <2>5, Told
    <3> QED BY <2>1, <2>3, <2>5, <3>1 DEF EventsOK, Before, Early
  <2> QED BY <2>4, <2>5
<1>9. ASSUME NEW c \in Clients, CmStep(c), CmRoute(c) PROVE EventsOK(d)'
  <2>1. PICK t \in {"ROUTE_RESOLVED", "ROUTE_ERROR"} : TellClient(c, t)
    BY <1>9 DEF CmRoute
  <2>2. t \in CliEventTypes
    BY DEF CliEventTypes
  <2>3. /\ d # c => cm'[d] = cm[d] /\ req'[d] = req[d]
        /\ cm[c] = "resolving_route" /\ cm'[c] = "route_done" /\ req'[c] = req[c]
    BY <1>9 DEF CmRoute, CmStep, netVars
  <2>4. CASE d # c
    <3>1. cliEvents'[d] = cliEvents[d]
      BY <2>1, <2>2, <2>4, Told
    <3> QED BY <2>3, <2>4, <3>1 DEF EventsOK
  <2>5. CASE d = c
    <3>1. /\ Len(cliEvents'[c]) = Len(cliEvents[c]) + 1
          /\ cliEvents'[c][Len(cliEvents[c]) + 1] = t
          /\ \A i \in 1 .. Len(cliEvents[c]) :
               cliEvents'[c][i] = cliEvents[c][i]
      BY <2>1, <2>2, <2>5, Told
    <3> QED BY <2>1, <2>3, <2>5, <3>1 DEF EventsOK, Before, Early
  <2> QED BY <2>4, <2>5
<1>10. ASSUME NEW c \in Clients, CmStep(c), CmRequest(c) PROVE EventsOK(d)'
  BY <1>10 DEF EventsOK, ThreadsOK, Before, Early, CmRequest, TellServer,
     CmStep, cmVars, netVars, clientVars
<1>11. ASSUME NEW c \in Clients, CmStep(c), CmReply(c) PROVE EventsOK(d)'
  <2>1. PICK t \in {"ESTABLISHED"} : TellClient(c, t)
    BY <1>11 DEF CmReply
  <2>2. t \in CliEventTypes
    BY DEF CliEventTypes
  <2>3. /\ d # c => cm'[d] = cm[d] /\ req'[d] = req[d]
        /\ cm[c] = "accepted" /\ cm'[c] = "connected" /\ req'[c] = req[c]
    BY <1>11 DEF CmReply, CmStep, netVars
  <2>4. CASE d # c
    <3>1. cliEvents'[d] = cliEvents[d]
      BY <2>1, <2>2, <2>4, Told
    <3> QED BY <2>3, <2>4, <3>1 DEF EventsOK
  <2>5. CASE d = c
    <3>1. /\ Len(cliEvents'[c]) = Len(cliEvents[c]) + 1
          /\ cliEvents'[c][Len(cliEvents[c]) + 1] = t
          /\ \A i \in 1 .. Len(cliEvents[c]) :
               cliEvents'[c][i] = cliEvents[c][i]
      BY <2>1, <2>2, <2>5, Told
    <3> QED BY <2>1, <2>3, <2>5, <3>1 DEF EventsOK, Before, Early
  <2> QED BY <2>4, <2>5
<1>12. ASSUME NEW c \in Clients, CmStep(c), CmRtu(c) PROVE EventsOK(d)'
  BY <1>12 DEF EventsOK, ThreadsOK, Before, Early, CmRtu, TellServer, CmStep,
     cmVars, netVars, clientVars
<1>13. ASSUME NEW c \in Clients, CmStep(c), CmDreq(c) PROVE EventsOK(d)'
  BY <1>13 DEF EventsOK, ThreadsOK, Before, Early, CmDreq, TellServer, CmStep,
     cmVars, netVars, clientVars
<1>14. ASSUME NEW c \in Clients, CmStep(c), CmDrep(c) PROVE EventsOK(d)'
  <2>1. PICK t \in {"DISCONNECTED"} : TellClient(c, t)
    BY <1>14 DEF CmDrep
  <2>2. t \in CliEventTypes
    BY DEF CliEventTypes
  <2>3. /\ d # c => cm'[d] = cm[d] /\ req'[d] = req[d]
        /\ cm[c] = "disconnected" /\ cm'[c] = "closed" /\ req'[c] = req[c]
    BY <1>14 DEF CmDrep, CmStep, netVars
  <2>4. CASE d # c
    <3>1. cliEvents'[d] = cliEvents[d]
      BY <2>1, <2>2, <2>4, Told
    <3> QED BY <2>3, <2>4, <3>1 DEF EventsOK
  <2>5. CASE d = c
    <3>1. /\ Len(cliEvents'[c]) = Len(cliEvents[c]) + 1
          /\ cliEvents'[c][Len(cliEvents[c]) + 1] = t
          /\ \A i \in 1 .. Len(cliEvents[c]) :
               cliEvents'[c][i] = cliEvents[c][i]
      BY <2>1, <2>2, <2>5, Told
    <3> QED BY <2>1, <2>3, <2>5, <3>1 DEF EventsOK, Before, Early
  <2> QED BY <2>4, <2>5
<1>15. ASSUME NEW c \in Clients, CmStep(c), CmServerGone(c) PROVE EventsOK(d)'
  <2>1. PICK t \in {"REJECTED", "UNREACHABLE", "DISCONNECTED"} : TellClient(c, t)
    BY <1>15 DEF CmServerGone
  <2>2. t \in CliEventTypes
    BY DEF CliEventTypes
  <2>3. /\ d # c => cm'[d] = cm[d] /\ req'[d] = req[d]
        /\ cm[c] \in {"connecting", "requested", "connected",
                   "disconnecting"} /\ cm'[c] = "closed" /\ req'[c] = req[c]
    BY <1>15 DEF CmServerGone, CmStep, netVars
  <2>4. CASE d # c
    <3>1. cliEvents'[d] = cliEvents[d]
      BY <2>1, <2>2, <2>4, Told
    <3> QED BY <2>3, <2>4, <3>1 DEF EventsOK
  <2>5. CASE d = c
    <3>1. /\ Len(cliEvents'[c]) = Len(cliEvents[c]) + 1
          /\ cliEvents'[c][Len(cliEvents[c]) + 1] = t
          /\ \A i \in 1 .. Len(cliEvents[c]) :
               cliEvents'[c][i] = cliEvents[c][i]
      BY <2>1, <2>2, <2>5, Told
    <3> QED BY <2>1, <2>3, <2>5, <3>1 DEF EventsOK, Before, Early
  <2> QED BY <2>4, <2>5
<1>16. ASSUME NEW c \in Clients, CmStep(c), CmClientGone(c) PROVE EventsOK(d)'
  <2>1. cliEvents' = cliEvents /\ req' = req
    BY <1>16 DEF CmClientGone, CmStep, netVars
  <2>2. \/ cm'[d] = cm[d]
        \/ cm[d] \in {"connecting", "requested", "accepted", "connected"}
           /\ cm'[d] \in {"closed", "disconnecting"}
    BY <1>16 DEF CmClientGone
  <2> QED BY <2>1, <2>2 DEF EventsOK, Before, Early
<1>17. ASSUME NEW c \in Clients, CmStep(c), CmTimeout(c) PROVE EventsOK(d)'
  <2>1. PICK t \in {"UNREACHABLE"} : TellClient(c, t)
    BY <1>17 DEF CmTimeout
  <2>2. t \in CliEventTypes
    BY DEF CliEventTypes
  <2>3. /\ d # c => cm'[d] = cm[d] /\ req'[d] = req[d]
        /\ cm[c] = "requested" /\ cm'[c] = "closed" /\ req'[c] = req[c]
    BY <1>17 DEF CmTimeout, CmStep, netVars
  <2>4. CASE d # c
    <3>1. cliEvents'[d] = cliEvents[d]
      BY <2>1, <2>2, <2>4, Told
    <3> QED BY <2>3, <2>4, <3>1 DEF EventsOK
  <2>5. CASE d = c
    <3>1. /\ Len(cliEvents'[c]) = Len(cliEvents[c]) + 1
          /\ cliEvents'[c][Len(cliEvents[c]) + 1] = t
          /\ \A i \in 1 .. Len(cliEvents[c]) :
               cliEvents'[c][i] = cliEvents[c][i]
      BY <2>1, <2>2, <2>5, Told
    <3> QED BY <2>1, <2>3, <2>5, <3>1 DEF EventsOK, Before, Early
  <2> QED BY <2>4, <2>5
<1>18. ASSUME NEW c \in Clients, DeliverRequest(c) PROVE EventsOK(d)'
  BY <1>18 DEF EventsOK, ThreadsOK, Before, Early, DeliverRequest,
     ServerCompletes, cmVars, netVars, clientVars
<1>19. ASSUME NEW c \in Clients, AckRequest(c) PROVE EventsOK(d)'
  BY <1>19 DEF EventsOK, ThreadsOK, Before, Early, AckRequest, cmVars, netVars,
     clientVars
<1>20. ASSUME NEW c \in Clients, FailRequest(c) PROVE EventsOK(d)'
  BY <1>20 DEF EventsOK, ThreadsOK, Before, Early, FailRequest, cmVars,
     netVars, clientVars
<1>21. ASSUME OnConnectRequest PROVE EventsOK(d)'
  BY <1>21 DEF EventsOK, ThreadsOK, Before, Early, OnConnectRequest,
     ServerBuildContext, ServerPostReceives, cmVars, netVars, clientVars
<1>22. CASE UNCHANGED <<cm, cliEvents, req>>
  BY <1>22 DEF EventsOK
<1> QED BY EventsFrame, <1>1, <1>2, <1>3, <1>4, <1>5, <1>6, <1>7, <1>8,
       <1>9, <1>10, <1>11, <1>12, <1>13, <1>14, <1>15, <1>16, <1>17, <1>18,
       <1>19, <1>20, <1>21, <1>22 DEF CmStep

(* The steps of the workers and of the responses they post.                *)
LEMMA AnswerFrame ==
  ASSUME [Next]_vars
  PROVE  \/ \E c \in Clients : \/ DeliverResponse(c) \/ FailResponse(c)
                                \/ WorkerStart(c) \/ WorkerCopy(c) \/ WorkerPost(c)
         \/ OnEstablished
         \/ UNCHANGED <<rsp, sendRegion, wpc, wconn>>
<1> USE DEF netVars, serverVars, workerVars
<1>1. ASSUME NEW c \in Clients, Launch(c) PROVE UNCHANGED <<rsp, sendRegion, wpc, wconn>>
  BY <1>1 DEF Launch
<1>2. ASSUME NEW c \in Clients, ClientCrash(c) PROVE UNCHANGED <<rsp, sendRegion, wpc, wconn>>
  BY <1>2 DEF ClientCrash, Die
<1>3. ASSUME NEW c \in Clients, ClientMain(c)
      PROVE  UNCHANGED <<rsp, sendRegion, wpc, wconn>>
  BY <1>3 DEF ClientMain, OnAddrResolved, GetsEvent, ClientBuildContext,
     ClientPostReceives, OnRouteResolved, OnConnectionReqSock,
     ClientOnDisconnect, OnUnknownEvent, Die, ClientExit
<1>4. ASSUME NEW c \in Clients, Poller(c)
      PROVE  UNCHANGED <<rsp, sendRegion, wpc, wconn>>
  BY <1>4 DEF Poller, PollerGetEvent, PollerReqNotify, PollerPoll,
     PollerOnCompletion, RdmaDisconnect, Die
<1>5. ASSUME NEW c \in Clients, CmStep(c)
      PROVE  UNCHANGED <<rsp, sendRegion, wpc, wconn>>
  BY <1>5 DEF CmStep
<1>6. ASSUME NEW c \in Clients, Adapter(c)
      PROVE  \/ DeliverResponse(c)
             \/ FailResponse(c)
             \/ UNCHANGED <<rsp, sendRegion, wpc, wconn>>
  BY <1>6 DEF Adapter, DeliverRequest, ServerCompletes, AckRequest,
     FailRequest
<1>7. ASSUME ServerThread
      PROVE  \/ OnEstablished
             \/ UNCHANGED <<rsp, sendRegion, wpc, wconn>>
  BY <1>7 DEF ServerThread, ServerGetEvent, OnConnectRequest,
     ServerBuildContext, ServerPostReceives, ServerGetCqEvent,
     ServerReqNotify, ServerPoll, SocketConnect, ConnectsSocket, SocketSend,
     SocketRead, OnDisconnect, FreeConnection, OnUnknown
<1>8. ASSUME ProxyAnswers PROVE UNCHANGED <<rsp, sendRegion, wpc, wconn>>
  BY <1>8 DEF ProxyAnswers
<1>9. ASSUME CmFault PROVE UNCHANGED <<rsp, sendRegion, wpc, wconn>>
  BY <1>9 DEF CmFault
<1>10. CASE UNCHANGED vars
  BY <1>10 DEF vars
<1> QED BY <1>1, <1>2, <1>3, <1>4, <1>5, <1>6, <1>7, <1>8, <1>9, <1>10 DEF
       Next, Worker

(* Every step keeps AnswerInv.                                             *)
LEMMA AnswerStep ==
  ASSUME TypeInv, AnswerInv, [Next]_vars PROVE AnswerInv'
<1> SUFFICES ASSUME NEW d \in Clients PROVE AnswerOK(d)'
  BY DEF AnswerInv
<1>0. /\ wpc \in [Clients -> WorkerPcs] /\ rsp \in [Clients -> Nat]
      /\ wconn \in [Clients -> Clients \cup {None}]
      /\ sendRegion \in [Clients -> Data]
      /\ \A e \in Clients : AnswerOK(e)
  BY DEF TypeInv, TypeOK, NetTypeOK, WorkerTypeOK, ServerTypeOK, AnswerInv
<1> USE <1>0
<1> USE DEF AnswerOK
<1>1. ASSUME NEW c \in Clients, DeliverResponse(c) PROVE AnswerOK(d)'
  BY <1>1 DEF DeliverResponse, ServerCompletes, netVars, serverVars,
     workerVars
<1>2. ASSUME NEW c \in Clients, FailResponse(c) PROVE AnswerOK(d)'
  BY <1>2 DEF FailResponse, ServerCompletes, netVars, serverVars, workerVars
<1>3. ASSUME NEW c \in Clients, WorkerStart(c) PROVE AnswerOK(d)'
  BY <1>3 DEF WorkerStart, netVars, serverVars, workerVars
<1>4. ASSUME NEW c \in Clients, WorkerCopy(c) PROVE AnswerOK(d)'
  BY <1>4 DEF WorkerCopy, netVars, serverVars, workerVars
<1>5. ASSUME NEW c \in Clients, WorkerPost(c) PROVE AnswerOK(d)'
  BY <1>5 DEF WorkerPost, netVars, serverVars, workerVars
<1>6. ASSUME OnEstablished PROVE AnswerOK(d)'
  BY <1>6 DEF OnEstablished, ClientThreadInit, netVars, serverVars, workerVars
<1>7. CASE UNCHANGED <<rsp, sendRegion, wpc, wconn>>
  BY <1>7
<1> QED BY AnswerFrame, <1>1, <1>2, <1>3, <1>4, <1>5, <1>6, <1>7

(* A flushed CQ holds no completion.                                       *)
LEMMA FlushLen ==
  ASSUME NEW W, NEW q \in CompletionQueues(W) PROVE Len(Flush(q).wcs) = 0
BY DEF CompletionQueues, Flush

(* What the counts depend on, at client d.                                 *)
Same(d) == /\ req'[d] = req[d] /\ cregion'[d] = cregion[d] /\ num'[d] = num[d]
           /\ ccq'[d] = ccq[d] /\ ppc'[d] = ppc[d] /\ pwc'[d] = pwc[d]
           /\ cconn'[d] = cconn[d] /\ cpc'[d] = cpc[d]

(* A step that leaves a client and its messages alone keeps its completions counted. *)
LEMMA SameCount == ASSUME NEW d \in Clients, Same(d), CountOK(d) PROVE CountOK(d)'
BY DEF Same, CountOK, Reported, Finished, FailureDue, Ended

(* The steps that move what CountInv relates.                              *)
LEMMA CountFrame ==
  ASSUME [Next]_vars
  PROVE  \/ \E c \in Clients : \/ Launch(c) \/ ClientCrash(c) \/ OnAddrResolved(c)
                                \/ OnConnectionReqSock(c) \/ ClientOnDisconnect(c)
                                \/ OnUnknownEvent(c) \/ ClientExit(c)
                                \/ PollerGetEvent(c) \/ PollerReqNotify(c)
                                \/ PollerPoll(c) \/ PollerOnCompletion(c)
                                \/ DeliverRequest(c) \/ AckRequest(c)
                                \/ FailRequest(c) \/ DeliverResponse(c)
         \/ UNCHANGED <<req, cpc, ppc, pwc, ccq, cconn, num, cregion>>
<1> USE DEF netVars, clientVars
<1>1. ASSUME NEW c \in Clients, ClientMain(c)
      PROVE  \/ OnAddrResolved(c)
             \/ OnConnectionReqSock(c)
             \/ ClientOnDisconnect(c)
             \/ OnUnknownEvent(c)
             \/ ClientExit(c)
             \/ UNCHANGED <<req, cpc, ppc, pwc, ccq, cconn, num, cregion>>
  BY <1>1 DEF ClientMain, OnRouteResolved, GetsEvent
<1>2. ASSUME NEW c \in Clients, CmStep(c)
      PROVE  UNCHANGED <<req, cpc, ppc, pwc, ccq, cconn, num, cregion>>
  BY <1>2 DEF CmStep
<1>3. ASSUME NEW c \in Clients, Adapter(c)
      PROVE  \/ DeliverRequest(c)
             \/ AckRequest(c)
             \/ FailRequest(c)
             \/ DeliverResponse(c)
             \/ UNCHANGED <<req, cpc, ppc, pwc, ccq, cconn, num, cregion>>
  BY <1>3 DEF Adapter, FailResponse, ServerCompletes
<1>4. ASSUME NEW c \in Clients, Worker(c)
      PROVE  UNCHANGED <<req, cpc, ppc, pwc, ccq, cconn, num, cregion>>
  BY <1>4 DEF Worker, WorkerStart, WorkerCopy, WorkerPost
<1>5. ASSUME ServerThread
      PROVE  UNCHANGED <<req, cpc, ppc, pwc, ccq, cconn, num, cregion>>
  BY <1>5 DEF ServerThread, ServerGetEvent, OnConnectRequest,
     ServerBuildContext, ServerPostReceives, ServerGetCqEvent,
     ServerReqNotify, ServerPoll, SocketConnect, ConnectsSocket, SocketSend,
     SocketRead, OnEstablished, ClientThreadInit, OnDisconnect,
     FreeConnection, OnUnknown
<1>6. ASSUME ProxyAnswers PROVE UNCHANGED <<req, cpc, ppc, pwc, ccq, cconn, num, cregion>>
  BY <1>6 DEF ProxyAnswers
<1>7. ASSUME CmFault PROVE UNCHANGED <<req, cpc, ppc, pwc, ccq, cconn, num, cregion>>
  BY <1>7 DEF CmFault
<1>8. CASE UNCHANGED vars
  BY <1>8 DEF vars
<1> QED BY <1>1, <1>2, <1>3, <1>4, <1>5, <1>6, <1>7, <1>8 DEF Next, Poller

(* Every step keeps CountInv.                                              *)
LEMMA CountStep ==
  ASSUME TypeInv, ThreadsInv, EventsInv, AnswerInv, CountInv, [Next]_vars PROVE CountInv'
<1> SUFFICES ASSUME NEW d \in Clients PROVE CountOK(d)'
  BY DEF CountInv
<1>0. /\ cpc \in [Clients -> ClientPcs] /\ ppc \in [Clients -> PollerPcs]
      /\ req \in [Clients -> ReqStates] /\ num \in [Clients -> Nat]
      /\ ccq \in [Clients -> CompletionQueues(ClientWcs)]
      /\ pwc \in [Clients -> ClientWcs \cup {NoWc}]
      /\ cconn \in [Clients -> {"none", "live", "freed"}]
      /\ cregion \in [Clients -> Data] /\ crecv \in [Clients -> BOOLEAN]
  BY DEF TypeInv, TypeOK, NetTypeOK, ClientTypeOK
<1>a. /\ CountOK(d) /\ ThreadsOK(d) /\ EventsOK(d) /\ AnswerOK(d)
  BY DEF CountInv, ThreadsInv, EventsInv, AnswerInv
<1>b. Len(ccq[d].wcs) \in Nat
  <2>1. Wc("SEND", TRUE, d) \in ClientWcs /\ ccq[d] \in CompletionQueues(ClientWcs)
    BY <1>0, WcTypes
  <2> QED BY <2>1, CqContents
<1>e. Reported(d) \in Int /\ Finished(d) \in Int
  BY <1>0, <1>b DEF Reported, Finished
<1> USE <1>0, <1>a, <1>b, <1>e
<1>1. ASSUME NEW c \in Clients, Launch(c) PROVE CountOK(d)'
  <2>1. CASE d # c
    <3>1. Same(d)
      BY <1>1, <2>1 DEF Launch, netVars, clientVars, Same
    <3> QED BY <3>1, SameCount
  <2>2. CASE d = c
    <3>1. /\ req'[c] = req[c] /\ cregion'[c] = cregion[c] /\ num'[c] = num[c]
          /\ ppc'[c] = ppc[c] /\ pwc'[c] = pwc[c] /\ cconn'[c] = cconn[c]
          /\ ccq'[c] = ccq[c] /\ cpc[c] = "idle"
      BY <1>1 DEF Launch, netVars
    <3>2. Reported(c)' = Reported(c) /\ Finished(c)' = Finished(c)
      BY <3>1 DEF Reported, Finished
    <3>3. cconn[c] = "none"
      BY <2>2, <3>1 DEF ThreadsOK, Early
    <3> QED BY <2>2, <3>1, <3>2, <3>3 DEF CountOK
  <2> QED BY <2>1, <2>2
<1>2. ASSUME NEW c \in Clients, ClientCrash(c) PROVE CountOK(d)'
  <2>1. CASE d # c
    <3>1. Same(d)
      BY <1>2, <2>1 DEF ClientCrash, Die, netVars, clientVars, cmVars, Same
    <3> QED BY <3>1, SameCount
  <2>2. CASE d = c
    <3>1. /\ req'[c] = req[c] /\ cregion'[c] = cregion[c]
          /\ num'[c] = num[c] /\ ppc'[c] = "none"
          /\ pwc'[c] = pwc[c] /\ cconn'[c] = cconn[c]
          /\ cpc'[c] = "died" /\ ccq'[c] = ccq[c]
      BY <1>2 DEF ClientCrash, Die, netVars, clientVars, cmVars
    <3>2. /\ Len(ccq'[c].wcs) = Len(ccq[c].wcs)
          /\ \A i \in 1 .. Len(ccq[c].wcs) : ccq'[c].wcs[i] = ccq[c].wcs[i]
      BY <3>1
    <3> QED BY <2>2, <3>1, <3>2 DEF CountOK, Reported, Finished, FailureDue,
           Ended
  <2> QED BY <2>1, <2>2
<1>3. ASSUME NEW c \in Clients, OnAddrResolved(c) PROVE CountOK(d)'
  <2>1. CASE d # c
    <3>1. Same(d)
      BY <1>3, <2>1 DEF OnAddrResolved, ClientBuildContext,
         ClientPostReceives, netVars, clientVars, cmVars, Same
    <3> QED BY <3>1, SameCount
  <2>2. CASE d = c
    <3>1. /\ req'[c] = req[c] /\ cregion'[c] = cregion[c]
          /\ num'[c] = 0 /\ ppc'[c] = "wait" /\ pwc'[c] = pwc[c]
          /\ cconn'[c] = "live" /\ cpc'[c] = cpc[c]
          /\ ccq'[c] = NewCq
      BY <1>3 DEF OnAddrResolved, ClientBuildContext, ClientPostReceives,
         netVars, clientVars, cmVars
    <3>2. Len(ccq'[c].wcs) = 0
      BY <3>1 DEF NewCq
    <3>3. GetsEvent(c, {"ADDR_RESOLVED"})
      BY <1>3 DEF OnAddrResolved
    <3>4. cm[c] = "addr_done"
      <4>1. Len(cliEvents[c]) > 0 /\ cliEvents[c][1] \in {"ADDR_RESOLVED"}
        BY <3>3, Got
      <4> QED BY <4>1, Expected
    <3>5. req[c] = "none"
      BY <2>2, <3>4 DEF EventsOK, Before, Early
    <3> QED BY <2>2, <3>1, <3>2, <3>5 DEF CountOK, Reported, Finished,
           FailureDue, Ended
  <2> QED BY <2>1, <2>2
<1>4. ASSUME NEW c \in Clients, OnConnectionReqSock(c) PROVE CountOK(d)'
  <2>1. CASE d # c
    <3>1. Same(d)
      BY <1>4, <2>1 DEF OnConnectionReqSock, netVars, clientVars, cmVars, Same
    <3> QED BY <3>1, SameCount
  <2>2. CASE d = c
    <3>1. /\ req'[c] = "posted" /\ cregion'[c] = cregion[c]
          /\ num'[c] = num[c] /\ ppc'[c] = ppc[c]
          /\ pwc'[c] = pwc[c] /\ cconn'[c] = cconn[c]
          /\ cpc'[c] = cpc[c] /\ ccq'[c] = ccq[c]
      BY <1>4 DEF OnConnectionReqSock, netVars, clientVars, cmVars
    <3>2. /\ Len(ccq'[c].wcs) = Len(ccq[c].wcs)
          /\ \A i \in 1 .. Len(ccq[c].wcs) : ccq'[c].wcs[i] = ccq[c].wcs[i]
      BY <3>1
    <3>3. GetsEvent(c, {"ESTABLISHED"})
      BY <1>4 DEF OnConnectionReqSock
    <3>4. req[c] = "none"
      <4>1. Len(cliEvents[c]) > 0 /\ cliEvents[c][1] \in {"ESTABLISHED"}
        BY <3>3, Got
      <4> QED BY <4>1, Expected
    <3> QED BY <2>2, <3>1, <3>2, <3>4 DEF CountOK, Reported, Finished,
           FailureDue, Ended
  <2> QED BY <2>1, <2>2
<1>5. ASSUME NEW c \in Clients, ClientOnDisconnect(c) PROVE CountOK(d)'
  <2>1. CASE d # c
    <3>1. Same(d)
      BY <1>5, <2>1 DEF ClientOnDisconnect, netVars, clientVars, cmVars, Same
    <3> QED BY <3>1, SameCount
  <2>2. CASE d = c
    <3>1. /\ req'[c] = req[c] /\ cregion'[c] = cregion[c]
          /\ num'[c] = num[c] /\ ppc'[c] = ppc[c]
          /\ pwc'[c] = pwc[c] /\ cconn'[c] = "freed"
          /\ cpc'[c] = "leaving" /\ ccq'[c] = Flush(ccq[c])
      BY <1>5 DEF ClientOnDisconnect, netVars, clientVars, cmVars
    <3>2. Len(ccq'[c].wcs) = 0
      BY <2>2, <3>1, FlushLen
    <3> QED BY <2>2, <3>1, <3>2 DEF CountOK, Reported, Finished, FailureDue,
           Ended
  <2> QED BY <2>1, <2>2
<1>6. ASSUME NEW c \in Clients, OnUnknownEvent(c) PROVE CountOK(d)'
  <2>1. CASE d # c
    <3>1. Same(d)
      BY <1>6, <2>1 DEF OnUnknownEvent, Die, netVars, clientVars, cmVars, Same
    <3> QED BY <3>1, SameCount
  <2>2. CASE d = c
    <3>1. /\ req'[c] = req[c] /\ cregion'[c] = cregion[c]
          /\ num'[c] = num[c] /\ ppc'[c] = "none"
          /\ pwc'[c] = pwc[c] /\ cconn'[c] = cconn[c]
          /\ cpc'[c] = "died" /\ ccq'[c] = ccq[c]
      BY <1>6 DEF OnUnknownEvent, Die, netVars, clientVars, cmVars
    <3>2. /\ Len(ccq'[c].wcs) = Len(ccq[c].wcs)
          /\ \A i \in 1 .. Len(ccq[c].wcs) : ccq'[c].wcs[i] = ccq[c].wcs[i]
      BY <3>1
    <3> QED BY <2>2, <3>1, <3>2 DEF CountOK, Reported, Finished, FailureDue,
           Ended
  <2> QED BY <2>1, <2>2
<1>7. ASSUME NEW c \in Clients, ClientExit(c) PROVE CountOK(d)'
  <2>1. CASE d # c
    <3>1. Same(d)
      BY <1>7, <2>1 DEF ClientExit, netVars, clientVars, cmVars, Same
    <3> QED BY <3>1, SameCount
  <2>2. CASE d = c
    <3>1. /\ req'[c] = req[c] /\ cregion'[c] = cregion[c]
          /\ num'[c] = num[c] /\ ppc'[c] = "none"
          /\ pwc'[c] = pwc[c] /\ cconn'[c] = cconn[c]
          /\ cpc'[c] = "exited" /\ ccq'[c] = ccq[c]
      BY <1>7 DEF ClientExit, netVars, clientVars, cmVars
    <3>2. /\ Len(ccq'[c].wcs) = Len(ccq[c].wcs)
          /\ \A i \in 1 .. Len(ccq[c].wcs) : ccq'[c].wcs[i] = ccq[c].wcs[i]
      BY <3>1
    <3> QED BY <2>2, <3>1, <3>2 DEF CountOK, Reported, Finished, FailureDue,
           Ended
  <2> QED BY <2>1, <2>2
<1>8. ASSUME NEW c \in Clients, PollerGetEvent(c) PROVE CountOK(d)'
  <2>1. CASE d # c
    <3>1. Same(d)
      BY <1>8, <2>1 DEF PollerGetEvent, netVars, clientVars, cmVars, Same
    <3> QED BY <3>1, SameCount
  <2>2. CASE d = c
    <3>1. /\ req'[c] = req[c] /\ cregion'[c] = cregion[c]
          /\ num'[c] = num[c] /\ ppc'[c] = "arm"
          /\ pwc'[c] = pwc[c] /\ cconn'[c] = cconn[c]
          /\ cpc'[c] = cpc[c] /\ ccq'[c] = TakeEvent(ccq[c])
          /\ ppc[c] = "wait"
      BY <1>8 DEF PollerGetEvent, netVars, clientVars, cmVars
    <3>2. /\ Len(ccq'[c].wcs) = Len(ccq[c].wcs)
          /\ \A i \in 1 .. Len(ccq[c].wcs) : ccq'[c].wcs[i] = ccq[c].wcs[i]
      BY <3>1 DEF TakeEvent
    <3> QED BY <2>2, <3>1, <3>2 DEF CountOK, Reported, Finished, FailureDue,
           Ended
  <2> QED BY <2>1, <2>2
<1>9. ASSUME NEW c \in Clients, PollerReqNotify(c) PROVE CountOK(d)'
  <2>1. CASE d # c
    <3>1. Same(d)
      BY <1>9, <2>1 DEF PollerReqNotify, netVars, clientVars, cmVars, Same
    <3> QED BY <3>1, SameCount
  <2>2. CASE d = c
    <3>1. /\ req'[c] = req[c] /\ cregion'[c] = cregion[c]
          /\ num'[c] = num[c] /\ ppc'[c] = "poll"
          /\ pwc'[c] = pwc[c] /\ cconn'[c] = cconn[c]
          /\ cpc'[c] = cpc[c] /\ ccq'[c] = Arm(ccq[c])
          /\ ppc[c] = "arm"
      BY <1>9 DEF PollerReqNotify, netVars, clientVars, cmVars
    <3>2. /\ Len(ccq'[c].wcs) = Len(ccq[c].wcs)
          /\ \A i \in 1 .. Len(ccq[c].wcs) : ccq'[c].wcs[i] = ccq[c].wcs[i]
      BY <3>1 DEF Arm
    <3> QED BY <2>2, <3>1, <3>2 DEF CountOK, Reported, Finished, FailureDue,
           Ended
  <2> QED BY <2>1, <2>2
<1>10. ASSUME NEW c \in Clients, PollerPoll(c) PROVE CountOK(d)'
  <2>1. CASE d # c
    <3>1. Same(d)
      BY <1>10, <2>1 DEF PollerPoll, netVars, clientVars, cmVars, Same
    <3> QED BY <3>1, SameCount
  <2>2. CASE d = c
    <3>1. CASE HasCompletion(ccq[c])
      <4>1. /\ req'[c] = req[c] /\ cregion'[c] = cregion[c]
            /\ num'[c] = num[c] /\ ppc'[c] = "handle"
            /\ pwc'[c] = Oldest(ccq[c]) /\ cconn'[c] = cconn[c]
            /\ cpc'[c] = cpc[c] /\ ccq'[c] = Poll(ccq[c])
            /\ ppc[c] = "poll"
        BY <1>10, <3>1 DEF PollerPoll, netVars, clientVars
      <4>2. /\ pwc'[c] = ccq[c].wcs[1]
            /\ Len(ccq'[c].wcs) = Len(ccq[c].wcs) - 1
            /\ \A i \in 1 .. Len(ccq[c].wcs) - 1 :
                 ccq'[c].wcs[i] = ccq[c].wcs[i + 1]
        BY <2>2, <3>1, <4>1, CqPoll
      <4>3. Reported(c)' = Reported(c) /\ Finished(c)' = Finished(c)
        BY <2>2, <4>1, <4>2 DEF Reported, Finished
      <4>4. ASSUME FailureDue(c) PROVE FailureDue(c)'
        <5>1. PICK i \in 1 .. Len(ccq[c].wcs) : ~ccq[c].wcs[i].ok
          BY <4>1, <4>4 DEF FailureDue
        <5>2. CASE i = 1
          BY <4>1, <4>2, <5>1, <5>2 DEF FailureDue
        <5>3. CASE i # 1
          <6>1. i - 1 \in 1 .. Len(ccq[c].wcs) - 1 /\ (i - 1) + 1 = i
            BY <2>2, <5>3
          <6>2. i - 1 \in 1 .. Len(ccq'[c].wcs) /\ ~ccq'[c].wcs[i - 1].ok
            BY <4>2, <5>1, <6>1
          <6> QED BY <6>2 DEF FailureDue
        <5> QED BY <5>2, <5>3
      <4> QED BY <2>2, <4>1, <4>3, <4>4 DEF CountOK, Ended
    <3>2. CASE ~HasCompletion(ccq[c])
      <4>1. /\ req'[c] = req[c] /\ cregion'[c] = cregion[c]
            /\ num'[c] = num[c] /\ ppc'[c] = "wait"
            /\ pwc'[c] = pwc[c] /\ cconn'[c] = cconn[c]
            /\ cpc'[c] = cpc[c] /\ ccq'[c] = ccq[c]
            /\ ppc[c] = "poll"
        BY <1>10, <3>2 DEF PollerPoll, netVars, clientVars
      <4> QED BY <2>2, <4>1
              DEF CountOK, Reported, Finished, FailureDue, Ended
    <3> QED BY <3>1, <3>2
  <2> QED BY <2>1, <2>2
<1>11. ASSUME NEW c \in Clients, PollerOnCompletion(c) PROVE CountOK(d)'
  <2>1. CASE d # c
    <3>1. Same(d)
      BY <1>11, <2>1 DEF PollerOnCompletion, RdmaDisconnect, Die, netVars,
         clientVars, cmVars, Same
    <3> QED BY <3>1, SameCount
  <2>2. CASE d = c
    <3>1. /\ req'[c] = req[c] /\ cregion'[c] = cregion[c]
          /\ pwc'[c] = pwc[c] /\ cconn'[c] = cconn[c]
          /\ ccq'[c] = ccq[c]
          /\ ppc[c] = "handle"
      BY <1>11 DEF PollerOnCompletion, netVars, clientVars
    <3>2. \/ /\ ppc'[c] = "none" /\ cpc'[c] = "died" /\ num'[c] = num[c]
          \/ /\ ppc'[c] = "poll" /\ cpc'[c] = cpc[c]
             /\ pwc[c].ok /\ cconn[c] = "live" /\ num'[c] = num[c] + 1
          \/ /\ ppc'[c] = "poll" /\ cpc'[c] = cpc[c]
             /\ cconn[c] # "live" /\ num'[c] = num[c]
      BY <1>11 DEF PollerOnCompletion, Die
    <3>3. Reported(c)' <= Reported(c) /\ Finished(c)' = Finished(c)
      BY <2>2, <3>1, <3>2 DEF Reported, Finished
    <3>4. Reported(c)' <= Finished(c)'
      <4> HIDE DEF Reported, Finished
      <4>1. Reported(c)' \in Int
        BY <2>2, <3>1, <3>2 DEF Reported
      <4> QED BY <2>2, <3>3, <4>1 DEF CountOK
    <3>5. req'[c] = "failed" /\ cconn'[c] = "live" /\ ~Ended(c)'
            => FailureDue(c)'
      BY <2>2, <3>1, <3>2 DEF CountOK, FailureDue, Ended
    <3> QED BY <2>2, <3>4, <3>5 DEF CountOK
  <2> QED BY <2>1, <2>2
<1>12. ASSUME NEW c \in Clients, DeliverRequest(c) PROVE CountOK(d)'
  <2>1. CASE d # c
    <3>1. Same(d)
      BY <1>12, <2>1 DEF DeliverRequest, ServerCompletes, clientVars, Same
    <3> QED BY <3>1, SameCount
  <2>2. CASE d = c
    <3>1. /\ req[c] = "posted" /\ req'[c] = "delivered"
          /\ UNCHANGED <<cregion, num, ccq, ppc, pwc, cconn, cpc>>
      BY <1>12 DEF DeliverRequest, clientVars
    <3> QED BY <2>2, <3>1
            DEF CountOK, Reported, Finished, FailureDue, Ended
  <2> QED BY <2>1, <2>2
<1>13. ASSUME NEW c \in Clients, AckRequest(c) PROVE CountOK(d)'
  <2>1. CASE d # c
    <3>1. Same(d)
      BY <1>13, <2>1 DEF AckRequest, netVars, clientVars, cmVars, Same
    <3> QED BY <3>1, SameCount
  <2>2. CASE d = c
    <3>1. /\ req'[c] = "acked" /\ cregion'[c] = cregion[c]
          /\ num'[c] = num[c] /\ ppc'[c] = ppc[c]
          /\ pwc'[c] = pwc[c] /\ cconn'[c] = cconn[c]
          /\ cpc'[c] = cpc[c]
          /\ req[c] = "delivered"
      BY <1>13 DEF AckRequest, netVars, clientVars, cmVars
    <3>2. CASE cconn[c] = "live"
      <4>1. ccq'[c] = Complete(ccq[c], Wc("SEND", TRUE, c))
        BY <1>13, <3>2 DEF AckRequest
      <4>2. /\ Len(ccq'[c].wcs) = Len(ccq[c].wcs) + 1
            /\ ccq'[c].wcs[Len(ccq[c].wcs) + 1] = Wc("SEND", TRUE, c)
            /\ \A i \in 1 .. Len(ccq[c].wcs) : ccq'[c].wcs[i] = ccq[c].wcs[i]
        <5> DEFINE w == Wc("SEND", TRUE, c)
        <5>1. w \in ClientWcs /\ ccq[c] \in CompletionQueues(ClientWcs)
          BY WcTypes
        <5> HIDE DEF w
        <5>2. /\ Len(Complete(ccq[c], w).wcs) = Len(ccq[c].wcs) + 1
              /\ Complete(ccq[c], w).wcs[Len(ccq[c].wcs) + 1] = w
              /\ \A i \in 1 .. Len(ccq[c].wcs) :
                   Complete(ccq[c], w).wcs[i] = ccq[c].wcs[i]
          BY <5>1, CqContents
        <5>3. ccq'[c] = Complete(ccq[c], w)
          BY <4>1 DEF w
        <5> QED BY <5>2, <5>3 DEF w
      <4> QED
        BY <2>2, <3>1, <3>2, <4>2 DEF CountOK, Reported, Finished, FailureDue,
           Ended, Wc
    <3>3. CASE cconn[c] # "live"
      <4>1. ccq'[c] = ccq[c]
        BY <1>13, <3>3 DEF AckRequest
      <4> QED
        BY <2>2, <3>1, <3>3, <4>1 DEF CountOK, Reported, Finished, FailureDue,
           Ended
    <3> QED BY <3>2, <3>3
  <2> QED BY <2>1, <2>2
<1>14. ASSUME NEW c \in Clients, FailRequest(c) PROVE CountOK(d)'
  <2>1. CASE d # c
    <3>1. Same(d)
      BY <1>14, <2>1 DEF FailRequest, netVars, clientVars, cmVars, Same
    <3> QED BY <3>1, SameCount
  <2>2. CASE d = c
    <3>1. /\ req'[c] = "failed" /\ cregion'[c] = cregion[c]
          /\ num'[c] = num[c] /\ ppc'[c] = ppc[c]
          /\ pwc'[c] = pwc[c] /\ cconn'[c] = cconn[c]
          /\ cpc'[c] = cpc[c]
          /\ req[c] = "posted"
      BY <1>14 DEF FailRequest, netVars, clientVars, cmVars
    <3>2. CASE cconn[c] = "live"
      <4>1. ccq'[c] = Complete(ccq[c], Wc("SEND", FALSE, c))
        BY <1>14, <3>2 DEF FailRequest
      <4>2. /\ Len(ccq'[c].wcs) = Len(ccq[c].wcs) + 1
            /\ ccq'[c].wcs[Len(ccq[c].wcs) + 1] = Wc("SEND", FALSE, c)
            /\ \A i \in 1 .. Len(ccq[c].wcs) : ccq'[c].wcs[i] = ccq[c].wcs[i]
        <5> DEFINE w == Wc("SEND", FALSE, c)
        <5>1. w \in ClientWcs /\ ccq[c] \in CompletionQueues(ClientWcs)
          BY WcTypes
        <5> HIDE DEF w
        <5>2. /\ Len(Complete(ccq[c], w).wcs) = Len(ccq[c].wcs) + 1
              /\ Complete(ccq[c], w).wcs[Len(ccq[c].wcs) + 1] = w
              /\ \A i \in 1 .. Len(ccq[c].wcs) :
                   Complete(ccq[c], w).wcs[i] = ccq[c].wcs[i]
          BY <5>1, CqContents
        <5>3. ccq'[c] = Complete(ccq[c], w)
          BY <4>1 DEF w
        <5> QED BY <5>2, <5>3 DEF w
      <4> QED
        BY <2>2, <3>1, <3>2, <4>2 DEF CountOK, Reported, Finished, FailureDue,
           Ended, Wc
    <3>3. CASE cconn[c] # "live"
      <4>1. ccq'[c] = ccq[c]
        BY <1>14, <3>3 DEF FailRequest
      <4> QED
        BY <2>2, <3>1, <3>3, <4>1 DEF CountOK, Reported, Finished, FailureDue,
           Ended
    <3> QED BY <3>2, <3>3
  <2> QED BY <2>1, <2>2
<1>15. ASSUME NEW c \in Clients, DeliverResponse(c) PROVE CountOK(d)'
  <2>1. CASE d # c
    <3>1. Same(d)
      BY <1>15, <2>1 DEF DeliverResponse, ServerCompletes, netVars, clientVars,
         cmVars, Same
    <3> QED BY <3>1, SameCount
  <2>2. CASE d = c
    <3>1. /\ req'[c] = req[c] /\ cregion'[c] = sendRegion[c]
          /\ num'[c] = num[c] /\ ppc'[c] = ppc[c]
          /\ pwc'[c] = pwc[c] /\ cconn'[c] = cconn[c]
          /\ cpc'[c] = cpc[c]
          /\ ccq'[c] = Complete(ccq[c], Wc("RECV", TRUE, c))
          /\ rsp[c] > 0 /\ crecv[c] /\ sendRegion[c] # None /\ cregion[c] = None
      BY <1>15, <2>2 DEF DeliverResponse, ServerCompletes, ClientQpReady,
         AnswerOK, ThreadsOK, netVars, clientVars, cmVars
    <3>2. /\ Len(ccq'[c].wcs) = Len(ccq[c].wcs) + 1
          /\ \A i \in 1 .. Len(ccq[c].wcs) : ccq'[c].wcs[i] = ccq[c].wcs[i]
      <4> DEFINE w == Wc("RECV", TRUE, c)
      <4>1. w \in ClientWcs /\ ccq[c] \in CompletionQueues(ClientWcs)
        BY WcTypes
      <4> HIDE DEF w
      <4>2. /\ Len(Complete(ccq[c], w).wcs) = Len(ccq[c].wcs) + 1
            /\ Complete(ccq[c], w).wcs[Len(ccq[c].wcs) + 1] = w
            /\ \A i \in 1 .. Len(ccq[c].wcs) :
                 Complete(ccq[c], w).wcs[i] = ccq[c].wcs[i]
        BY <4>1, CqContents
      <4>3. ccq'[c] = Complete(ccq[c], w)
        BY <3>1 DEF w
      <4> QED BY <4>2, <4>3
    <3>3. num'[c] = num[c] /\ ppc'[c] = ppc[c] /\ pwc'[c] = pwc[c]
      BY <3>1
    <3>4. Reported(c)' = Reported(c) + 1
      BY <2>2, <3>2, <3>3 DEF Reported
    <3>5. req'[c] = req[c] /\ cregion[c] = None /\ cregion'[c] # None
      BY <3>1
    <3>6. Finished(c)' = Finished(c) + 1
      BY <3>5 DEF Finished
    <3>7. ASSUME FailureDue(c) PROVE FailureDue(c)'
      <4>1. CASE ppc[c] = "handle" /\ ~pwc[c].ok
        BY <3>3, <4>1 DEF FailureDue
      <4>2. CASE ppc[c] # "handle" \/ pwc[c].ok
        <5>1. PICK i \in 1 .. Len(ccq[c].wcs) : ~ccq[c].wcs[i].ok
          BY <3>7, <4>2 DEF FailureDue
        <5>2. i \in 1 .. Len(ccq'[c].wcs) /\ ~ccq'[c].wcs[i].ok
          BY <2>2, <3>2, <5>1
        <5> QED BY <5>2 DEF FailureDue
      <4> QED BY <4>1, <4>2
    <3>8. Reported(c)' <= Finished(c)'
      BY <2>2, <3>4, <3>6 DEF CountOK
    <3> QED BY <2>2, <3>1, <3>7, <3>8 DEF CountOK, Ended
  <2> QED BY <2>1, <2>2
<1>16. CASE UNCHANGED <<req, cpc, ppc, pwc, ccq, cconn, num, cregion>>
  <2>1. Same(d)
    BY <1>16 DEF Same
  <2> QED BY <2>1, SameCount
<1> QED BY CountFrame, <1>1, <1>2, <1>3, <1>4, <1>5, <1>6, <1>7, <1>8, <1>9,
       <1>10, <1>11, <1>12, <1>13, <1>14, <1>15, <1>16

ClientInv == /\ TypeInv /\ WakeInv /\ ThreadsInv /\ EventsInv
             /\ CountInv /\ AnswerInv

(* The invariant of ./client holds before any client starts. *)
LEMMA InitClientInv == Init => ClientInv
<1> SUFFICES ASSUME Init PROVE ClientInv
  OBVIOUS
<1>1. TypeInv
  BY InitTypeInv
<1>2. /\ cm = [c \in Clients |-> "idle"] /\ cliEvents = [c \in Clients |-> << >>]
      /\ req = [c \in Clients |-> "none"] /\ rsp = [c \in Clients |-> 0]
      /\ cpc = [c \in Clients |-> "idle"] /\ ppc = [c \in Clients |-> "none"]
      /\ ccq = [c \in Clients |-> NewCq] /\ cconn = [c \in Clients |-> "none"]
      /\ num = [c \in Clients |-> 0] /\ crecv = [c \in Clients |-> FALSE]
      /\ cregion = [c \in Clients |-> None] /\ wpc = [c \in Clients |-> "none"]
  BY DEF Init, FabricInit, ClientInit, ServerInit
<1>3. WakeInv
  BY <1>2 DEF WakeInv, WakeOK
<1>4. ThreadsInv
  BY <1>2 DEF ThreadsInv, ThreadsOK, Early
<1>5. EventsInv
  BY <1>2 DEF EventsInv, EventsOK, Before, Early
<1>6. CountInv
  BY <1>2 DEF CountInv, CountOK, Reported, Finished, NewCq
<1>7. AnswerInv
  BY <1>2 DEF AnswerInv, AnswerOK
<1> QED BY <1>1, <1>3, <1>4, <1>5, <1>6, <1>7 DEF ClientInv

(* ClientInv is inductive.                                                 *)
LEMMA ClientInvariance == Spec => []ClientInv
<1>1. ASSUME ClientInv, [Next]_vars PROVE ClientInv'
  BY <1>1, StepTypeInv, WakeStep, ThreadsStep, EventsStep, CountStep, AnswerStep
     DEF ClientInv
<1> QED BY InitClientInv, <1>1, PTL DEF Spec

(* A poller that waits is never waiting past a completion: whatever the    *)
(* order in which completions arrive and the poller takes an event, arms   *)
(* the CQ and polls it, an event is queued if the CQ holds something.      *)
THEOREM PollerWakes == Spec => []NoLostWakeup
<1>1. ClientInv => NoLostWakeup
  BY DEF ClientInv, WakeInv, WakeOK, NoLostWakeup, HasCompletion, HasEvent
<1> QED BY <1>1, ClientInvariance, PTL

(* The steps that move a connection.                                       *)
LEMMA CmFrame ==
  ASSUME [Next]_vars
  PROVE  \/ \E c \in Clients : \/ Launch(c) \/ OnAddrResolved(c)
                                \/ OnRouteResolved(c) \/ PollerOnCompletion(c)
                                \/ CmStep(c)
         \/ OnConnectRequest
         \/ UNCHANGED <<cm>>
<1> USE DEF cmVars
<1>1. ASSUME NEW c \in Clients, ClientCrash(c) PROVE UNCHANGED <<cm>>
  BY <1>1 DEF ClientCrash, Die
<1>2. ASSUME NEW c \in Clients, ClientMain(c)
      PROVE  \/ OnAddrResolved(c)
             \/ OnRouteResolved(c)
             \/ UNCHANGED <<cm>>
  BY <1>2 DEF ClientMain, OnConnectionReqSock, GetsEvent,
     ClientOnDisconnect, OnUnknownEvent, Die, ClientExit
<1>3. ASSUME NEW c \in Clients, Poller(c)
      PROVE  \/ PollerOnCompletion(c)
             \/ UNCHANGED <<cm>>
  BY <1>3 DEF Poller, PollerGetEvent, PollerReqNotify, PollerPoll
<1>4. ASSUME NEW c \in Clients, Adapter(c)
      PROVE  UNCHANGED <<cm>>
  BY <1>4 DEF Adapter, DeliverRequest, ServerCompletes, AckRequest,
     FailRequest, DeliverResponse, FailResponse
<1>5. ASSUME NEW c \in Clients, Worker(c)
      PROVE  UNCHANGED <<cm>>
  BY <1>5 DEF Worker, WorkerStart, WorkerCopy, WorkerPost
<1>6. ASSUME ServerThread
      PROVE  \/ OnConnectRequest
             \/ UNCHANGED <<cm>>
  BY <1>6 DEF ServerThread, ServerGetEvent, ServerGetCqEvent,
     ServerReqNotify, ServerPoll, SocketConnect, ConnectsSocket, SocketSend,
     SocketRead, OnEstablished, ClientThreadInit, OnDisconnect,
     FreeConnection, OnUnknown
<1>7. ASSUME ProxyAnswers PROVE UNCHANGED <<cm>>
  BY <1>7 DEF ProxyAnswers
<1>8. ASSUME CmFault PROVE UNCHANGED <<cm>>
  BY <1>8 DEF CmFault, CmDeviceRemoval, TellServer
<1>9. CASE UNCHANGED vars
  BY <1>9 DEF vars
<1> QED BY <1>1, <1>2, <1>3, <1>4, <1>5, <1>6, <1>7, <1>8, <1>9 DEF Next

(* The step that disconnects.                                              *)
LEMMA DisconnectStep ==
  ASSUME ClientInv, [Next]_vars, NEW d \in Clients,
         cm[d] = "connected", cm'[d] = "disconnecting"
  PROVE  cpc[d] = "died" \/ (req[d] = "acked" /\ cregion[d] # None)
<1> DEFINE Goal == cpc[d] = "died" \/ (req[d] = "acked" /\ cregion[d] # None)
<1>0. /\ cm \in [Clients -> CmStates] /\ num \in [Clients -> Nat]
      /\ ccq \in [Clients -> CompletionQueues(ClientWcs)]
  BY DEF ClientInv, TypeInv, TypeOK, CmTypeOK, ClientTypeOK
<1> USE <1>0
<1>1. ASSUME NEW c \in Clients, Launch(c) PROVE Goal
  BY <1>1 DEF Launch
<1>2. ASSUME NEW c \in Clients, OnAddrResolved(c) PROVE Goal
  BY <1>2 DEF OnAddrResolved
<1>3. ASSUME NEW c \in Clients, OnRouteResolved(c) PROVE Goal
  BY <1>3 DEF OnRouteResolved
<1>4. ASSUME NEW c \in Clients, PollerOnCompletion(c) PROVE Goal
  <2>1. /\ c = d /\ ppc[d] = "handle" /\ pwc[d].ok /\ cconn[d] = "live"
        /\ num[d] = 1
    BY <1>4 DEF PollerOnCompletion, RdmaDisconnect, LastCompletion
  <2>2. CountOK(d) /\ ThreadsOK(d)
    BY DEF ClientInv, CountInv, ThreadsInv
  <2>3. Len(ccq[d].wcs) \in Nat
    <3>1. Wc("SEND", TRUE, d) \in ClientWcs /\ ccq[d] \in CompletionQueues(ClientWcs)
      BY <1>0, WcTypes
    <3> QED BY <3>1, CqContents
  <2>4. Reported(d) = 2 + Len(ccq[d].wcs)
    BY <2>1, <2>3 DEF Reported
  <2>5. /\ req[d] \in {"acked", "failed"} /\ cregion[d] # None
        /\ Len(ccq[d].wcs) <= 0
    BY <2>2, <2>3, <2>4 DEF CountOK, Finished
  <2>6. req[d] # "failed"
    <3>1. ~FailureDue(d)
      BY <2>1, <2>3, <2>5 DEF FailureDue
    <3> QED BY <2>1, <2>2, <3>1 DEF CountOK, ThreadsOK
  <2> QED BY <2>5, <2>6
<1>5. ASSUME NEW c \in Clients, CmStep(c), CmAddr(c) PROVE Goal
  BY <1>5 DEF CmAddr
<1>6. ASSUME NEW c \in Clients, CmStep(c), CmRoute(c) PROVE Goal
  BY <1>6 DEF CmRoute
<1>7. ASSUME NEW c \in Clients, CmStep(c), CmRequest(c) PROVE Goal
  BY <1>7 DEF CmRequest
<1>8. ASSUME NEW c \in Clients, CmStep(c), CmReply(c) PROVE Goal
  BY <1>8 DEF CmReply
<1>9. ASSUME NEW c \in Clients, CmStep(c), CmRtu(c) PROVE Goal
  BY <1>9 DEF CmRtu
<1>10. ASSUME NEW c \in Clients, CmStep(c), CmDreq(c) PROVE Goal
  BY <1>10 DEF CmDreq
<1>11. ASSUME NEW c \in Clients, CmStep(c), CmDrep(c) PROVE Goal
  BY <1>11 DEF CmDrep
<1>12. ASSUME NEW c \in Clients, CmStep(c), CmServerGone(c) PROVE Goal
  BY <1>12 DEF CmServerGone
<1>13. ASSUME NEW c \in Clients, CmStep(c), CmClientGone(c) PROVE Goal
  BY <1>13 DEF CmClientGone
<1>14. ASSUME NEW c \in Clients, CmStep(c), CmTimeout(c) PROVE Goal
  BY <1>14 DEF CmTimeout
<1>15. ASSUME OnConnectRequest PROVE Goal
  BY <1>15 DEF OnConnectRequest
<1>16. CASE UNCHANGED <<cm>>
  BY <1>16
<1> QED BY CmFrame, <1>1, <1>2, <1>3, <1>4, <1>5, <1>6, <1>7, <1>8, <1>9,
       <1>10, <1>11, <1>12, <1>13, <1>14, <1>15, <1>16 DEF CmStep

(* A client that has not died disconnects at most once, and only when its  *)
(* send and its receive have both completed with success: with the answer  *)
(* in its buffer, whatever the server, WANProxy and other clients do.      *)
THEOREM DisconnectsOnlyAfterBoth == Spec => DisconnectsAfterBoth
<1>1. ASSUME ClientInv, [Next]_vars
      PROVE  [\A c \in Clients : cm[c] = "connected" /\ cm'[c] = "disconnecting"
               => cpc[c] = "died" \/ (req[c] = "acked" /\ cregion[c] # None)]_vars
  BY <1>1, DisconnectStep
<1> QED BY <1>1, ClientInvariance, PTL DEF Spec, DisconnectsAfterBoth
-----------------------------------------------------------------------------
(***************************************************************************)
(* The wr_id through which ./server reads a request is that of a           *)
(* connection it has not freed.  It ignores what ibv_poll_cq returns, so   *)
(* this is not a matter of the completion just polled: the wc it looks at  *)
(* may be left over from an earlier turn of its loop.                      *)
(***************************************************************************)
Branch == {"get_cq_event", "req_notify", "poll", "socket_connect", "send", "read"}

(* The receive of a connection that s_ctx still covers.                    *)
FromLive(w) ==
  w.op = "RECV" => w.conn \in ctxConns /\ recvRegion[w.conn] = w.conn

(* on_disconnect drops s_ctx whenever it frees a connection, and with it   *)
(* the CQ that may hold that connection's completions.                     *)
ContextOK ==
  /\ \A c \in ctxConns : sconn[c] = "live"
  /\ spc \in Branch => ctx

CompletionsOK ==
  ctx => \A i \in 1 .. Len(scq.wcs) : FromLive(scq.wcs[i])

(* A CQ that has queued an event and is empty has been polled, into wc,    *)
(* since it was created: wc is then a completion of this CQ.               *)
LeftoverOK ==
  ctx /\ Len(scq.wcs) = 0
      /\ (scq.events > 0 \/ spc \in {"req_notify", "poll"}) => FromLive(wc)

ServerInv ==
  /\ TypeInv /\ ContextOK /\ CompletionsOK /\ LeftoverOK
  /\ spc \in {"socket_connect", "send"} => FromLive(wc)

(* The steps that move what ServerInv relates.                             *)
LEMMA ServerFrame ==
  ASSUME [Next]_vars
  PROVE  \/ \E c \in Clients : \/ DeliverRequest(c) \/ DeliverResponse(c)
                                \/ FailResponse(c) \/ WorkerStart(c) \/ WorkerCopy(c)
                                \/ WorkerPost(c)
         \/ ServerGetEvent \/ OnConnectRequest \/ ServerGetCqEvent
         \/ ServerReqNotify \/ ServerPoll \/ SocketConnect
         \/ SocketSend \/ SocketRead \/ OnEstablished
         \/ OnDisconnect \/ OnUnknown
         \/ UNCHANGED <<spc, ctx, ctxConns, scq, sconn, recvRegion, wc>>
<1> USE DEF serverVars
<1>1. ASSUME NEW c \in Clients, Launch(c) PROVE UNCHANGED <<spc, ctx, ctxConns, scq, sconn, recvRegion, wc>>
  BY <1>1 DEF Launch
<1>2. ASSUME NEW c \in Clients, ClientCrash(c) PROVE UNCHANGED <<spc, ctx, ctxConns, scq, sconn, recvRegion, wc>>
  BY <1>2 DEF ClientCrash, Die
<1>3. ASSUME NEW c \in Clients, ClientMain(c)
      PROVE  UNCHANGED <<spc, ctx, ctxConns, scq, sconn, recvRegion, wc>>
  BY <1>3 DEF ClientMain, OnAddrResolved, GetsEvent, ClientBuildContext,
     ClientPostReceives, OnRouteResolved, OnConnectionReqSock,
     ClientOnDisconnect, OnUnknownEvent, Die, ClientExit
<1>4. ASSUME NEW c \in Clients, Poller(c)
      PROVE  UNCHANGED <<spc, ctx, ctxConns, scq, sconn, recvRegion, wc>>
  BY <1>4 DEF Poller, PollerGetEvent, PollerReqNotify, PollerPoll,
     PollerOnCompletion, RdmaDisconnect, Die
<1>5. ASSUME NEW c \in Clients, CmStep(c)
      PROVE  UNCHANGED <<spc, ctx, ctxConns, scq, sconn, recvRegion, wc>>
  BY <1>5 DEF CmStep
<1>6. ASSUME NEW c \in Clients, Adapter(c)
      PROVE  \/ DeliverRequest(c)
             \/ DeliverResponse(c)
             \/ FailResponse(c)
             \/ UNCHANGED <<spc, ctx, ctxConns, scq, sconn, recvRegion, wc>>
  BY <1>6 DEF Adapter, AckRequest, FailRequest
<1>7. ASSUME ProxyAnswers PROVE UNCHANGED <<spc, ctx, ctxConns, scq, sconn, recvRegion, wc>>
  BY <1>7 DEF ProxyAnswers
<1>8. ASSUME CmFault PROVE UNCHANGED <<spc, ctx, ctxConns, scq, sconn, recvRegion, wc>>
  BY <1>8 DEF CmFault
<1>9. CASE UNCHANGED vars
  BY <1>9 DEF vars
<1> QED BY <1>1, <1>2, <1>3, <1>4, <1>5, <1>6, <1>7, <1>8, <1>9 DEF Next,
       Worker, ServerThread

(* What adding a completion and polling do to the completions of s_ctx->cq. *)
LEMMA ServerCqFacts ==
  ASSUME TypeInv
  PROVE  /\ Len(scq.wcs) \in Nat
         /\ \A w \in ServerWcs :
              /\ Len(Complete(scq, w).wcs) = Len(scq.wcs) + 1
              /\ Complete(scq, w).wcs[Len(scq.wcs) + 1] = w
              /\ \A i \in 1 .. Len(scq.wcs) : Complete(scq, w).wcs[i] = scq.wcs[i]
         /\ TakeEvent(scq).wcs = scq.wcs /\ Arm(scq).wcs = scq.wcs
         /\ HasCompletion(scq) =>
              /\ Oldest(scq) = scq.wcs[1] /\ Len(scq.wcs) > 0
              /\ Len(Poll(scq).wcs) = Len(scq.wcs) - 1
              /\ \A i \in 1 .. Len(scq.wcs) - 1 : Poll(scq).wcs[i] = scq.wcs[i + 1]
         /\ ~HasCompletion(scq) => Len(scq.wcs) = 0
<1>1. scq \in CompletionQueues(ServerWcs) /\ wc \in ServerWcs
  BY DEF TypeInv, TypeOK, ServerTypeOK
<1>2. \A w \in ServerWcs :
        /\ Len(scq.wcs) \in Nat
        /\ Len(Complete(scq, w).wcs) = Len(scq.wcs) + 1
        /\ \A i \in 1 .. Len(scq.wcs) : Complete(scq, w).wcs[i] = scq.wcs[i]
        /\ Complete(scq, w).wcs[Len(scq.wcs) + 1] = w
        /\ TakeEvent(scq).wcs = scq.wcs /\ Arm(scq).wcs = scq.wcs
        /\ HasCompletion(scq) <=> Len(scq.wcs) > 0
  BY <1>1, CqContents
<1>3. HasCompletion(scq) =>
        /\ Oldest(scq) = scq.wcs[1]
        /\ Len(Poll(scq).wcs) = Len(scq.wcs) - 1
        /\ \A i \in 1 .. Len(scq.wcs) - 1 : Poll(scq).wcs[i] = scq.wcs[i + 1]
  BY <1>1, CqPoll
<1>4. Len(scq.wcs) \in Nat /\ (HasCompletion(scq) <=> Len(scq.wcs) > 0)
  BY <1>1, <1>2
<1> QED BY <1>1, <1>2, <1>3, <1>4

(* Every step keeps the invariant of ./server. *)
LEMMA ServerStep == ASSUME ServerInv, [Next]_vars PROVE ServerInv'
<1> DEFINE Rest == /\ ContextOK /\ CompletionsOK /\ LeftoverOK
                   /\ spc \in {"socket_connect", "send"} => FromLive(wc)
<1>t. TypeInv /\ TypeInv'
  BY StepTypeInv DEF ServerInv
<1> SUFFICES Rest'
  BY <1>t DEF ServerInv
<1>0. /\ TypeInv /\ Rest /\ sconn \in [Clients -> {"none", "live", "freed"}]
      /\ recvRegion \in [Clients -> Data] /\ ctxConns \in SUBSET Clients
      /\ Len(scq.wcs) \in Nat /\ scq.events \in Nat
  BY ServerCqFacts DEF ServerInv, TypeInv, TypeOK, ServerTypeOK,
       CompletionQueues
<1> USE <1>0
<1> USE DEF ContextOK, CompletionsOK, LeftoverOK, FromLive, Branch
<1>1. ASSUME NEW c \in Clients, DeliverRequest(c) PROVE Rest'
  <2> DEFINE w == Wc("RECV", TRUE, c)
  <2>1. w \in ServerWcs
    BY WcTypes
  <2>2. /\ spc' = spc /\ ctx' = ctx /\ ctxConns' = ctxConns /\ sconn' = sconn
        /\ wc' = wc /\ recvRegion' = [recvRegion EXCEPT ![c] = c]
        /\ scq' = IF c \in ctxConns THEN Complete(scq, w) ELSE scq
    BY <1>1 DEF DeliverRequest, ServerCompletes, serverVars
  <2>3. w.op = "RECV" /\ w.conn = c
    BY DEF Wc
  <2> HIDE DEF w
  <2>4. \A v : FromLive(v) => FromLive(v)'
    BY <2>2
  <2>5. CASE c \in ctxConns
    <3>1. /\ Len(scq'.wcs) = Len(scq.wcs) + 1
          /\ \A i \in 1 .. Len(scq'.wcs) :
               \/ scq'.wcs[i] = w
               \/ i \in 1 .. Len(scq.wcs) /\ scq'.wcs[i] = scq.wcs[i]
      BY <2>1, <2>2, <2>5, ServerCqFacts
    <3>2. FromLive(w)'
      BY <2>2, <2>3, <2>5
    <3> QED BY <2>2, <2>4, <3>1, <3>2
  <2>6. CASE c \notin ctxConns
    BY <2>2, <2>4, <2>6
  <2> QED BY <2>5, <2>6
<1>2. ASSUME NEW c \in Clients, DeliverResponse(c) PROVE Rest'
  <2> DEFINE w == Wc("SEND", TRUE, None)
  <2>1. w \in ServerWcs
    BY WcTypes
  <2>2. /\ spc' = spc /\ ctx' = ctx /\ ctxConns' = ctxConns /\ sconn' = sconn
        /\ wc' = wc /\ recvRegion' = recvRegion
        /\ scq' = IF c \in ctxConns THEN Complete(scq, w) ELSE scq
    BY <1>2 DEF DeliverResponse, ServerCompletes, serverVars
  <2>3. w.op = "SEND"
    BY DEF Wc
  <2> HIDE DEF w
  <2>4. \A v : FromLive(v) => FromLive(v)'
    BY <2>2
  <2>5. CASE c \in ctxConns
    <3>1. /\ Len(scq'.wcs) = Len(scq.wcs) + 1
          /\ \A i \in 1 .. Len(scq'.wcs) :
               \/ scq'.wcs[i] = w
               \/ i \in 1 .. Len(scq.wcs) /\ scq'.wcs[i] = scq.wcs[i]
      BY <2>1, <2>2, <2>5, ServerCqFacts
    <3>2. FromLive(w)'
      BY <2>2, <2>3, <2>5
    <3> QED BY <2>2, <2>4, <3>1, <3>2
  <2>6. CASE c \notin ctxConns
    BY <2>2, <2>4, <2>6
  <2> QED BY <2>5, <2>6
<1>3. ASSUME NEW c \in Clients, FailResponse(c) PROVE Rest'
  <2> DEFINE w == Wc("SEND", FALSE, None)
  <2>1. w \in ServerWcs
    BY WcTypes
  <2>2. /\ spc' = spc /\ ctx' = ctx /\ ctxConns' = ctxConns /\ sconn' = sconn
        /\ wc' = wc /\ recvRegion' = recvRegion
        /\ scq' = IF c \in ctxConns THEN Complete(scq, w) ELSE scq
    BY <1>3 DEF FailResponse, ServerCompletes, serverVars
  <2>3. w.op = "SEND"
    BY DEF Wc
  <2> HIDE DEF w
  <2>4. \A v : FromLive(v) => FromLive(v)'
    BY <2>2
  <2>5. CASE c \in ctxConns
    <3>1. /\ Len(scq'.wcs) = Len(scq.wcs) + 1
          /\ \A i \in 1 .. Len(scq'.wcs) :
               \/ scq'.wcs[i] = w
               \/ i \in 1 .. Len(scq.wcs) /\ scq'.wcs[i] = scq.wcs[i]
      BY <2>1, <2>2, <2>5, ServerCqFacts
    <3>2. FromLive(w)'
      BY <2>2, <2>3, <2>5
    <3> QED BY <2>2, <2>4, <3>1, <3>2
  <2>6. CASE c \notin ctxConns
    BY <2>2, <2>4, <2>6
  <2> QED BY <2>5, <2>6
<1>4. ASSUME NEW c \in Clients, WorkerStart(c) PROVE Rest'
  BY <1>4 DEF WorkerStart, serverVars
<1>5. ASSUME NEW c \in Clients, WorkerCopy(c) PROVE Rest'
  BY <1>5 DEF WorkerCopy, serverVars
<1>6. ASSUME NEW c \in Clients, WorkerPost(c) PROVE Rest'
  BY <1>6 DEF WorkerPost, serverVars
<1>7. ASSUME ServerGetEvent PROVE Rest'
  BY <1>7 DEF ServerGetEvent, serverVars
<1>8. ASSUME OnConnectRequest PROVE Rest'
  <2>1. event_copy.id \in Clients
    BY <1>8 DEF OnConnectRequest, TypeInv, TypeOK, ServerTypeOK, BranchOK,
              SrvEventSet, SrvEvent
  <2> DEFINE c == event_copy.id
  <2>2. /\ ctx' /\ ctxConns' = ctxConns \cup {c} /\ wc' = wc
        /\ sconn' = [sconn EXCEPT ![c] = "live"] /\ recvRegion' = recvRegion
        /\ spc' \in {"get_cq_event", "exited"}
        /\ scq' = IF ctx THEN scq ELSE NewCq
    BY <1>8 DEF OnConnectRequest, ServerBuildContext
  <2> HIDE DEF c
  <2>3. Len(NewCq.wcs) = 0 /\ NewCq.events = 0
    BY DEF NewCq
  <2> QED BY <2>1, <2>2, <2>3 DEF c
<1>9. ASSUME ServerGetCqEvent PROVE Rest'
  <2>1. /\ scq'.wcs = scq.wcs /\ scq.events > 0 /\ spc' = "req_notify"
        /\ UNCHANGED <<ctx, ctxConns, sconn, recvRegion, wc>>
        /\ spc = "get_cq_event"
    BY <1>9, ServerCqFacts DEF ServerGetCqEvent, HasEvent
  <2> QED BY <2>1
<1>10. ASSUME ServerReqNotify PROVE Rest'
  <2>1. /\ scq'.wcs = scq.wcs /\ spc' = "poll" /\ spc = "req_notify"
        /\ UNCHANGED <<ctx, ctxConns, sconn, recvRegion, wc>>
    BY <1>10, ServerCqFacts DEF ServerReqNotify
  <2> QED BY <2>1
<1>11. ASSUME ServerPoll PROVE Rest'
  <2>1. /\ UNCHANGED <<ctx, ctxConns, sconn, recvRegion>>
        /\ spc = "poll" /\ ctx
        /\ spc' \in {"get_event", "socket_connect", "poll"}
    BY <1>11 DEF ServerPoll
  <2>2. CASE HasCompletion(scq)
    <3>1. wc' = scq.wcs[1] /\ scq' = Poll(scq) /\ 1 \in 1 .. Len(scq.wcs)
      BY <1>11, <2>2, ServerCqFacts DEF ServerPoll
    <3>2. FromLive(wc)'
      BY <2>1, <3>1
    <3>3. /\ Len(scq'.wcs) = Len(scq.wcs) - 1
          /\ \A i \in 1 .. Len(scq.wcs) - 1 : scq'.wcs[i] = scq.wcs[i + 1]
      BY <2>2, <3>1, ServerCqFacts
    <3>4. CompletionsOK'
      BY <2>1, <3>3
    <3> QED BY <2>1, <3>2, <3>4
  <2>3. CASE ~HasCompletion(scq)
    BY <1>11, <2>1, <2>3, ServerCqFacts DEF ServerPoll
  <2> QED BY <2>2, <2>3
<1>12. ASSUME SocketConnect PROVE Rest'
  BY <1>12 DEF SocketConnect, ConnectsSocket, serverVars
<1>13. ASSUME SocketSend PROVE Rest'
  BY <1>13 DEF SocketSend, serverVars
<1>14. ASSUME SocketRead PROVE Rest'
  BY <1>14 DEF SocketRead, serverVars
<1>15. ASSUME OnEstablished PROVE Rest'
  BY <1>15 DEF OnEstablished, ClientThreadInit, serverVars
<1>16. ASSUME OnDisconnect PROVE Rest'
  BY <1>16 DEF OnDisconnect, FreeConnection, serverVars
<1>17. ASSUME OnUnknown PROVE Rest'
  BY <1>17 DEF OnUnknown, serverVars
<1>18. CASE UNCHANGED <<spc, ctx, ctxConns, scq, sconn, recvRegion, wc>>
  <2>1. /\ ContextOK' /\ CompletionsOK'
    BY <1>18
  <2>2. /\ LeftoverOK'
        /\ spc' \in {"socket_connect", "send"} => FromLive(wc)'
    BY <1>18
  <2> QED BY <2>1, <2>2
<1> QED BY ServerFrame, <1>1, <1>2, <1>3, <1>4, <1>5, <1>6, <1>7, <1>8,
       <1>9, <1>10, <1>11, <1>12, <1>13, <1>14, <1>15, <1>16, <1>17, <1>18

(* The invariant of ./server holds in every reachable state. *)
LEMMA ServerInvariance == Spec => []ServerInv
<1>1. ASSUME Init PROVE ServerInv
  <2>1. /\ ctx = FALSE /\ ctxConns = {} /\ spc = "get_event"
    BY <1>1 DEF Init, ServerInit
  <2> QED BY <1>1, <2>1, InitTypeInv
          DEF ServerInv, ContextOK, CompletionsOK, LeftoverOK, Branch
<1>2. ASSUME ServerInv, [Next]_vars PROVE ServerInv'
  BY <1>2, ServerStep
<1> QED BY <1>1, <1>2, PTL DEF Spec

(* What the server reads and sends to WANProxy is the content of a         *)
(* connection it has not freed, and a request that was delivered there,    *)
(* whatever order completions, events and disconnects come in.             *)
THEOREM RequestReadSafely == Spec => []RequestReadFromLiveConnection
<1>1. ServerInv => RequestReadFromLiveConnection
  BY DEF ServerInv, TypeInv, BranchOK, ContextOK, FromLive,
         RequestReadFromLiveConnection
<1> QED BY <1>1, ServerInvariance, PTL
=============================================================================
