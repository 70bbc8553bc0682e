------------------------ MODULE TwoThreadBridge_proof ------------------------
(***************************************************************************)
(* What becomes of sock_rdma_data in the two-thread bridge, for every set  *)
(* of clients: once set, it stays set.  So sock_rdma_thread leaves its     *)
(* wait only while nothing has been published, and answers at most one     *)
(* client.                                                                 *)
(***************************************************************************)
EXTENDS TwoThreadBridge, CompletionQueue_proof

(* While a client can still be answered, none has been: neither while      *)
(* sock_rdma_data is null, nor while the thread is past the wait that it   *)
(* could enter only then.                                                  *)
NobodyYet ==
  sock_rdma_data = None \/ spc = "connection" => \A c \in Clients : region[c] = None

IInv == TypeOK /\ NobodyYet /\ AtMostOneAnswered

(* The steps of each thread keep the types.                                *)
LEMMA TypeStep == ASSUME TypeOK, [Next]_vars PROVE TypeOK'
<1> DEFINE W == WorkCompletion(Clients \cup {None})
           CQ == CompletionQueues(W)
<1> USE DEF TypeOK
<1>cq. \A q \in CQ, w \in W :
         /\ Complete(q, w) \in CQ /\ Arm(q) \in CQ
         /\ HasEvent(q) => TakeEvent(q) \in CQ
         /\ HasCompletion(q) => Oldest(q) \in W /\ Poll(q) \in CQ
  BY CqTypes
<1>w. /\ \A c \in Clients : [op |-> "RECV", ok |-> TRUE, conn |-> c] \in W
      /\ \A b \in BOOLEAN : [op |-> "SEND", ok |-> b, conn |-> None] \in W
      /\ \A x \in W : x.conn \in Clients \cup {None}
  BY DEF WorkCompletion
<1>t. \A t \in EventTypes, c \in Clients :
        Tell(t, c) => srvEvents' \in Seq([type : EventTypes, id : Clients])
  BY DEF Tell
<1>g. \A t \in EventTypes :
        GetsEvent(t) => /\ cur' \in Clients
                        /\ srvEvents' \in Seq([type : EventTypes, id : Clients])
                        /\ Head(srvEvents).id \in Clients
  <2>1. \A E, q : q \in Seq(E) /\ q # << >> => Head(q) \in E /\ Tail(q) \in Seq(E)
    OBVIOUS
  <2>2. srvEvents # << >> => /\ Head(srvEvents) \in [type : EventTypes, id : Clients]
                             /\ Tail(srvEvents) \in Seq([type : EventTypes, id : Clients])
    BY <2>1
  <2> QED BY <2>2 DEF GetsEvent
<1>v. cq \in CQ /\ wc \in W
  OBVIOUS
<1> HIDE DEF W, CQ
<1>1. ASSUME NEW c \in Clients, ClientConnect(c) PROVE TypeOK'
  BY <1>1, <1>t DEF ClientConnect, EventTypes, evtVars, pollVars, proxyVars
<1>2. ASSUME NEW c \in Clients, ClientOnConnection(c) PROVE TypeOK'
  BY <1>2 DEF ClientOnConnection, evtVars, pollVars, proxyVars
<1>3. ASSUME NEW c \in Clients, ClientCrash(c) PROVE TypeOK'
  BY <1>3 DEF ClientCrash, evtVars, pollVars, proxyVars
<1>4. ASSUME NEW c \in Clients, CmEvent(c) PROVE TypeOK'
  <2>1. acc' \in [Clients -> {"no", "accepted", "rtu", "known"}]
    BY <1>4 DEF CmEvent
  <2>2. srvEvents' \in Seq([type : EventTypes, id : Clients])
    BY <1>4, <1>t DEF CmEvent, EventTypes
  <2> QED BY <1>4, <2>1, <2>2 DEF CmEvent, cliVars, evtVars, pollVars, proxyVars
<1>5. ASSUME NEW c \in Clients, DeliverRequest(c) PROVE TypeOK'
  <2>1. cq' \in CQ
    BY <1>5, <1>cq, <1>w, <1>v DEF DeliverRequest
  <2> QED BY <1>5, <2>1 DEF DeliverRequest, evtVars, pollVars, proxyVars, CQ, W
<1>6. ASSUME NEW c \in Clients, DeliverAnswer(c) PROVE TypeOK'
  <2>1. cq' \in CQ
    <3>1. (cst[c] # "crashed") \in BOOLEAN
      OBVIOUS
    <3>2. [op |-> "SEND", ok |-> cst[c] # "crashed", conn |-> None] \in W
      BY <3>1, <1>w
    <3> QED BY <1>6, <3>2, <1>cq, <1>v DEF DeliverAnswer
  <2> QED BY <1>6, <2>1 DEF DeliverAnswer, evtVars, pollVars, proxyVars, CQ, W
<1>7. ASSUME OnConnectRequest PROVE TypeOK'
  <2>1. GetsEvent("CONNECT_REQUEST")
    BY <1>7 DEF OnConnectRequest
  <2>2. acc' \in [Clients -> {"no", "accepted", "rtu", "known"}]
    BY <1>7, <2>1, <1>g DEF OnConnectRequest
  <2> QED BY <1>7, <2>1, <2>2, <1>g DEF OnConnectRequest, EventTypes, cliVars, proxyVars
<1>8. ASSUME OnEstablished PROVE TypeOK'
  BY <1>8, <1>g DEF OnEstablished, EventTypes, cliVars, pollVars, proxyVars
<1>9. ASSUME StopWaiting PROVE TypeOK'
  BY <1>9 DEF StopWaiting, cliVars, pollVars, proxyVars
<1>10. ASSUME OnConnection PROVE TypeOK'
  <2>1. Pointed \in Data
    BY DEF Pointed, Data
  <2>2. region' \in [Clients -> Data] /\ ans' \in [Clients -> {"none", "posted", "done"}]
    BY <1>10, <2>1 DEF OnConnection
  <2> QED BY <1>10, <2>2 DEF OnConnection, cliVars, pollVars, proxyVars
<1>11. ASSUME OnOther PROVE TypeOK'
  BY <1>11, <1>g DEF OnOther, EventTypes, cliVars, pollVars, proxyVars
<1>12. ASSUME ReadSocket PROVE TypeOK'
  BY <1>12 DEF ReadSocket, cliVars, pollVars, proxyVars
<1>13. ASSUME GetCqEvent PROVE TypeOK'
  <2>1. cq' \in CQ
    BY <1>13, <1>cq, <1>v DEF GetCqEvent
  <2> QED BY <1>13, <2>1 DEF GetCqEvent, cliVars, evtVars, proxyVars, CQ, W
<1>14. ASSUME ReqNotify PROVE TypeOK'
  <2>1. cq' \in CQ
    BY <1>14, <1>cq, <1>v DEF ReqNotify
  <2> QED BY <1>14, <2>1 DEF ReqNotify, cliVars, evtVars, proxyVars, CQ, W
<1>15. ASSUME PollCq PROVE TypeOK'
  <2>1. cq' \in CQ /\ wc' \in W
    BY <1>15, <1>cq, <1>v DEF PollCq
  <2> QED BY <1>15, <2>1 DEF PollCq, cliVars, evtVars, proxyVars, CQ, W
<1>16. ASSUME SocketSend PROVE TypeOK'
  <2>1. wc.conn \in Clients \cup {None}
    BY <1>w, <1>v
  <2>2. seen' \in [Clients -> Nat] /\ pending' \in Clients \cup {None}
    BY <1>16, <2>1 DEF SocketSend
  <2>3. spc' \in {"get_cm_event", "wait", "connection", "read", "died"}
    BY <1>16 DEF SocketSend
  <2> QED BY <1>16, <2>2, <2>3 DEF SocketSend, cliVars
<1>17. ASSUME SocketRead PROVE TypeOK'
  BY <1>17 DEF SocketRead, cliVars, evtVars
<1>18. ASSUME Publish PROVE TypeOK'
  BY <1>18 DEF Publish, cliVars, evtVars, proxyVars
<1>19. ASSUME Proxy PROVE TypeOK'
  <2>1. reply' \in Clients \cup {None} /\ open' \in BOOLEAN /\ pending' = None
    BY <1>19 DEF Proxy
  <2> QED BY <1>19, <2>1 DEF Proxy, cliVars, evtVars, pollVars
<1>20. CASE UNCHANGED vars
  BY <1>20 DEF vars, cliVars, evtVars, pollVars, proxyVars
<1> QED
  BY <1>1, <1>2, <1>3, <1>4, <1>5, <1>6, <1>7, <1>8, <1>9, <1>10, <1>11, <1>12,
     <1>13, <1>14, <1>15, <1>16, <1>17, <1>18, <1>19, <1>20
     DEF Next, Net, SockRdma, RdmaSock

(* The only steps that change where sock_rdma_thread is, what is published *)
(* or what is sent.                                                        *)
LEMMA Frame ==
  ASSUME [Next]_vars
  PROVE  \/ OnConnectRequest \/ OnEstablished \/ StopWaiting \/ OnConnection
         \/ OnOther \/ ReadSocket \/ SocketSend \/ Publish
         \/ UNCHANGED <<spc, sock_rdma_data, region>>
<1>1. ASSUME NEW c \in Clients,
             ClientConnect(c) \/ ClientOnConnection(c) \/ ClientCrash(c) \/ Net(c)
      PROVE  UNCHANGED <<spc, sock_rdma_data, region>>
  BY <1>1 DEF ClientConnect, ClientOnConnection, ClientCrash, Net, CmEvent,
     DeliverRequest, DeliverAnswer, evtVars
<1>2. ASSUME GetCqEvent \/ ReqNotify \/ PollCq \/ SocketRead \/ Proxy
      PROVE  UNCHANGED <<spc, sock_rdma_data, region>>
  BY <1>2 DEF GetCqEvent, ReqNotify, PollCq, SocketRead, Proxy, evtVars
<1>3. ASSUME UNCHANGED vars PROVE UNCHANGED <<spc, sock_rdma_data, region>>
  BY <1>3 DEF vars, evtVars
<1> QED BY <1>1, <1>2, <1>3 DEF Next, SockRdma, RdmaSock

(* Nobody is answered at first.                                            *)
LEMMA InitInv == Init => IInv
<1> SUFFICES ASSUME Init PROVE IInv
  OBVIOUS
<1>1. NewCq \in CompletionQueues(WorkCompletion(Clients \cup {None}))
  BY NewCqType
<1>2. TypeOK
  BY <1>1 DEF Init, TypeOK, Data, WorkCompletion, EventTypes
<1>3. NobodyYet /\ AtMostOneAnswered
  BY DEF Init, NobodyYet, AtMostOneAnswered
<1> QED BY <1>2, <1>3 DEF IInv

(* A region is written only by OnConnection, which finds all unwritten.    *)
LEMMA AnsweredStep ==
  ASSUME IInv, [Next]_vars PROVE NobodyYet' /\ AtMostOneAnswered'
<1> USE TwoThreadAssumption DEF IInv, NobodyYet, AtMostOneAnswered
<1>1. CASE OnConnectRequest
  BY <1>1 DEF OnConnectRequest, GetsEvent
<1>2. CASE OnEstablished
  BY <1>2 DEF OnEstablished, GetsEvent
<1>3. CASE StopWaiting
  BY <1>3 DEF StopWaiting
<1>4. CASE OnConnection
  <2>1. \A c \in Clients : region[c] = None
    BY <1>4 DEF OnConnection
  <2>2. spc' = "read" /\ sock_rdma_data' = sock_rdma_data
    BY <1>4 DEF OnConnection
  <2>3. \A c \in Clients : c # cur => region'[c] = None
    BY <1>4, <2>1 DEF OnConnection, TypeOK
  <2>4. sock_rdma_data = None => region' = region
    BY <1>4 DEF OnConnection
  <2> QED BY <2>1, <2>2, <2>3, <2>4
<1>5. CASE OnOther
  BY <1>5 DEF OnOther, GetsEvent
<1>6. CASE ReadSocket
  BY <1>6 DEF ReadSocket
<1>7. CASE SocketSend
  BY <1>7 DEF SocketSend
<1>8. CASE Publish
  BY <1>8 DEF Publish, evtVars
<1>9. CASE UNCHANGED <<spc, sock_rdma_data, region>>
  BY <1>9
<1> QED BY <1>1, <1>2, <1>3, <1>4, <1>5, <1>6, <1>7, <1>8, <1>9, Frame

(* The invariant holds in every state.                                     *)
LEMMA InvOK == Spec => []IInv
<1>1. IInv /\ [Next]_vars => IInv'
  BY TypeStep, AnsweredStep DEF IInv
<1> QED BY InitInv, <1>1, PTL DEF Spec

(* Type correctness of the two-thread bridge.                              *)
THEOREM TypeCorrect == Spec => []TypeOK
BY InvOK, PTL DEF IInv

(* At most one client is answered with data, however many there are and    *)
(* however the threads, WANProxy and crashes interleave.                   *)
THEOREM OneAnswered == Spec => []AtMostOneAnswered
BY InvOK, PTL DEF IInv

(* sock_rdma_data, once set, stays set: a wait that does not end at once   *)
(* ends only with the process.                                             *)
THEOREM WaitsForEver == Spec => WaitNeverEnds
<1>1. [Next]_vars =>
        [spc = "wait" /\ sock_rdma_data # None =>
           sock_rdma_data' # None /\ spc' \in {"wait", "died"}]_vars
  <2> SUFFICES ASSUME [Next]_vars, spc = "wait", sock_rdma_data # None
               PROVE  sock_rdma_data' # None /\ spc' \in {"wait", "died"}
    OBVIOUS
  <2>1. ~OnConnectRequest /\ ~OnEstablished /\ ~OnOther
    BY DEF OnConnectRequest, OnEstablished, OnOther, GetsEvent
  <2>2. ~StopWaiting /\ ~OnConnection /\ ~ReadSocket
    BY DEF StopWaiting, OnConnection, ReadSocket
  <2>3. CASE SocketSend
    BY <2>3 DEF SocketSend
  <2>4. CASE Publish
    BY <2>4, TwoThreadAssumption DEF Publish, evtVars
  <2>5. CASE UNCHANGED <<spc, sock_rdma_data, region>>
    BY <2>5
  <2> QED BY <2>1, <2>2, <2>3, <2>4, <2>5, Frame
<1> QED BY <1>1, PTL DEF Spec, WaitNeverEnds
=============================================================================
