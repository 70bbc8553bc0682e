----------------------------- MODULE RdmaServer -----------------------------
(***************************************************************************)
(* ./server of wanproxy_server_side: rdma_server.c, the WANProxy side of   *)
(* socket.c, and server_main.c.                                            *)
(*                                                                         *)
(* The thread rdma_sock_thread takes CM events one at a time.  On a        *)
(* CONNECT_REQUEST it accepts, then blocks until the new client's request  *)
(* has arrived, sends it to WANProxy and blocks until the answer is back.  *)
(* On an ESTABLISHED it starts a sock_rdma_thread worker that sends the    *)
(* answer to the client.  The worker is given the address of the thread's  *)
(* one event_copy and reads the answer through the global sock_rdma_data.  *)
(***************************************************************************)
EXTENDS Fabric

ServerPcs == {"get_event", "on_connect_request", "get_cq_event", "req_notify",
              "poll", "socket_connect", "send", "read", "established",
              "disconnected", "unknown", "exited"}
WorkerPcs == {"none", "start", "copy", "post", "done"}

ServerInit ==
  /\ spc = "get_event"
  /\ event_copy = SrvEvent("DEVICE_REMOVAL", None)
  /\ ctx = FALSE
  /\ ctxConns = {}
  /\ scq = NewCq
  /\ sconn = [c \in Clients |-> "none"]
  /\ srecv = [c \in Clients |-> FALSE]
  /\ recvRegion = [c \in Clients |-> None]
  /\ sendRegion = [c \in Clients |-> None]
  /\ wc = NoWc
  /\ sock = "fresh"
  /\ cbuf = Empty
  /\ sock_rdma_data = None
  /\ wpc = [c \in Clients |-> "none"]
  /\ wconn = [c \in Clients |-> None]

(* rdma_get_cm_event, the copy, rdma_ack_cm_event and the choice of the    *)
(* branch.                                                                 *)
ServerGetEvent ==
  /\ spc = "get_event"
  /\ srvEvents # << >>
  /\ srvEvents' = Tail(srvEvents)
  /\ event_copy' = Head(srvEvents)
  /\ spc' = CASE Head(srvEvents).type = "CONNECT_REQUEST" -> "on_connect_request"
              [] Head(srvEvents).type = "ESTABLISHED"     -> "established"
              [] Head(srvEvents).type = "DISCONNECTED"    -> "disconnected"
              [] OTHER                                    -> "unknown"
  /\ UNCHANGED <<cm, rtu, cliEvents, netVars, clientVars, ctx, ctxConns, scq,
                 sconn, srecv, recvRegion, sendRegion, wc, sock, cbuf,
                 sock_rdma_data, workerVars, proxyVars>>

(* build_context and build_qp_attr: a new CQ only if s_ctx is null; the QP *)
(* completes on the CQ that s_ctx names.                                   *)
ServerBuildContext(c) ==
  /\ scq' = IF ctx THEN scq ELSE NewCq
  /\ ctx' = TRUE
  /\ ctxConns' = ctxConns \cup {c}

(* A variant of ServerPostReceives with a fault: no receive is posted.     *)
ServerPostReceivesNot(c) == UNCHANGED srecv

(* register_memory and post_receives: one receive is posted.               *)
ServerPostReceives(c) == srecv' = [srecv EXCEPT ![c] = TRUE]

(* build_context, the QP, the connection with its posted receive, then     *)
(* rdma_accept; if the client has gone, that fails and TEST_NZ ends the    *)
(* process.                                                                *)
OnConnectRequest ==
  /\ spc = "on_connect_request"
  /\ LET c == event_copy.id IN
       /\ ServerBuildContext(c)
       /\ sconn' = [sconn EXCEPT ![c] = "live"]
       /\ ServerPostReceives(c)
       /\ IF cm[c] = "requested"
            THEN /\ cm' = [cm EXCEPT ![c] = "accepted"]
                 /\ spc' = "get_cq_event"
            ELSE /\ UNCHANGED cm
                 /\ spc' = "exited"
  /\ UNCHANGED <<rtu, srvEvents, cliEvents, netVars, clientVars, event_copy,
                 recvRegion, sendRegion, wc, sock, cbuf, sock_rdma_data,
                 workerVars, proxyVars>>

(* A variant of ServerGetCqEvent with a fault: it does not block.          *)
ServerGetCqEventNonBlocking ==
  /\ spc = "get_cq_event"
  /\ scq' = IF HasEvent(scq) THEN TakeEvent(scq) ELSE scq
  /\ spc' = "req_notify"
  /\ UNCHANGED <<cmVars, netVars, clientVars, event_copy, ctx, ctxConns, sconn,
                 srecv, recvRegion, sendRegion, wc, sock, cbuf, sock_rdma_data,
                 workerVars, proxyVars>>

(* The blocking ibv_get_cq_event, and ibv_ack_cq_events.                   *)
ServerGetCqEvent ==
  /\ spc = "get_cq_event"
  /\ HasEvent(scq)
  /\ scq' = TakeEvent(scq)
  /\ spc' = "req_notify"
  /\ UNCHANGED <<cmVars, netVars, clientVars, event_copy, ctx, ctxConns, sconn,
                 srecv, recvRegion, sendRegion, wc, sock, cbuf, sock_rdma_data,
                 workerVars, proxyVars>>

ServerReqNotify ==
  /\ spc = "req_notify"
  /\ scq' = Arm(scq)
  /\ spc' = "poll"
  /\ UNCHANGED <<cmVars, netVars, clientVars, event_copy, ctx, ctxConns, sconn,
                 srecv, recvRegion, sendRegion, wc, sock, cbuf, sock_rdma_data,
                 workerVars, proxyVars>>

(* One turn of the inner loop.  What ibv_poll_cq returns is ignored: on an *)
(* empty CQ the thread looks again at what wc already holds.  Every        *)
(* receive carries RDMA_REQUEST_CONNECT_SOCKET.                            *)
ServerPoll ==
  /\ spc = "poll"
  /\ IF HasCompletion(scq)
       THEN wc' = Oldest(scq) /\ scq' = Poll(scq)
       ELSE UNCHANGED <<wc, scq>>
  /\ spc' = CASE ~wc'.ok        -> "get_event"
              [] wc'.op = "RECV" -> "socket_connect"
              [] OTHER           -> "poll"
  /\ UNCHANGED <<cmVars, netVars, clientVars, event_copy, ctx, ctxConns, sconn,
                 srecv, recvRegion, sendRegion, sock, cbuf, sock_rdma_data,
                 workerVars, proxyVars>>

(* client_thread_init: a socket that is not connected, a zeroed buffer.    *)
ClientThreadInit ==
  /\ sock' = "fresh"
  /\ cbuf' = Empty

(* connect on such a socket.                                               *)
ConnectsSocket == sock = "fresh" /\ sock' = "connected"

(* socket_connect fails on a socket that is already connected, or if       *)
(* WANProxy refuses; then the thread returns, and main with it.            *)
SocketConnect ==
  /\ spc = "socket_connect"
  /\ \/ /\ ConnectsSocket
        /\ spc' = "send"
     \/ /\ sock = "connected" \/ Faults
        /\ spc' = "exited"
        /\ UNCHANGED sock
  /\ UNCHANGED <<cmVars, netVars, clientVars, event_copy, ctx, ctxConns, scq,
                 sconn, srecv, recvRegion, sendRegion, wc, cbuf,
                 sock_rdma_data, workerVars, proxyVars>>

(* The send of socket_send_message.                                        *)
SocketSend ==
  /\ spc = "send"
  /\ pending' = recvRegion[wc.conn]
  /\ seen' = [seen EXCEPT ![recvRegion[wc.conn]] = @ + 1]
  /\ spc' = "read"
  /\ UNCHANGED <<reply, cmVars, netVars, clientVars, event_copy, ctx, ctxConns,
                 scq, sconn, srecv, recvRegion, sendRegion, wc, sock, cbuf,
                 sock_rdma_data, workerVars>>

(* A variant of SocketRead with a fault: sock_rdma_data is set only while  *)
(* it is null, as the commented-out lines 166 to 170 have it without the   *)
(* reset.                                                                  *)
SocketReadKeepsOldAnswer ==
  /\ spc = "read"
  /\ reply # None
  /\ cbuf' = IF reply = Empty THEN cbuf ELSE reply
  /\ sock_rdma_data' = IF sock_rdma_data = None THEN cbuf' ELSE sock_rdma_data
  /\ reply' = None
  /\ spc' = "get_event"
  /\ UNCHANGED <<pending, seen, cmVars, netVars, clientVars, event_copy, ctx,
                 ctxConns, scq, sconn, srecv, recvRegion, sendRegion, wc, sock,
                 workerVars>>

(* A variant of SocketRead with a fault: sock_rdma_data stays null.        *)
SocketReadUnpublished ==
  /\ spc = "read"
  /\ reply # None
  /\ cbuf' = IF reply = Empty THEN cbuf ELSE reply
  /\ reply' = None
  /\ spc' = "get_event"
  /\ UNCHANGED <<sock_rdma_data, pending, seen, cmVars, netVars, clientVars,
                 event_copy, ctx, ctxConns, scq, sconn, srecv, recvRegion,
                 sendRegion, wc, sock, workerVars>>

(* A variant of SocketRead with a fault: when WANProxy has closed the      *)
(* connection the request is sent once more.                               *)
SocketReadRetries ==
  /\ spc = "read"
  /\ reply # None
  /\ cbuf' = IF reply = Empty THEN cbuf ELSE reply
  /\ sock_rdma_data' = cbuf'
  /\ reply' = None
  /\ spc' = IF reply = Empty THEN "send" ELSE "get_event"
  /\ UNCHANGED <<pending, seen, cmVars, netVars, clientVars, event_copy, ctx,
                 ctxConns, scq, sconn, srecv, recvRegion, sendRegion, wc, sock,
                 workerVars>>

(* The blocking read of socket_send_message, and the assignment of         *)
(* sock_rdma_data.  A read of nothing leaves the buffer zeroed.  The       *)
(* buffer of a c_info is written only here, once, so sock_rdma_data can    *)
(* stand for what it points to.                                            *)
SocketRead ==
  /\ spc = "read"
  /\ reply # None
  /\ cbuf' = IF reply = Empty THEN cbuf ELSE reply
  /\ sock_rdma_data' = cbuf'
  /\ reply' = None
  /\ spc' = "get_event"
  /\ UNCHANGED <<pending, seen, cmVars, netVars, clientVars, event_copy, ctx,
                 ctxConns, scq, sconn, srecv, recvRegion, sendRegion, wc, sock,
                 workerVars>>

(* A variant of OnEstablished with a fault: c_info is not replaced.        *)
OnEstablishedKeepsSocket ==
  /\ spc = "established"
  /\ wpc' = [wpc EXCEPT ![event_copy.id] = "start"]
  /\ spc' = "get_event"
  /\ UNCHANGED <<cmVars, netVars, clientVars, event_copy, ctx, ctxConns, scq,
                 sconn, srecv, recvRegion, sendRegion, wc, sock, cbuf,
                 sock_rdma_data, wconn, proxyVars>>

(* A variant of OnEstablished with a fault: the worker is not created.     *)
OnEstablishedNoWorker ==
  /\ spc = "established"
  /\ ClientThreadInit
  /\ spc' = "get_event"
  /\ UNCHANGED <<cmVars, netVars, clientVars, event_copy, ctx, ctxConns, scq,
                 sconn, srecv, recvRegion, sendRegion, wc, sock_rdma_data,
                 workerVars, proxyVars>>

(* ESTABLISHED: the worker is created; the socket is closed and c_info     *)
(* replaced by a fresh one.                                                *)
OnEstablished ==
  /\ spc = "established"
  /\ wpc' = [wpc EXCEPT ![event_copy.id] = "start"]
  /\ ClientThreadInit
  /\ spc' = "get_event"
  /\ UNCHANGED <<cmVars, netVars, clientVars, event_copy, ctx, ctxConns, scq,
                 sconn, srecv, recvRegion, sendRegion, wc, sock_rdma_data,
                 wconn, proxyVars>>

(* on_disconnect destroys the QP and frees the connection.                 *)
FreeConnection(c) ==
  /\ sconn' = [sconn EXCEPT ![c] = "freed"]
  /\ srecv' = [srecv EXCEPT ![c] = FALSE]

(* DISCONNECTED: s_ctx = NULL drops the context without releasing it.      *)
OnDisconnect ==
  /\ spc = "disconnected"
  /\ FreeConnection(event_copy.id)
  /\ ctx' = FALSE
  /\ ctxConns' = {}
  /\ spc' = "get_event"
  /\ UNCHANGED <<cmVars, netVars, clientVars, event_copy, scq, recvRegion,
                 sendRegion, wc, sock, cbuf, sock_rdma_data,
                 workerVars, proxyVars>>

(* Any other event: die.                                                   *)
OnUnknown ==
  /\ spc = "unknown"
  /\ spc' = "exited"
  /\ UNCHANGED <<cmVars, netVars, clientVars, event_copy, ctx, ctxConns, scq,
                 sconn, srecv, recvRegion, sendRegion, wc, sock, cbuf,
                 sock_rdma_data, workerVars, proxyVars>>

ServerThread ==
  \/ ServerGetEvent \/ OnConnectRequest \/ ServerGetCqEvent \/ ServerReqNotify
  \/ ServerPoll \/ SocketConnect \/ SocketSend \/ SocketRead
  \/ OnEstablished \/ OnDisconnect \/ OnUnknown
-----------------------------------------------------------------------------
(* The sock_rdma_thread worker created for c's ESTABLISHED event; it runs  *)
(* while the process does.  Through a pointer that is null or freed it     *)
(* takes the process down.                                                 *)

(* event->id->context, read through the pointer to the shared event_copy.  *)
WorkerStart(c) ==
  /\ SrvUp
  /\ wpc[c] = "start"
  /\ IF event_copy.id \in Clients /\ sconn[event_copy.id] = "live"
       THEN /\ wconn' = [wconn EXCEPT ![c] = event_copy.id]
            /\ wpc' = [wpc EXCEPT ![c] = "copy"]
            /\ UNCHANGED spc
       ELSE /\ spc' = "exited"
            /\ UNCHANGED workerVars
  /\ UNCHANGED <<cmVars, netVars, clientVars, event_copy, ctx, ctxConns, scq,
                 sconn, srecv, recvRegion, sendRegion, wc, sock, cbuf,
                 sock_rdma_data, proxyVars>>

(* The memcpy of on_connection.                                            *)
WorkerCopy(c) ==
  /\ SrvUp
  /\ wpc[c] = "copy"
  /\ IF sconn[wconn[c]] = "live" /\ sock_rdma_data # None
       THEN /\ sendRegion' = [sendRegion EXCEPT ![wconn[c]] = sock_rdma_data]
            /\ wpc' = [wpc EXCEPT ![c] = "post"]
            /\ UNCHANGED spc
       ELSE /\ spc' = "exited"
            /\ UNCHANGED <<sendRegion, wpc>>
  /\ UNCHANGED <<cmVars, netVars, clientVars, event_copy, ctx, ctxConns, scq,
                 sconn, srecv, recvRegion, wc, sock, cbuf, sock_rdma_data,
                 wconn, proxyVars>>

(* The signaled ibv_post_send of on_connection.                            *)
WorkerPost(c) ==
  /\ SrvUp
  /\ wpc[c] = "post"
  /\ IF sconn[wconn[c]] = "live"
       THEN /\ rsp' = [rsp EXCEPT ![wconn[c]] = @ + 1]
            /\ wpc' = [wpc EXCEPT ![c] = "done"]
            /\ UNCHANGED spc
       ELSE /\ spc' = "exited"
            /\ UNCHANGED <<rsp, wpc>>
  /\ UNCHANGED <<req, cmVars, clientVars, event_copy, ctx, ctxConns, scq,
                 sconn, srecv, recvRegion, sendRegion, wc, sock, cbuf,
                 sock_rdma_data, wconn, proxyVars>>

Worker(c) == WorkerStart(c) \/ WorkerCopy(c) \/ WorkerPost(c)
=============================================================================
