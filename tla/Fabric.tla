------------------------------- MODULE Fabric -------------------------------
(***************************************************************************)
(* The state that ./client and ./server of wanproxy_server_side share, and *)
(* the external parts that move it: the RDMA connection manager (librdmacm *)
(* and the kernel), the adapters, and WANProxy.                            *)
(*                                                                         *)
(* The connection manager (CM) takes one connection of a client through    *)
(*                                                                         *)
(*   idle -> resolving_addr -> addr_done -> resolving_route -> route_done  *)
(*        -> connecting -> requested -> accepted -> connected              *)
(*        -> disconnecting -> disconnected -> closed                       *)
(*                                                                         *)
(* and queues an event at an endpoint's event channel when the endpoint    *)
(* has something to see.  Channels are FIFO, and the CM messages of one    *)
(* connection arrive in the order they were sent (RTU before DREQ).        *)
(***************************************************************************)
EXTENDS CompletionQueue

CONSTANTS
  Clients,      \* the runs of ./client; a client is also the request it makes
  None,         \* a null pointer or unwritten memory
  Empty,        \* a zeroed buffer: no answer was read into it
  Faults,       \* TRUE: addresses, routes, files and WANProxy may fail
  Overlap,      \* TRUE: clients may run at the same time
  Crashes       \* TRUE: a client may die at any time, and a connection request
                \* that a blocked server does not answer may time out

ASSUME FabricAssumption ==
  /\ None \notin Clients /\ Empty \notin Clients /\ None # Empty
  /\ Faults \in BOOLEAN /\ Overlap \in BOOLEAN /\ Crashes \in BOOLEAN

VARIABLES
  \* ---- the connection manager
  cm,          \* [Clients -> CmStates], the connection as the CM sees it
  rtu,         \* clients whose ready-to-use message is on its way
  srvEvents,   \* the server's event channel, r_info->ec
  cliEvents,   \* [Clients -> Seq], the clients' event channels
  \* ---- posted sends
  req,         \* [Clients -> ReqStates], the client's one request
  rsp,         \* [Clients -> Nat], posted responses not yet transferred
  \* ---- a client process
  cpc,         \* the main thread, rdma_sock_linker
  ppc, pwc,    \* the poller thread, poll_cq, and its local wc
  ccq,         \* s_ctx->cq and s_ctx->comp_channel
  cconn,       \* the connection structure: none, live or freed
  num,         \* conn->num_completions
  crecv,       \* a receive is posted
  cregion,     \* conn->recv_region
  \* ---- the server process, thread rdma_sock_thread
  spc,         \* where the thread is
  event_copy,  \* the local copy of the CM event
  ctx,         \* s_ctx # NULL
  ctxConns,    \* connections whose QP completes on s_ctx->cq
  scq,         \* s_ctx->cq and s_ctx->comp_channel
  sconn,       \* id->context: none, live or freed
  srecv,       \* a receive is posted
  recvRegion,  \* conn->recv_region
  sendRegion,  \* conn->send_region
  wc,          \* the one struct ibv_wc, allocated before the loop
  sock,        \* c_info->socket: fresh or connected
  cbuf,        \* c_info->buffer
  sock_rdma_data,  \* what the global of that name points to
  \* ---- the server's sock_rdma_thread workers, one per ESTABLISHED event
  wpc, wconn,
  \* ---- WANProxy, on the other end of c_info->socket
  pending,     \* the request it has and has not answered
  reply,       \* its answer, not read yet
  seen         \* [Clients -> Nat], how often it was sent each request

cmVars     == <<cm, rtu, srvEvents, cliEvents>>
netVars    == <<req, rsp>>
clientVars == <<cpc, ppc, pwc, ccq, cconn, num, crecv, cregion>>
serverVars == <<spc, event_copy, ctx, ctxConns, scq, sconn, srecv,
                recvRegion, sendRegion, wc, sock, cbuf, sock_rdma_data>>
workerVars == <<wpc, wconn>>
proxyVars  == <<pending, reply, seen>>

vars == <<cmVars, netVars, clientVars, serverVars, workerVars, proxyVars>>

CmStates == {"idle", "resolving_addr", "addr_done", "resolving_route",
             "route_done", "connecting", "requested", "accepted", "connected",
             "disconnecting", "disconnected", "closed"}
ReqStates == {"none", "posted", "delivered", "acked", "failed"}
CliEventTypes == {"ADDR_RESOLVED", "ROUTE_RESOLVED", "ESTABLISHED",
                  "DISCONNECTED", "ADDR_ERROR", "ROUTE_ERROR", "REJECTED",
                  "UNREACHABLE"}
SrvEventTypes == {"CONNECT_REQUEST", "ESTABLISHED", "DISCONNECTED",
                  "REJECTED", "DEVICE_REMOVAL"}
Data == Clients \cup {None, Empty}

SrvEvent(t, c) == [type |-> t, id |-> c]
SrvEventSet    == [type : SrvEventTypes \ {"DEVICE_REMOVAL"}, id : Clients]
                    \cup {SrvEvent("DEVICE_REMOVAL", None)}
Wc(op, ok, c)  == [op |-> op, ok |-> ok, conn |-> c]
NoWc           == [op |-> "SEND", ok |-> FALSE, conn |-> None]
ClientWcs      == WorkCompletion(Clients)
ServerWcs      == {w \in WorkCompletion(Clients \cup {None}) :
                     w.op = "RECV" => w.conn \in Clients}

SrvUp    == spc # "exited"
Ended(c) == cpc[c] \in {"exited", "died"}
TellClient(c, t)  == cliEvents' = [cliEvents EXCEPT ![c] = Append(@, t)]
TellServer(t, c)  == srvEvents' = Append(srvEvents, SrvEvent(t, c))

FabricInit ==
  /\ cm = [c \in Clients |-> "idle"]
  /\ rtu = {}
  /\ srvEvents = << >>
  /\ cliEvents = [c \in Clients |-> << >>]
  /\ req = [c \in Clients |-> "none"]
  /\ rsp = [c \in Clients |-> 0]
  /\ pending = None
  /\ reply = None
  /\ seen = [c \in Clients |-> 0]
-----------------------------------------------------------------------------
(* The connection manager.                                                 *)

(* The answer to rdma_resolve_addr.                                        *)
CmAddr(c) ==
  /\ cm[c] = "resolving_addr"
  /\ cm' = [cm EXCEPT ![c] = "addr_done"]
  /\ \/ TellClient(c, "ADDR_RESOLVED")
     \/ Faults /\ TellClient(c, "ADDR_ERROR")
  /\ UNCHANGED <<rtu, srvEvents>>

(* The answer to rdma_resolve_route.                                       *)
CmRoute(c) ==
  /\ cm[c] = "resolving_route"
  /\ cm' = [cm EXCEPT ![c] = "route_done"]
  /\ \/ TellClient(c, "ROUTE_RESOLVED")
     \/ Faults /\ TellClient(c, "ROUTE_ERROR")
  /\ UNCHANGED <<rtu, srvEvents>>

(* The connection request reaches the listening server.                    *)
CmRequest(c) ==
  /\ cm[c] = "connecting"
  /\ SrvUp
  /\ cm' = [cm EXCEPT ![c] = "requested"]
  /\ TellServer("CONNECT_REQUEST", c)
  /\ UNCHANGED <<rtu, cliEvents>>

(* rdma_accept's reply reaches the client, which answers it with an RTU.   *)
CmReply(c) ==
  /\ cm[c] = "accepted"
  /\ ~Ended(c)
  /\ cm' = [cm EXCEPT ![c] = "connected"]
  /\ rtu' = rtu \cup {c}
  /\ TellClient(c, "ESTABLISHED")
  /\ UNCHANGED srvEvents

(* The RTU reaches the server.  The client's first message may overtake    *)
(* it: the server's QP has been ready since rdma_accept.                   *)
CmRtu(c) ==
  /\ c \in rtu
  /\ rtu' = rtu \ {c}
  /\ IF SrvUp THEN TellServer("ESTABLISHED", c) ELSE UNCHANGED srvEvents
  /\ UNCHANGED <<cm, cliEvents>>

(* The client's disconnect request reaches the server.                     *)
CmDreq(c) ==
  /\ cm[c] = "disconnecting"
  /\ c \notin rtu
  /\ SrvUp
  /\ cm' = [cm EXCEPT ![c] = "disconnected"]
  /\ TellServer("DISCONNECTED", c)
  /\ UNCHANGED <<rtu, cliEvents>>

(* The client hears that its disconnect is over: the server has destroyed  *)
(* its id, or the client's CM has given up waiting for that.               *)
CmDrep(c) ==
  /\ cm[c] = "disconnected"
  /\ cm' = [cm EXCEPT ![c] = "closed"]
  /\ TellClient(c, "DISCONNECTED")
  /\ UNCHANGED <<rtu, srvEvents>>

(* The server process is gone: the kernel has closed its ids.              *)
CmServerGone(c) ==
  /\ ~SrvUp
  /\ cm' = [cm EXCEPT ![c] = "closed"]
  /\ \/ /\ cm[c] \in {"connecting", "requested"}
        /\ \/ TellClient(c, "REJECTED")
           \/ TellClient(c, "UNREACHABLE")
     \/ /\ cm[c] \in {"connected", "disconnecting"}
        /\ TellClient(c, "DISCONNECTED")
  /\ UNCHANGED <<rtu, srvEvents>>

(* The client has died: the kernel has closed its id.  A request that is   *)
(* not accepted yet is dropped, and accepting it will fail; a reply to it  *)
(* is rejected; a connection is disconnected.                              *)
CmClientGone(c) ==
  /\ cpc[c] = "died"
  /\ \/ /\ cm[c] \in {"connecting", "requested"}
        /\ cm' = [cm EXCEPT ![c] = "closed"]
        /\ UNCHANGED srvEvents
     \/ /\ cm[c] = "accepted"
        /\ cm' = [cm EXCEPT ![c] = "closed"]
        /\ TellServer("REJECTED", c)
     \/ /\ cm[c] = "connected"
        /\ cm' = [cm EXCEPT ![c] = "disconnecting"]
        /\ UNCHANGED srvEvents
  /\ UNCHANGED <<rtu, cliEvents>>

(* The client's CM gives up on a request that the server has not accepted, *)
(* after about a minute: the server is blocked in a call for another       *)
(* client.  The request is dropped.                                        *)
CmTimeout(c) ==
  /\ Crashes
  /\ cm[c] = "requested" /\ ~Ended(c)
  /\ spc \in {"get_cq_event", "read"}
  /\ cm' = [cm EXCEPT ![c] = "closed"]
  /\ TellClient(c, "UNREACHABLE")
  /\ UNCHANGED <<rtu, srvEvents>>

(* The server's device goes away: an event of a type the server's loop     *)
(* does not know.                                                          *)
CmDeviceRemoval ==
  /\ Faults
  /\ SrvUp
  /\ \A i \in DOMAIN srvEvents : srvEvents[i].type # "DEVICE_REMOVAL"
  /\ TellServer("DEVICE_REMOVAL", None)
  /\ UNCHANGED <<cm, rtu, cliEvents>>

CmStep(c) ==
  /\ \/ CmAddr(c) \/ CmRoute(c) \/ CmRequest(c) \/ CmReply(c) \/ CmRtu(c)
     \/ CmDreq(c) \/ CmDrep(c) \/ CmServerGone(c) \/ CmClientGone(c)
     \/ CmTimeout(c)
  /\ UNCHANGED <<netVars, clientVars, serverVars, workerVars, proxyVars>>

CmFault ==
  /\ CmDeviceRemoval
  /\ UNCHANGED <<netVars, clientVars, serverVars, workerVars, proxyVars>>
-----------------------------------------------------------------------------
(* The adapters.  Both sides connect with a zeroed rdma_conn_param, so     *)
(* rnr_retry_count is 0: a message that finds no posted receive fails.     *)

ServerQpReady(c) == SrvUp /\ sconn[c] = "live" /\ srecv[c]
ClientQpReady(c) == ~Ended(c) /\ cconn[c] = "live" /\ crecv[c]

(* A completion on a server QP is seen only if the QP's CQ is still the    *)
(* one s_ctx names; the CQs that s_ctx = NULL leaks are never polled.  A   *)
(* receive has wr_id = conn; the send's wr_id is left zero.                *)
ServerCompletes(c, w) ==
  scq' = IF c \in ctxConns THEN Complete(scq, w) ELSE scq

DeliverRequest(c) ==
  /\ req[c] = "posted"
  /\ ServerQpReady(c)
  /\ req' = [req EXCEPT ![c] = "delivered"]
  /\ srecv' = [srecv EXCEPT ![c] = FALSE]
  /\ recvRegion' = [recvRegion EXCEPT ![c] = c]
  /\ ServerCompletes(c, Wc("RECV", TRUE, c))
  /\ UNCHANGED <<rsp, cmVars, clientVars, spc, event_copy, ctx, ctxConns,
                 sconn, sendRegion, wc, sock, cbuf, sock_rdma_data,
                 workerVars, proxyVars>>

(* The acknowledgement completes the client's send; the response may have  *)
(* arrived before it.                                                      *)
AckRequest(c) ==
  /\ req[c] = "delivered"
  /\ req' = [req EXCEPT ![c] = "acked"]
  /\ ccq' = IF cconn[c] = "live"
              THEN [ccq EXCEPT ![c] = Complete(@, Wc("SEND", TRUE, c))]
              ELSE ccq
  /\ UNCHANGED <<rsp, cmVars, cpc, ppc, pwc, cconn, num, crecv, cregion,
                 serverVars, workerVars, proxyVars>>

(* The request finds no receive, or its sender dies before it is on the   *)
(* wire.                                                                   *)
FailRequest(c) ==
  /\ req[c] = "posted"
  /\ ~ServerQpReady(c) \/ Ended(c)
  /\ req' = [req EXCEPT ![c] = "failed"]
  /\ ccq' = IF cconn[c] = "live"
              THEN [ccq EXCEPT ![c] = Complete(@, Wc("SEND", FALSE, c))]
              ELSE ccq
  /\ UNCHANGED <<rsp, cmVars, cpc, ppc, pwc, cconn, num, crecv, cregion,
                 serverVars, workerVars, proxyVars>>

(* The adapter reads send_region when it transfers the message, not when   *)
(* the send is posted.                                                     *)
DeliverResponse(c) ==
  /\ rsp[c] > 0
  /\ SrvUp /\ sconn[c] = "live"
  /\ ClientQpReady(c)
  /\ rsp' = [rsp EXCEPT ![c] = @ - 1]
  /\ crecv' = [crecv EXCEPT ![c] = FALSE]
  /\ cregion' = [cregion EXCEPT ![c] = sendRegion[c]]
  /\ ccq' = [ccq EXCEPT ![c] = Complete(@, Wc("RECV", TRUE, c))]
  /\ ServerCompletes(c, Wc("SEND", TRUE, None))
  /\ UNCHANGED <<req, cmVars, cpc, ppc, pwc, cconn, num,
                 spc, event_copy, ctx, ctxConns, sconn, srecv, recvRegion,
                 sendRegion, wc, sock, cbuf, sock_rdma_data,
                 workerVars, proxyVars>>

FailResponse(c) ==
  /\ rsp[c] > 0
  /\ SrvUp /\ sconn[c] = "live"
  /\ ~ClientQpReady(c)
  /\ rsp' = [rsp EXCEPT ![c] = @ - 1]
  /\ ServerCompletes(c, Wc("SEND", FALSE, None))
  /\ UNCHANGED <<req, cmVars, clientVars, spc, event_copy, ctx, ctxConns,
                 sconn, srecv, recvRegion, sendRegion, wc, sock, cbuf,
                 sock_rdma_data, workerVars, proxyVars>>

Adapter(c) ==
  \/ DeliverRequest(c) \/ AckRequest(c) \/ FailRequest(c)
  \/ DeliverResponse(c) \/ FailResponse(c)
-----------------------------------------------------------------------------
(* WANProxy answers the request it was sent, or closes the connection.  A  *)
(* request and the answer to it have the same name.                        *)
ProxyAnswers ==
  /\ pending # None
  /\ SrvUp
  /\ \/ reply' = pending
     \/ Faults /\ reply' = Empty
  /\ pending' = None
  /\ UNCHANGED <<seen, cmVars, netVars, clientVars, serverVars, workerVars>>
=============================================================================
