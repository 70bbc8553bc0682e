--------------------------- MODULE TwoThreadBridge ---------------------------
(***************************************************************************)
(* The bridge of wanproxy_client_side: rdma_server.c, server_main.c and    *)
(* client.c, as test_plain_server builds them (its README: "two threads",  *)
(* rdma_sock and sock_rdma).                                               *)
(*                                                                         *)
(* sock_rdma_thread takes the CM events and answers a client at its        *)
(* ESTABLISHED event; rdma_sock_thread polls the CQ, sends each request to *)
(* WANProxy and publishes the answer in sock_rdma_data.  The first waits   *)
(* until sock_rdma_data is null, which the second makes non-null, and no   *)
(* line that would reset it is compiled.                                   *)
(*                                                                         *)
(* s_info->socket is never set, so the read from it may block, fail, end   *)
(* or bring data; the connection parameters given to rdma_accept are never *)
(* set either, so that it works or ends the server.  A client has no end   *)
(* but a crash: what it dies of (a failed completion, an event unknown to  *)
(* on_event) looks the same to the server.  send and recv regions of one   *)
(* message are abstracted to whose answer they hold, and the copy of a     *)
(* region to one step.                                                     *)
(***************************************************************************)
EXTENDS CompletionQueue, FiniteSets

CONSTANTS
  Clients,   \* the runs of ./client, a request and its answer each
  None,      \* a null pointer, or memory never written
  Zero,      \* a zeroed buffer
  MaxCrashes \* how many clients may crash

ASSUME TwoThreadAssumption ==
  /\ None \notin Clients /\ Zero \notin Clients /\ None # Zero
  /\ None # "c_info" /\ None # "s_info"
  /\ MaxCrashes \in Nat

VARIABLES
  cst,             \* [Clients -> idle, connecting, connected or crashed]
  req,             \* [Clients -> none, posted or delivered]
  acc,             \* [Clients -> no, accepted, rtu or known], the connection
  srvEvents,       \* the event channel of the server
  spc, cur,        \* sock_rdma_thread, and event_copy.id
  status,          \* r_info->status
  sock_rdma_data,  \* None, c_info or s_info: the buffer it points to
  cbuf,            \* c_info->buffer
  region,          \* [Clients -> Data], conn->send_region
  ans,             \* [Clients -> none, posted or done], the send of it
  cq, ppc, wc,     \* s_ctx->cq; rdma_sock_thread, and its *wc
  open,            \* WANProxy has not closed c_info->socket
  pending, reply,  \* the request WANProxy has, and its answer not yet read
  seen             \* [Clients -> Nat], requests WANProxy was sent

cliVars   == <<cst, req>>
evtVars   == <<spc, cur, status, region>>
pollVars  == <<ppc, wc, cbuf>>
proxyVars == <<open, pending, reply, seen>>
vars == <<cliVars, acc, srvEvents, evtVars, sock_rdma_data, ans, cq, pollVars,
          proxyVars>>

Data == Clients \cup {None, Zero, "local"}
EventTypes == {"CONNECT_REQUEST", "ESTABLISHED", "DISCONNECTED", "REJECTED"}
Up == spc # "died"

Init ==
  /\ cst = [c \in Clients |-> "idle"]
  /\ req = [c \in Clients |-> "none"]
  /\ acc = [c \in Clients |-> "no"]
  /\ srvEvents = << >>
  /\ spc = "get_cm_event" /\ cur = None /\ status = "none"
  /\ sock_rdma_data = None
  /\ cbuf = Zero
  /\ region = [c \in Clients |-> None]
  /\ ans = [c \in Clients |-> "none"]
  /\ cq = NewCq
  /\ ppc = "none" /\ wc = [op |-> "SEND", ok |-> TRUE, conn |-> None]
  /\ open = TRUE /\ pending = None /\ reply = None
  /\ seen = [c \in Clients |-> 0]

Tell(t, c) == srvEvents' = Append(srvEvents, [type |-> t, id |-> c])
-----------------------------------------------------------------------------
(* A client.                                                               *)

(* on_addr_resolved posts the receive, and on_route_resolved connects.     *)
ClientConnect(c) ==
  /\ cst[c] = "idle"
  /\ cst' = [cst EXCEPT ![c] = "connecting"]
  /\ Tell("CONNECT_REQUEST", c)
  /\ UNCHANGED <<req, acc, evtVars, sock_rdma_data, ans, cq, pollVars,
                 proxyVars>>

(* on_connection posts the request; the RTU goes to the server.            *)
ClientOnConnection(c) ==
  /\ cst[c] = "connecting" /\ acc[c] = "accepted"
  /\ cst' = [cst EXCEPT ![c] = "connected"]
  /\ req' = [req EXCEPT ![c] = "posted"]
  /\ acc' = [acc EXCEPT ![c] = "rtu"]
  /\ UNCHANGED <<srvEvents, evtVars, sock_rdma_data, ans, cq, pollVars,
                 proxyVars>>

(* A client is interrupted or dies: its loop does not end at DISCONNECTED, *)
(* but on_completion dies of a completion that failed, and on_event of     *)
(* ADDR_ERROR, ROUTE_ERROR, REJECTED or UNREACHABLE.                       *)
ClientCrash(c) ==
  /\ cst[c] \in {"connecting", "connected"}
  /\ Cardinality({d \in Clients : cst[d] = "crashed"}) < MaxCrashes
  /\ cst' = [cst EXCEPT ![c] = "crashed"]
  /\ UNCHANGED <<req, acc, srvEvents, evtVars, sock_rdma_data, ans, cq,
                 pollVars, proxyVars>>
-----------------------------------------------------------------------------
(* The connection manager and the adapters.                                *)

(* What the server hears of a connection it has accepted: the RTU, or that *)
(* the client is gone.                                                     *)
CmEvent(c) ==
  /\ Up
  /\ \/ /\ acc[c] = "rtu"
        /\ acc' = [acc EXCEPT ![c] = "known"]
        /\ Tell("ESTABLISHED", c)
     \/ /\ cst[c] = "crashed" /\ acc[c] \in {"accepted", "known"}
        /\ acc' = [acc EXCEPT ![c] = "no"]
        /\ Tell(IF acc[c] = "known" THEN "DISCONNECTED" ELSE "REJECTED", c)
  /\ UNCHANGED <<cliVars, evtVars, sock_rdma_data, ans, cq, pollVars, proxyVars>>

(* The request may come before the server knows of the connection.         *)
DeliverRequest(c) ==
  /\ Up
  /\ req[c] = "posted" /\ cst[c] = "connected"
  /\ req' = [req EXCEPT ![c] = "delivered"]
  /\ cq' = Complete(cq, [op |-> "RECV", ok |-> TRUE, conn |-> c])
  /\ UNCHANGED <<cst, acc, srvEvents, evtVars, sock_rdma_data, ans,
                 pollVars, proxyVars>>

(* The answer is transferred, or fails because the client is gone.         *)
DeliverAnswer(c) ==
  LET ok == cst[c] # "crashed" IN
    /\ Up
    /\ ans[c] = "posted"
    /\ ans' = [ans EXCEPT ![c] = "done"]
    /\ cq' = Complete(cq, [op |-> "SEND", ok |-> ok, conn |-> None])
    /\ UNCHANGED <<cst, req, acc, srvEvents, evtVars, sock_rdma_data, pollVars,
                   proxyVars>>
-----------------------------------------------------------------------------
(* sock_rdma_thread.                                                       *)

GetsEvent(t) ==
  /\ spc = "get_cm_event" /\ srvEvents # << >>
  /\ Head(srvEvents).type = t
  /\ cur' = Head(srvEvents).id
  /\ srvEvents' = Tail(srvEvents)

(* on_connect_request; build_context starts the other thread.              *)
OnConnectRequest ==
  /\ GetsEvent("CONNECT_REQUEST")
  /\ status' = "CONNECT_REQUEST"
  /\ ppc' = IF ppc = "none" THEN "get_cq_event" ELSE ppc
  /\ \/ spc' = "died" /\ UNCHANGED acc
     \/ UNCHANGED spc /\ acc' = [acc EXCEPT ![Head(srvEvents).id] = "accepted"]
  /\ UNCHANGED <<cliVars, region, sock_rdma_data, ans, cq, wc, cbuf, proxyVars>>

OnEstablished ==
  /\ GetsEvent("ESTABLISHED")
  /\ status' = "ESTABLISHED"
  /\ spc' = "wait"
  /\ UNCHANGED <<cliVars, acc, region, sock_rdma_data, ans, cq, pollVars,
                 proxyVars>>

(* while (sock_rdma_data != NULL) sleep(1); and one more sleep.            *)
StopWaiting ==
  /\ spc = "wait" /\ sock_rdma_data = None
  /\ spc' = "connection"
  /\ UNCHANGED <<cliVars, acc, srvEvents, cur, status, region, sock_rdma_data,
                 ans, cq, pollVars, proxyVars>>

Pointed == IF sock_rdma_data = "c_info" THEN cbuf ELSE "local"

(* A variant of OnConnection with a fault against the code as it is: the   *)
(* reset of line 167 is compiled.                                          *)
OnConnectionResets ==
  /\ spc = "connection"
  /\ region' = IF sock_rdma_data = None THEN region
               ELSE [region EXCEPT ![cur] = Pointed]
  /\ sock_rdma_data' = None
  /\ ans' = [ans EXCEPT ![cur] = "posted"]
  /\ spc' = "read"
  /\ UNCHANGED <<cliVars, acc, srvEvents, cur, status, cq, pollVars, proxyVars>>

(* on_connection sends what there is, or a region nobody wrote.            *)
OnConnection ==
  /\ spc = "connection"
  /\ region' = IF sock_rdma_data = None THEN region
               ELSE [region EXCEPT ![cur] = Pointed]
  /\ ans' = [ans EXCEPT ![cur] = "posted"]
  /\ spc' = "read"
  /\ UNCHANGED <<cliVars, acc, srvEvents, cur, status, sock_rdma_data, cq,
                 pollVars, proxyVars>>

(* Nothing is freed, and no event is unknown.                              *)
OnOther ==
  /\ \/ GetsEvent("DISCONNECTED") /\ status' = "DISCONNECTED"
     \/ GetsEvent("REJECTED") /\ UNCHANGED status
  /\ spc' = IF status' = "ESTABLISHED" THEN "read" ELSE spc
  /\ UNCHANGED <<cliVars, acc, region, sock_rdma_data, ans, cq, pollVars,
                 proxyVars>>

(* read from s_info->socket, if it returns: data is published, an error    *)
(* closes whatever the descriptors are, the end is passed over.            *)
ReadSocket ==
  /\ spc = "read"
  /\ sock_rdma_data' = "s_info" \/ UNCHANGED sock_rdma_data
  /\ spc' = "get_cm_event"
  /\ UNCHANGED <<cliVars, acc, srvEvents, cur, status, region, ans, cq, pollVars,
                 proxyVars>>

SockRdma ==
  OnConnectRequest \/ OnEstablished \/ StopWaiting \/ OnConnection \/ OnOther
-----------------------------------------------------------------------------
(* rdma_sock_thread.                                                       *)

GetCqEvent ==
  /\ Up
  /\ ppc = "get_cq_event" /\ HasEvent(cq)
  /\ cq' = TakeEvent(cq)
  /\ ppc' = "req_notify"
  /\ UNCHANGED <<cliVars, acc, srvEvents, evtVars, sock_rdma_data, ans, wc, cbuf,
                 proxyVars>>

ReqNotify ==
  /\ Up
  /\ ppc = "req_notify"
  /\ cq' = Arm(cq)
  /\ ppc' = "poll"
  /\ UNCHANGED <<cliVars, acc, srvEvents, evtVars, sock_rdma_data, ans, wc, cbuf,
                 proxyVars>>

(* A variant of PollCq with a fault: the null at line 417 is compiled.     *)
PollCqResets ==
  /\ Up
  /\ ppc = "poll"
  /\ HasCompletion(cq)
  /\ wc' = Oldest(cq) /\ cq' = Poll(cq)
  /\ ppc' = IF wc'.op = "RECV" THEN "send" ELSE "poll"
  /\ sock_rdma_data' = IF wc'.op = "SEND" THEN None ELSE sock_rdma_data
  /\ UNCHANGED <<cliVars, acc, srvEvents, evtVars, ans, cbuf, proxyVars>>

(* The drain loop; a failed completion leaves it, with what is still in    *)
(* the CQ.                                                                 *)
PollCq ==
  /\ Up
  /\ ppc = "poll"
  /\ \/ /\ HasCompletion(cq)
        /\ wc' = Oldest(cq) /\ cq' = Poll(cq)
        /\ \/ ~wc'.ok /\ ppc' = "get_cq_event"
           \/ wc'.ok /\ wc'.op = "RECV" /\ ppc' = "send"
           \/ wc'.ok /\ wc'.op = "SEND" /\ UNCHANGED ppc
     \/ /\ ~HasCompletion(cq)
        /\ ppc' = "get_cq_event"
        /\ UNCHANGED <<wc, cq>>
  /\ UNCHANGED <<cliVars, acc, srvEvents, evtVars, sock_rdma_data, ans, cbuf,
                 proxyVars>>

(* socket_send_message: send; to a closed connection it may raise SIGPIPE. *)
SocketSend ==
  /\ Up
  /\ ppc = "send"
  /\ IF open
       THEN /\ seen' = [seen EXCEPT ![wc.conn] = @ + 1]
            /\ pending' = wc.conn
            /\ UNCHANGED spc
       ELSE UNCHANGED <<seen, pending>> /\ (spc' = "died" \/ UNCHANGED spc)
  /\ ppc' = "read"
  /\ UNCHANGED <<cliVars, acc, srvEvents, cur, status, region, sock_rdma_data,
                 ans, cq, wc, cbuf, open, reply>>

(* Its read, which waits for an answer or for the end of the connection.   *)
SocketRead ==
  /\ Up
  /\ ppc = "read"
  /\ reply # None \/ ~open
  /\ cbuf' = IF reply # None THEN reply ELSE cbuf
  /\ reply' = None
  /\ ppc' = "publish"
  /\ UNCHANGED <<cliVars, acc, srvEvents, evtVars, sock_rdma_data, ans, cq, wc,
                 open, pending, seen>>

(* sock_rdma_data = c_info->buffer.                                        *)
Publish ==
  /\ Up
  /\ ppc = "publish"
  /\ sock_rdma_data' = "c_info"
  /\ ppc' = "poll"
  /\ UNCHANGED <<cliVars, acc, srvEvents, evtVars, ans, cq, wc, cbuf, proxyVars>>

RdmaSock ==
  GetCqEvent \/ ReqNotify \/ PollCq \/ SocketSend \/ SocketRead \/ Publish

(* WANProxy answers, or closes the connection.                             *)
Proxy ==
  /\ pending # None
  /\ pending' = None
  /\ \/ reply' = pending /\ UNCHANGED open
     \/ open' = FALSE /\ UNCHANGED reply
  /\ UNCHANGED <<cliVars, acc, srvEvents, evtVars, sock_rdma_data, ans, cq,
                 pollVars, seen>>
-----------------------------------------------------------------------------
Net(c) == CmEvent(c) \/ DeliverRequest(c) \/ DeliverAnswer(c)

Next ==
  \/ \E c \in Clients :
       ClientConnect(c) \/ ClientOnConnection(c) \/ ClientCrash(c) \/ Net(c)
  \/ SockRdma \/ ReadSocket \/ RdmaSock \/ Proxy

Spec == Init /\ [][Next]_vars

(* The threads run, the network moves and WANProxy reacts.  The read from  *)
(* s_info->socket need not return, so ReadSocket has no fairness.          *)
FairSpec ==
  /\ Spec
  /\ WF_vars(SockRdma) /\ WF_vars(RdmaSock) /\ WF_vars(Proxy)
  /\ \A c \in Clients : WF_vars(Net(c)) /\ WF_vars(ClientOnConnection(c))
-----------------------------------------------------------------------------
(* Every variable has values of its type.                                  *)
TypeOK ==
  /\ cst \in [Clients -> {"idle", "connecting", "connected", "crashed"}]
  /\ req \in [Clients -> {"none", "posted", "delivered"}]
  /\ acc \in [Clients -> {"no", "accepted", "rtu", "known"}]
  /\ srvEvents \in Seq([type : EventTypes, id : Clients])
  /\ spc \in {"get_cm_event", "wait", "connection", "read", "died"}
  /\ cur \in Clients \cup {None}
  /\ status \in EventTypes \cup {"none"}
  /\ sock_rdma_data \in {None, "c_info", "s_info"}
  /\ cbuf \in Clients \cup {Zero}
  /\ region \in [Clients -> Data]
  /\ ans \in [Clients -> {"none", "posted", "done"}]
  /\ cq \in CompletionQueues(WorkCompletion(Clients \cup {None}))
  /\ ppc \in {"none", "get_cq_event", "req_notify", "poll", "send", "read",
              "publish"}
  /\ wc \in WorkCompletion(Clients \cup {None})
  /\ open \in BOOLEAN
  /\ pending \in Clients \cup {None} /\ reply \in Clients \cup {None}
  /\ seen \in [Clients -> Nat]

(* At most one client is ever answered with data, however the two threads  *)
(* interleave: the first answer that reaches sock_rdma_data stops every    *)
(* later ESTABLISHED event at line 336, and one that has passed it is      *)
(* alone.                                                                  *)
AtMostOneAnswered ==
  \A c, d \in Clients : region[c] # None /\ region[d] # None => c = d

(* The wait of line 336 ends at once or never: with the resets of lines    *)
(* 167 and 417 commented out, no step of the other thread ends it.         *)
WaitNeverEnds ==
  [][spc = "wait" /\ sock_rdma_data # None =>
       sock_rdma_data' # None /\ spc' \in {"wait", "died"}]_vars

(* Every request that reaches the server is sent to WANProxy, and once,    *)
(* also when sock_rdma_thread waits or blocks for ever: the threads share  *)
(* no lock.  A client that crashes, a server that ends and a WANProxy that *)
(* closes the connection are excepted: a failed completion leaves requests *)
(* in the CQ that no event announces.                                      *)
Undisturbed == Up /\ open /\ \A c \in Clients : cst[c] # "crashed"
EveryRequestForwarded ==
  \A c \in Clients : req[c] = "delivered" ~> (seen[c] = 1 \/ ~Undisturbed)
=============================================================================
