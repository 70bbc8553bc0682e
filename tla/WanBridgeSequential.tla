------------------------- MODULE WanBridgeSequential -------------------------
(***************************************************************************)
(* Why WanBridge is safe when runs of ./client do not overlap and no       *)
(* client is killed: an inductive invariant, in named parts.  Each part    *)
(* says where one client is; together they say that the server has taken,  *)
(* or will next take, the event that belongs to that place, so nothing it  *)
(* overwrites is still needed.  The parts hold while the server is up;     *)
(* with Faults it may end, at any time that it looks at its event channel  *)
(* or opens a connection to WANProxy.                                      *)
(***************************************************************************)
EXTENDS WanBridge

OneAtATime == ~Overlap /\ ~Crashes
Sequential == OneAtATime /\ ~Faults

BeforeConnection == {"idle", "resolving_addr", "addr_done"}
BeforeAccept     == BeforeConnection \cup
                      {"resolving_route", "route_done", "connecting", "requested"}
Disconnect       == {"disconnecting", "disconnected", "closed"}
Connected        == {"connected"} \cup Disconnect
Handling         == {"get_cq_event", "req_notify", "poll", "socket_connect",
                     "send", "read"}

(* The event the server has taken last.                                    *)
TookEvent(t, c) == event_copy.type = t /\ event_copy.id = c

(* The request has been received.                                          *)
Delivered(c) == req[c] \in {"delivered", "acked"}

(* What a client may be sent: the answer to its request, or an empty one.  *)
Answers(c) == {c} \cup (IF Faults THEN {Empty} ELSE {})

One(b) == IF b THEN 1 ELSE 0

(* One run at a time.                                                      *)
OneActive ==
  \A c, d \in Clients : Active(c) /\ Active(d) => c = d

(* The client's threads are where its connection is.  A client that found  *)
(* no request file or could not resolve its address has not got far enough *)
(* for the server to hear of it.                                           *)
ClientPlace(c) ==
  /\ cpc[c] = "idle" => cm[c] = "idle"
  /\ cm[c] = "idle" => cpc[c] \in {"idle", "exited"}
  /\ cpc[c] = "leaving" => cm[c] = "closed"
  /\ cpc[c] = "exited" => cm[c] = "closed" \/ (Faults /\ cm[c] = "idle")
  /\ cpc[c] = "died" => Faults /\ cm[c] \in {"addr_done", "route_done"}
  /\ cm[c] \in BeforeConnection => cconn[c] = "none" /\ ppc[c] = "none"
  /\ cm[c] \notin BeforeConnection =>
       cconn[c] = IF cpc[c] \in {"loop", "died"} THEN "live" ELSE "freed"

(* At most one event waits for the client, the one its connection implies. *)
ClientEvent(c) ==
  /\ Len(cliEvents[c]) <= 1
  /\ Len(cliEvents[c]) > 0 =>
       \/ cm[c] = "addr_done"  /\ cliEvents[c][1] = "ADDR_RESOLVED"
       \/ cm[c] = "route_done" /\ cliEvents[c][1] = "ROUTE_RESOLVED"
       \/ cm[c] = "connected"  /\ cliEvents[c][1] = "ESTABLISHED"
                               /\ req[c] = "none"
       \/ cm[c] = "closed"     /\ cliEvents[c][1] = "DISCONNECTED"
                               /\ cpc[c] = "loop"
       \/ Faults /\ cm[c] = "addr_done"  /\ cliEvents[c][1] = "ADDR_ERROR"
       \/ Faults /\ cm[c] = "route_done" /\ cliEvents[c][1] = "ROUTE_ERROR"

(* What the client has sent and received.                                  *)
Sent(c) ==
  /\ req[c] # "failed"
  /\ req[c] # "none" => cm[c] \in Connected
  /\ cregion[c] # None => cm[c] \in Connected /\ cregion[c] \in Answers(c)
  /\ cm[c] \in BeforeConnection => ~crecv[c]
  /\ cm[c] \notin BeforeConnection =>
       /\ crecv[c] <=> (cpc[c] \in {"loop", "died"} /\ cregion[c] = None)
       /\ num[c] >= 2 <=> cm[c] \in Disconnect
  /\ cm[c] \in Disconnect => req[c] = "acked" /\ cregion[c] # None

(* Each makes exactly one completion: in the CQ, in the poller's hands, or *)
(* counted.                                                                *)
Accounted(c) ==
  cm[c] \notin BeforeConnection =>
    num[c] + Len(ccq[c].wcs) + One(ppc[c] = "handle")
      = One(req[c] = "acked") + One(cregion[c] # None)

(* And each is a success.                                                  *)
Succeeded(c) ==
  /\ \A i \in 1 .. Len(ccq[c].wcs) : ccq[c].wcs[i].ok
  /\ ppc[c] = "handle" => pwc[c].ok

(* The server's side of one client.                                        *)
ServerPlace(c) ==
  /\ cm[c] \in BeforeAccept =>
       /\ sconn[c] = "none" /\ wpc[c] = "none" /\ rsp[c] = 0
       /\ c \notin rtu /\ seen[c] = 0
  /\ cm[c] = "accepted" =>
       /\ sconn[c] = "live" /\ wpc[c] = "none" /\ rsp[c] = 0 /\ c \notin rtu
       /\ spc = "get_cq_event" /\ TookEvent("CONNECT_REQUEST", c)
  /\ cm[c] = "connected" /\ wpc[c] = "none" =>
       /\ rsp[c] = 0 /\ crecv[c]
       /\ \/ spc \in Handling /\ TookEvent("CONNECT_REQUEST", c)
          \/ /\ spc \in {"get_event", "unknown"}
             /\ sock_rdma_data \in Answers(c) /\ Delivered(c)
          \/ /\ spc = "established" /\ TookEvent("ESTABLISHED", c)
             /\ sock_rdma_data \in Answers(c) /\ Delivered(c)
  /\ cm[c] \in {"connected", "disconnecting"} => sconn[c] = "live"
  /\ sconn[c] = "live" => (srecv[c] <=> req[c] \in {"none", "posted"})
  /\ c \in rtu => /\ cm[c] = "connected" /\ wpc[c] = "none"
                  /\ spc # "established"
  /\ cm[c] \in Disconnect => wpc[c] = "done"

(* The worker of one client.                                               *)
WorkerPlace(c) ==
  /\ wpc[c] \in {"start", "copy", "post"} =>
       /\ cm[c] = "connected" /\ rsp[c] = 0 /\ crecv[c]
       /\ sock_rdma_data \in Answers(c)
       /\ \/ spc = "get_event" /\ TookEvent("ESTABLISHED", c)
          \/ spc = "unknown"
  /\ wpc[c] # "none" => Delivered(c)
  /\ wpc[c] \in {"copy", "post", "done"} => wconn[c] = c
  /\ wpc[c] \in {"post", "done"} => sendRegion[c] \in Answers(c)
  /\ wpc[c] = "done" => rsp[c] = One(cregion[c] = None)

(* The CONNECT_REQUEST branch of the server, step by step, for the client  *)
(* it has accepted.                                                        *)
Handles(c) ==
  /\ cm[c] \in {"accepted", "connected"} /\ wpc[c] = "none"
  /\ c \in ctxConns
  /\ spc = "get_cq_event" /\ srecv[c] =>
       Len(scq.wcs) = 0 /\ scq.armed /\ scq.events = 0
  /\ spc = "get_cq_event" /\ ~srecv[c] => scq.events = 1
  /\ spc # "get_cq_event" => ~srecv[c]
  /\ spc \in {"get_cq_event", "req_notify", "poll"} /\ ~srecv[c] =>
       /\ Len(scq.wcs) = 1
       /\ scq.wcs[1].ok /\ scq.wcs[1].op = "RECV" /\ scq.wcs[1].conn = c
  /\ spc \in {"socket_connect", "send"} =>
       wc.ok /\ wc.op = "RECV" /\ wc.conn = c
  /\ ~srecv[c] => recvRegion[c] = c
  /\ spc # "read" => seen[c] = 0
  /\ spc \in {"send", "read"} <=> sock = "connected"

HandlerPlace ==
  /\ spc \in Handling =>
       event_copy.type = "CONNECT_REQUEST" /\ Handles(event_copy.id)
  /\ spc = "on_connect_request" =>
       /\ event_copy.type = "CONNECT_REQUEST"
       /\ cm[event_copy.id] = "requested"
       /\ \A c \in Clients : sconn[c] # "live"
  /\ spc = "established" =>
       /\ event_copy.type = "ESTABLISHED"
       /\ cm[event_copy.id] = "connected" /\ wpc[event_copy.id] = "none"
  /\ spc = "disconnected" =>
       /\ event_copy.type = "DISCONNECTED"
       /\ cm[event_copy.id] \in {"disconnected", "closed"}
       /\ sconn[event_copy.id] = "live"
  /\ spc = "unknown" => Faults /\ event_copy.type = "DEVICE_REMOVAL"
  /\ spc # "exited"

(* WANProxy has a request, or its answer is on its way, only while the     *)
(* branch waits for it, and then the buffer it is read into is zeroed.     *)
ProxyPlace ==
  /\ spc = "read" => \/ pending = event_copy.id /\ reply = None
                     \/ pending = None /\ reply \in Answers(event_copy.id)
  /\ spc # "read" => pending = None /\ reply = None
  /\ cbuf # Empty => sock = "connected" /\ spc \notin {"send", "read"}

(* One connection at a time at the server, and what belongs to it.         *)
OneConnection ==
  /\ \A c, d \in Clients : sconn[c] = "live" /\ sconn[d] = "live" => c = d
  /\ \A c \in Clients : sconn[c] = "freed" => cm[c] \in {"disconnected", "closed"}
  /\ \A c \in ctxConns : sconn[c] = "live"
  /\ ctx => \E c \in Clients : sconn[c] = "live"
  /\ sock = "connected" =>
       \E c \in Clients : sconn[c] = "live" /\ wpc[c] = "none"

(* The server's event channel: every event is still to be acted on, the    *)
(* DISCONNECTED of a live connection is not lost, and the only event that  *)
(* can have another behind it is a DISCONNECTED.  The removal of the       *)
(* device may come at any time.                                            *)
EventDue(e) ==
  /\ e.type \in {"CONNECT_REQUEST", "ESTABLISHED", "DISCONNECTED",
                 "DEVICE_REMOVAL"}
  /\ e.type = "CONNECT_REQUEST" =>
       cm[e.id] = "requested" /\ spc # "on_connect_request"
  /\ e.type = "ESTABLISHED" =>
       /\ cm[e.id] = "connected" /\ wpc[e.id] = "none"
       /\ e.id \notin rtu /\ spc # "established"
  /\ e.type = "DISCONNECTED" =>
       /\ cm[e.id] \in {"disconnected", "closed"}
       /\ sconn[e.id] = "live" /\ spc # "disconnected"
  /\ e.type = "DEVICE_REMOVAL" => Faults

Removal(i) == srvEvents[i].type = "DEVICE_REMOVAL"

Queue ==
  /\ \A i \in 1 .. Len(srvEvents) : EventDue(srvEvents[i])
  /\ \A i, j \in 1 .. Len(srvEvents) :
       i < j => \/ Removal(i) \/ Removal(j)
                \/ /\ srvEvents[i].type = "DISCONNECTED"
                   /\ srvEvents[j].type = "CONNECT_REQUEST"
  /\ \A c \in Clients :
       cm[c] \in {"disconnected", "closed"} /\ sconn[c] = "live" =>
         \/ spc \in {"disconnected", "unknown"}
         \/ \E i \in 1 .. Len(srvEvents) :
              srvEvents[i].type = "DISCONNECTED" /\ srvEvents[i].id = c

Place(c) ==
  /\ ClientPlace(c) /\ ClientEvent(c) /\ Sent(c) /\ Accounted(c) /\ Succeeded(c)
  /\ ServerPlace(c) /\ WorkerPlace(c)

SeqInv ==
  /\ OneActive
  /\ \A c \in Clients : Place(c)
  /\ HandlerPlace /\ ProxyPlace /\ OneConnection /\ Queue

(* What holds even of a server that a fault has ended.                     *)
SafeInv == /\ OwnAnswer
           /\ Faults \/ SrvUp
           /\ SrvUp => SeqInv

(* WANProxy has been sent the request of a connected client that the main  *)
(* loop no longer works for, or waits for the answer to.                   *)
Heard(c) ==
  cm[c] = "connected" /\ spc \notin Handling \ {"read"} => seen[c] > 0

(* Nothing of a run is there before it starts, and no later step brings it. *)
Fresh(c) ==
  cpc[c] = "idle" =>
    ppc[c] = "none" /\ cregion[c] = None /\ pending # c /\ seen[c] = 0

ServiceInv == /\ \A c \in Clients : Fresh(c)
              /\ SrvUp => \A c \in Clients : Heard(c)
=============================================================================
