------------------------------ MODULE WanBridge ------------------------------
(***************************************************************************)
(* The bridge of wanproxy_server_side: the runs of ./client, ./server and  *)
(* WANProxy together.  Overlap = FALSE is the use run_client.sh makes of   *)
(* it, one run after another; Overlap = TRUE lets runs overlap, as         *)
(* rdma_listen's backlog allows.                                           *)
(***************************************************************************)
EXTENDS RdmaClient, RdmaServer

Init == FabricInit /\ ClientInit /\ ServerInit

Next ==
  \/ \E c \in Clients : \/ Launch(c) \/ ClientCrash(c) \/ ClientMain(c) \/ Poller(c)
                        \/ CmStep(c) \/ Adapter(c) \/ Worker(c)
  \/ ServerThread
  \/ ProxyAnswers
  \/ CmFault

Spec == Init /\ [][Next]_vars

(* Every thread is scheduled again while it can run, and what is on the    *)
(* way arrives.  Nothing says that a further client is ever launched, or   *)
(* that one dies.                                                          *)
Fairness ==
  /\ \A c \in Clients : /\ WF_vars(ClientMain(c))
                        /\ WF_vars(Poller(c))
                        /\ WF_vars(CmStep(c))
                        /\ WF_vars(Adapter(c))
                        /\ WF_vars(Worker(c))
  /\ WF_vars(ServerThread)
  /\ WF_vars(ProxyAnswers)

FairSpec == Spec /\ Fairness
-----------------------------------------------------------------------------
(* Types.                                                                  *)

CmTypeOK ==
  /\ cm \in [Clients -> CmStates]
  /\ rtu \in SUBSET Clients
  /\ srvEvents \in Seq(SrvEventSet)
  /\ cliEvents \in [Clients -> Seq(CliEventTypes)]

NetTypeOK ==
  /\ req \in [Clients -> ReqStates]
  /\ rsp \in [Clients -> Nat]

ClientTypeOK ==
  /\ cpc \in [Clients -> ClientPcs]
  /\ ppc \in [Clients -> PollerPcs]
  /\ pwc \in [Clients -> ClientWcs \cup {NoWc}]
  /\ ccq \in [Clients -> CompletionQueues(ClientWcs)]
  /\ cconn \in [Clients -> {"none", "live", "freed"}]
  /\ num \in [Clients -> Nat]
  /\ crecv \in [Clients -> BOOLEAN]
  /\ cregion \in [Clients -> Data]

ServerTypeOK ==
  /\ spc \in ServerPcs
  /\ event_copy \in SrvEventSet
  /\ ctx \in BOOLEAN
  /\ ctxConns \in SUBSET Clients
  /\ scq \in CompletionQueues(ServerWcs)
  /\ sconn \in [Clients -> {"none", "live", "freed"}]
  /\ srecv \in [Clients -> BOOLEAN]
  /\ recvRegion \in [Clients -> Data]
  /\ sendRegion \in [Clients -> Data]
  /\ wc \in ServerWcs
  /\ sock \in {"fresh", "connected"}
  /\ cbuf \in Data
  /\ sock_rdma_data \in Data

WorkerTypeOK ==
  /\ wpc \in [Clients -> WorkerPcs]
  /\ wconn \in [Clients -> Clients \cup {None}]

ProxyTypeOK ==
  /\ pending \in Data
  /\ reply \in Data
  /\ seen \in [Clients -> Nat]

(* Every variable keeps the type its C declaration and use give it.        *)
TypeOK == /\ CmTypeOK /\ NetTypeOK /\ ClientTypeOK
          /\ ServerTypeOK /\ WorkerTypeOK /\ ProxyTypeOK
-----------------------------------------------------------------------------
(* Safety.                                                                 *)

(* A client's receive buffer holds nothing, or WANProxy's answer to that   *)
(* client's own request; with faults it may hold an empty answer.  The     *)
(* answer travels through sock_rdma_data and event_copy, which every       *)
(* request and every event overwrites.                                     *)
OwnAnswer ==
  \A c \in Clients : cregion[c] \in {None, c} \cup (IF Faults THEN {Empty} ELSE {})

(* The worker that an ESTABLISHED event started still finds that event in  *)
(* the event_copy it was given a pointer to, and then keeps the connection *)
(* of its own client.                                                      *)
WorkerHasItsEvent ==
  \A c \in Clients :
    /\ SrvUp /\ wpc[c] = "start" => event_copy = SrvEvent("ESTABLISHED", c)
    /\ wpc[c] \in {"copy", "post", "done"} => wconn[c] = c

(* A worker in on_connection never touches a connection that              *)
(* on_disconnect has freed.                                                *)
WorkerUsesLiveConnection ==
  \A c \in Clients :
    SrvUp /\ wpc[c] \in {"copy", "post"} => sconn[wconn[c]] = "live"

(* The main loop never reads a request through the wr_id of a connection   *)
(* it has freed, although wc outlives the connection and is looked at      *)
(* again whenever ibv_poll_cq finds nothing.                               *)
RequestReadFromLiveConnection ==
  spc \in {"socket_connect", "send"} =>
    sconn[wc.conn] = "live" /\ recvRegion[wc.conn] = wc.conn

(* What the CONNECT_REQUEST branch sends to WANProxy is the request of the *)
(* client that has just been accepted, not one it has forwarded before.    *)
ForwardsNewRequest ==
  spc \in {"socket_connect", "send"} =>
    event_copy = SrvEvent("CONNECT_REQUEST", wc.conn) /\ seen[wc.conn] = 0

(* The client's poller never handles a completion of a connection the main *)
(* thread has freed.                                                       *)
PollerUsesLiveConnection ==
  \A c \in Clients : ppc[c] = "handle" => cconn[c] = "live"

(* No message meets a queue pair without a posted receive, although each   *)
(* side posts exactly one per connection and connects with a retry count   *)
(* of zero.                                                                *)
ReceiveIsPosted ==
  SrvUp =>
    \A c \in Clients : /\ req[c] = "posted" => ServerQpReady(c)
                       /\ rsp[c] > 0 => rsp[c] = 1 /\ ClientQpReady(c)

(* A poller that waits for a CQ event is not waiting past a completion: if *)
(* the queue is not empty an event is queued.                              *)
NoLostWakeup ==
  \A c \in Clients :
    ppc[c] = "wait" /\ HasCompletion(ccq[c]) => HasEvent(ccq[c])

(* The main loop opens a connection to WANProxy only on a socket that is   *)
(* not connected.                                                          *)
ConnectsFreshSocket == spc = "socket_connect" => sock = "fresh"

(* A client frees its connection only after both completions, and with the *)
(* answer in the buffer.                                                   *)
FreedOnlyServed ==
  [][\A c \in Clients : cconn[c] = "live" /\ cconn'[c] = "freed"
        => num[c] = 2 /\ cregion[c] # None]_vars

(* A client that has not died disconnects at most once, and only after its *)
(* send and its receive have both completed, whatever the server does.     *)
DisconnectsAfterBoth ==
  [][\A c \in Clients : cm[c] = "connected" /\ cm'[c] = "disconnecting"
        => cpc[c] = "died" \/ (req[c] = "acked" /\ cregion[c] # None)]_vars

(* The server process ends only if a fault makes it.                       *)
ServerStaysUp == SrvUp
-----------------------------------------------------------------------------
(* Liveness.                                                               *)

(* Every client that is launched ends by itself with the answer to its     *)
(* request in its buffer.                                                  *)
EveryClientServed ==
  \A c \in Clients : cpc[c] = "loop" ~> (cpc[c] = "exited" /\ cregion[c] = c)

(* Every client that is launched ends, if need be by dying.                *)
EveryClientEnds == \A c \in Clients : cpc[c] = "loop" ~> Ended(c)
-----------------------------------------------------------------------------
(* Refinement.                                                             *)

(* Where a run stands, as RequestService sees it.                          *)
Stage(c) ==
  IF cpc[c] = "idle"  THEN "idle"
  ELSE IF Ended(c)    THEN "ended"
  ELSE IF cregion[c] = c THEN "served"
  ELSE IF pending = c THEN "forwarded"
  ELSE IF seen[c] > 0 THEN "answered"
  ELSE "asked"

Service == INSTANCE RequestService
             WITH stage <- [c \in Clients |-> Stage(c)], MayFail <- Faults

(* Each request goes through its stages in order, whatever fails: it is    *)
(* forwarded once, with no other before WANProxy, and its client is served *)
(* after it was answered, or gives up.                                     *)
KeepsOrder == Service!Order

(* The bridge implements RequestService: what has started also goes on.    *)
ImplementsService == Service!Spec
=============================================================================
