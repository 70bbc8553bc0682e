------------------------------- MODULE SrqFlow -------------------------------
(***************************************************************************)
(* The shared receive queue test, rdma_srq.c of test_seperate_polling: a   *)
(* client sends MsgCount messages over QpCount connections in batches of   *)
(* MaxWr, and the server, whose MaxWr receives all its connections share,  *)
(* says with one message of its own when the client may go on.             *)
(*                                                                         *)
(* Nothing but that message keeps the client from outrunning the receives. *)
(* Both sides wait for it, or for the batch, on a completion channel that  *)
(* may hold an event whose completions are already polled, and then        *)
(* return from await_completion with nothing to poll.                      *)
(*                                                                         *)
(* Each side is one thread and waits for every send it posts.  Which       *)
(* connection a message takes (i % qp_count) is only printed, and left     *)
(* out.  Both sides were started with the same options, as in the usage    *)
(* at the head of the file; verbs calls that fail end a side and are not   *)
(* modelled.                                                               *)
(***************************************************************************)
EXTENDS CompletionQueue

CONSTANTS MsgCount, MaxWr, QpCount    \* the options -c, -w and -q

ASSUME SrqAssumption ==
  MsgCount \in Nat /\ MaxWr \in Nat \ {0} /\ QpCount \in Nat \ {0}

Sides == {"server", "client"}
Other(s) == IF s = "server" THEN "client" ELSE "server"

VARIABLES
  pc,                   \* [Sides -> Pcs]
  accepted, connected,  \* connections the server, the client has finished
  srq_cq,               \* [Sides -> CQ], the CQ of the receives
  posted,               \* [Sides -> Nat], receives posted to the SRQ
  flight,               \* [Sides -> none, posted or done], the one send
  i,                    \* [Sides -> Nat], position in the batch
  send_count, recv_count

vars == <<pc, accepted, connected, srq_cq, posted, flight, i, send_count,
          recv_count>>

Pcs == {"connect", "await", "arm", "poll", "repost", "send", "get_send_comp",
        "done"}

(* init_resources: every receive is posted and the CQ is armed.            *)
Init ==
  /\ pc = [s \in Sides |-> "connect"]
  /\ accepted = 0 /\ connected = 0
  /\ srq_cq = [s \in Sides |-> NewCq]
  /\ posted = [s \in Sides |-> MaxWr]
  /\ flight = [s \in Sides |-> "none"]
  /\ i = [s \in Sides |-> 0]
  /\ send_count = [s \in Sides |-> 0]
  /\ recv_count = [s \in Sides |-> 0]

Goto(s, l) == pc' = [pc EXCEPT ![s] = l]

(* The head of a side's outer loop: a new batch, or the end.               *)
NextBatch(s, count, first) ==
  IF count < MsgCount
    THEN Goto(s, first) /\ i' = [i EXCEPT ![s] = 0]
    ELSE Goto(s, "done") /\ UNCHANGED i

(* The head of its inner loop.                                             *)
InBatch(n, count) == n < MaxWr /\ count < MsgCount
-----------------------------------------------------------------------------
(* The connections, one after the other: rdma_connect returns when the     *)
(* server has accepted.                                                    *)

ServerAccept ==
  /\ pc["server"] = "connect"
  /\ accepted = connected
  /\ accepted' = accepted + 1
  /\ IF accepted + 1 = QpCount THEN NextBatch("server", 0, "await")
     ELSE UNCHANGED <<pc, i>>
  /\ UNCHANGED <<connected, srq_cq, posted, flight, send_count, recv_count>>

ClientConnect ==
  /\ pc["client"] = "connect"
  /\ connected < accepted
  /\ connected' = connected + 1
  /\ IF connected + 1 = QpCount THEN NextBatch("client", 0, "send")
     ELSE UNCHANGED <<pc, i>>
  /\ UNCHANGED <<accepted, srq_cq, posted, flight, send_count, recv_count>>
-----------------------------------------------------------------------------
(* What both sides do.                                                     *)

(* await_completion: ibv_get_cq_event, then ibv_req_notify_cq.             *)
GetCqEvent(s) ==
  /\ pc[s] = "await"
  /\ HasEvent(srq_cq[s])
  /\ srq_cq' = [srq_cq EXCEPT ![s] = TakeEvent(@)]
  /\ Goto(s, "arm")
  /\ UNCHANGED <<accepted, connected, posted, flight, i, send_count, recv_count>>

ReqNotify(s) ==
  /\ pc[s] = "arm"
  /\ srq_cq' = [srq_cq EXCEPT ![s] = Arm(@)]
  /\ Goto(s, "poll")
  /\ UNCHANGED <<accepted, connected, posted, flight, i, send_count, recv_count>>

(* ibv_poll_cq finds a completion.                                         *)
PollOne(s) ==
  /\ pc[s] = "poll"
  /\ HasCompletion(srq_cq[s])
  /\ srq_cq' = [srq_cq EXCEPT ![s] = Poll(@)]
  /\ recv_count' = [recv_count EXCEPT ![s] = @ + 1]
  /\ Goto(s, "repost")
  /\ UNCHANGED <<accepted, connected, posted, flight, i, send_count>>

(* A variant of PostRecv with a fault: the receive is not posted again.    *)
PostRecvNot(s) ==
  /\ pc[s] = "repost"
  /\ i' = IF s = "server" THEN [i EXCEPT ![s] = @ + 1] ELSE i
  /\ Goto(s, "poll")
  /\ UNCHANGED <<accepted, connected, srq_cq, posted, flight, send_count,
                 recv_count>>

(* rdma_post_recv; the server counts.                                      *)
PostRecv(s) ==
  /\ pc[s] = "repost"
  /\ posted' = [posted EXCEPT ![s] = @ + 1]
  /\ i' = IF s = "server" THEN [i EXCEPT ![s] = @ + 1] ELSE i
  /\ Goto(s, "poll")
  /\ UNCHANGED <<accepted, connected, srq_cq, flight, send_count, recv_count>>

(* rdma_post_send.                                                         *)
PostSend(s) ==
  /\ pc[s] = "send"
  /\ flight' = [flight EXCEPT ![s] = "posted"]
  /\ Goto(s, "get_send_comp")
  /\ UNCHANGED <<accepted, connected, srq_cq, posted, i, send_count, recv_count>>

(* The adapters: a message takes a receive of the other side, and waits    *)
(* for one if there is none.                                               *)
Deliver(s) ==
  /\ flight[s] = "posted"
  /\ posted[Other(s)] > 0
  /\ flight' = [flight EXCEPT ![s] = "done"]
  /\ posted' = [posted EXCEPT ![Other(s)] = @ - 1]
  /\ srq_cq' = [srq_cq EXCEPT ![Other(s)] = Complete(@, "recv")]
  /\ UNCHANGED <<pc, accepted, connected, i, send_count, recv_count>>

(* rdma_get_send_comp.                                                     *)
GetSendComp(s) ==
  /\ pc[s] = "get_send_comp"
  /\ flight[s] = "done"
  /\ flight' = [flight EXCEPT ![s] = "none"]
  /\ send_count' = [send_count EXCEPT ![s] = @ + 1]
  /\ UNCHANGED <<accepted, connected, srq_cq, posted, recv_count>>
-----------------------------------------------------------------------------
(* A variant of ServerPollNone with a fault: one round is not repeated     *)
(* until the batch is there.                                               *)
ServerPollNoneOnce ==
  /\ pc["server"] = "poll"
  /\ ~HasCompletion(srq_cq["server"])
  /\ Goto("server", "send")
  /\ UNCHANGED <<accepted, connected, srq_cq, posted, flight, i, send_count,
                 recv_count>>

(* The server's CQ is drained: wait again, or tell the client to go on.    *)
ServerPollNone ==
  /\ pc["server"] = "poll"
  /\ ~HasCompletion(srq_cq["server"])
  /\ IF InBatch(i["server"], recv_count["server"])
       THEN Goto("server", "await") ELSE Goto("server", "send")
  /\ UNCHANGED <<accepted, connected, srq_cq, posted, flight, i, send_count,
                 recv_count>>

ServerSent ==
  /\ GetSendComp("server")
  /\ NextBatch("server", recv_count["server"], "await")

(* A variant of ClientSent with a fault: one send too many in a batch.     *)
ClientSentOneMore ==
  /\ GetSendComp("client")
  /\ i' = [i EXCEPT !["client"] = @ + 1]
  /\ IF i["client"] < MaxWr /\ send_count'["client"] < MsgCount
       THEN Goto("client", "send") ELSE Goto("client", "await")

(* The client's next send, or the wait for the server.                     *)
ClientSent ==
  /\ GetSendComp("client")
  /\ i' = [i EXCEPT !["client"] = @ + 1]
  /\ IF InBatch(i["client"] + 1, send_count["client"] + 1)
       THEN Goto("client", "send") ELSE Goto("client", "await")

(* The client's CQ is drained: it goes on, whatever it found there.        *)
ClientPollNone ==
  /\ pc["client"] = "poll"
  /\ ~HasCompletion(srq_cq["client"])
  /\ NextBatch("client", send_count["client"], "send")
  /\ UNCHANGED <<accepted, connected, srq_cq, posted, flight, send_count,
                 recv_count>>
-----------------------------------------------------------------------------
Step(s) == GetCqEvent(s) \/ ReqNotify(s) \/ PollOne(s) \/ PostRecv(s) \/ PostSend(s)

Server == ServerAccept \/ Step("server") \/ ServerPollNone \/ ServerSent
Client == ClientConnect \/ Step("client") \/ ClientSent \/ ClientPollNone

Next == Server \/ Client \/ \E s \in Sides : Deliver(s)

Spec == Init /\ [][Next]_vars

(* Both threads run and the adapters transfer what they can.               *)
FairSpec ==
  /\ Spec
  /\ WF_vars(Server) /\ WF_vars(Client)
  /\ \A s \in Sides : WF_vars(Deliver(s))
-----------------------------------------------------------------------------
(* Every variable has values of its type.                                  *)
TypeOK ==
  /\ pc \in [Sides -> Pcs]
  /\ accepted \in Nat /\ connected \in Nat
  /\ srq_cq \in [Sides -> CompletionQueues({"recv"})]
  /\ posted \in [Sides -> Nat]
  /\ flight \in [Sides -> {"none", "posted", "done"}]
  /\ i \in [Sides -> Nat]
  /\ send_count \in [Sides -> Nat]
  /\ recv_count \in [Sides -> Nat]

(* A side's receives are posted, completed or in its hand, and MaxWr in    *)
(* all: none is lost, and the CQ, created for MaxWr entries, never         *)
(* overruns.  (init_resources, and rdma_post_recv in both drain loops.)    *)
ReceivesConserved ==
  \A s \in Sides :
    posted[s] + Len(srq_cq[s].wcs) + (IF pc[s] = "repost" THEN 1 ELSE 0) = MaxWr

(* A message never has to wait for a receive: what the batches are for.    *)
(* (rdma_srq.c:8, "stops when the maximum work requests (ctx.max_wr) have  *)
(* been sent".)                                                            *)
NeverOutruns == \A s \in Sides : flight[s] = "posted" => posted[Other(s)] > 0

(* The client goes on only when the server has received and re-posted      *)
(* everything it sent: no event left over from an earlier batch lets it go *)
(* on early.  (rdma_srq.c:501, "wait for a recv indicating that all        *)
(* buffers were processed".)                                               *)
GoesOnAfterAll ==
  pc["client"] = "send" /\ i["client"] = 0 =>
    /\ recv_count["server"] = send_count["client"]
    /\ posted["server"] = MaxWr

(* Both sides end, and the server has every message: no wakeup is lost     *)
(* between draining a CQ and waiting for it again.                         *)
BothEnd ==
  <>(/\ \A s \in Sides : pc[s] = "done"
     /\ recv_count["server"] = MsgCount
     /\ recv_count["client"] = send_count["server"])
=============================================================================
