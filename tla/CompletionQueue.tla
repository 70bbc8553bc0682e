--------------------------- MODULE CompletionQueue ---------------------------
(***************************************************************************)
(* A completion queue (CQ) with its completion channel, as the programs of *)
(* this repository use one: ibv_create_cq on a channel of                  *)
(* ibv_create_comp_channel, armed by ibv_req_notify_cq, waited for with    *)
(* ibv_get_cq_event and read with ibv_poll_cq.                             *)
(*                                                                         *)
(* The verbs library is not part of the repository; the operators below    *)
(* are its externally visible behaviour.  What matters is the one-shot     *)
(* notification: a completion queues an event only when the CQ is armed,   *)
(* and disarms it.  A completion that finds the CQ disarmed is silent, and *)
(* an event that was queued stays queued even if its completion has        *)
(* already been polled.                                                    *)
(***************************************************************************)
EXTENDS Integers, Sequences

(* What ibv_poll_cq fills in of an ibv_wc: the opcode, whether the status  *)
(* is IBV_WC_SUCCESS, and the connection wr_id points to.                  *)
WorkCompletion(Conns) == [op : {"SEND", "RECV"}, ok : BOOLEAN, conn : Conns]

(* A CQ whose completions are in W: those that wait to be polled, whether  *)
(* it is armed, and the events its channel holds.                          *)
CompletionQueues(W) == [wcs : Seq(W), armed : BOOLEAN, events : Nat]

(* ibv_create_cq followed by ibv_req_notify_cq, the end of build_context.  *)
NewCq == [wcs |-> << >>, armed |-> TRUE, events |-> 0]

(* The adapter adds a completion.                                          *)
Complete(q, w) ==
  [wcs    |-> Append(q.wcs, w),
   armed  |-> FALSE,
   events |-> IF q.armed THEN q.events + 1 ELSE q.events]

(* A variant of HasEvent with a fault: ibv_get_cq_event on a channel that  *)
(* was made non-blocking.                                                  *)
HasEventNonBlocking(q) == TRUE

(* ibv_get_cq_event blocks until an event is queued and takes it.          *)
HasEvent(q)  == q.events > 0
TakeEvent(q) == [q EXCEPT !.events = @ - 1]

(* A variant of Arm with a fault: the CQ is not armed again.               *)
ArmForgotten(q) == q

(* ibv_req_notify_cq.                                                      *)
Arm(q) == [q EXCEPT !.armed = TRUE]

(* ibv_poll_cq(cq, 1, &wc) removes the oldest completion, if there is one. *)
HasCompletion(q) == q.wcs # << >>
Oldest(q)        == Head(q.wcs)
Poll(q)          == [q EXCEPT !.wcs = Tail(@)]

(* ibv_destroy_qp takes the completions of the queue pair, here the only   *)
(* one of the CQ, out of it.                                               *)
Flush(q) == [q EXCEPT !.wcs = << >>]
=============================================================================
