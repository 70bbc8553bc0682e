------------------------ MODULE CompletionQueue_proof ------------------------
(* Facts about the completion-queue operators.                             *)
EXTENDS CompletionQueue, TLAPS

(* Every operator keeps a completion queue a completion queue, if it is    *)
(* used as the verbs allow: events are taken and completions are polled    *)
(* only when there are some.                                               *)
LEMMA CqTypes ==
  ASSUME NEW W, NEW q \in CompletionQueues(W), NEW w \in W
  PROVE  /\ Complete(q, w) \in CompletionQueues(W)
         /\ Arm(q) \in CompletionQueues(W)
         /\ HasEvent(q) => TakeEvent(q) \in CompletionQueues(W)
         /\ HasCompletion(q) => /\ Oldest(q) \in W
                                /\ Poll(q) \in CompletionQueues(W)
         /\ Flush(q) \in CompletionQueues(W)
<1> USE DEF CompletionQueues
<1>1. Complete(q, w) \in CompletionQueues(W)
  BY DEF Complete
<1>2. Arm(q) \in CompletionQueues(W)
  BY DEF Arm
<1>3. HasEvent(q) => TakeEvent(q) \in CompletionQueues(W)
  BY DEF HasEvent, TakeEvent
<1>4. HasCompletion(q) => /\ Oldest(q) \in W
                          /\ Poll(q) \in CompletionQueues(W)
  BY DEF HasCompletion, Oldest, Poll
<1>5. << >> \in Seq(W)
  OBVIOUS
<1>6. Flush(q) \in CompletionQueues(W)
  BY <1>5 DEF Flush
<1> QED BY <1>1, <1>2, <1>3, <1>4, <1>6

(* What every operator does to the completions that wait to be polled.     *)
LEMMA CqContents ==
  ASSUME NEW W, NEW q \in CompletionQueues(W), NEW w \in W
  PROVE  /\ q.wcs \in Seq(W) /\ Len(q.wcs) \in Nat
         /\ Len(Complete(q, w).wcs) = Len(q.wcs) + 1
         /\ \A i \in 1 .. Len(q.wcs) : Complete(q, w).wcs[i] = q.wcs[i]
         /\ Complete(q, w).wcs[Len(q.wcs) + 1] = w
         /\ TakeEvent(q).wcs = q.wcs
         /\ Arm(q).wcs = q.wcs
         /\ HasCompletion(q) <=> Len(q.wcs) > 0
         /\ Flush(q).wcs = << >>
<1> USE DEF CompletionQueues
<1>1. q.wcs \in Seq(W) /\ Len(q.wcs) \in Nat
  OBVIOUS
<1>2. /\ Len(Complete(q, w).wcs) = Len(q.wcs) + 1
      /\ \A i \in 1 .. Len(q.wcs) : Complete(q, w).wcs[i] = q.wcs[i]
      /\ Complete(q, w).wcs[Len(q.wcs) + 1] = w
  BY <1>1 DEF Complete
<1>3. TakeEvent(q).wcs = q.wcs /\ Arm(q).wcs = q.wcs /\ Flush(q).wcs = << >>
  BY DEF TakeEvent, Arm, Flush
<1>4. HasCompletion(q) <=> Len(q.wcs) > 0
  BY <1>1 DEF HasCompletion
<1> QED BY <1>1, <1>2, <1>3, <1>4

(* Polling takes the first completion and moves the others up.             *)
LEMMA CqPoll ==
  ASSUME NEW W, NEW q \in CompletionQueues(W), HasCompletion(q)
  PROVE  /\ Oldest(q) = q.wcs[1]
         /\ Len(Poll(q).wcs) = Len(q.wcs) - 1
         /\ \A i \in 1 .. Len(q.wcs) - 1 : Poll(q).wcs[i] = q.wcs[i + 1]
<1>1. q.wcs \in Seq(W) /\ q.wcs # << >>
  BY DEF CompletionQueues, HasCompletion
<1>2. Poll(q).wcs = Tail(q.wcs)
  BY DEF CompletionQueues, Poll
<1>3. Oldest(q) = q.wcs[1]
  BY <1>1 DEF Oldest
<1> QED BY <1>1, <1>2, <1>3

(* A new completion queue is one.                                          *)
LEMMA NewCqType == ASSUME NEW W PROVE NewCq \in CompletionQueues(W)
BY DEF CompletionQueues, NewCq
=============================================================================
