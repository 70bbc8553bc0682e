---------------------------- MODULE SrqFlow_proof ----------------------------
(***************************************************************************)
(* The flow control of rdma_srq.c for every number of messages, receives   *)
(* and connections: the one message that the server sends at the end of a  *)
(* batch is enough to keep the client from outrunning the shared receive   *)
(* queue, because no event and no completion of an earlier batch is left   *)
(* on the client's channel when it waits for the next one.                 *)
(*                                                                         *)
(* The invariant follows the two threads through the phases of a batch:    *)
(* both in it; the server about to say so; the client still reading what   *)
(* it said, while the server may wait for the next batch; the client       *)
(* already in the next batch while the server takes its send completion;   *)
(* the client at its end.                                                  *)
(***************************************************************************)
EXTENDS SrqFlow, CompletionQueue_proof

N(s)     == Len(srq_cq[s].wcs)
Ev(s)    == srq_cq[s].events
Armed(s) == srq_cq[s].armed

InHand(s)    == IF pc[s] = "repost" THEN 1 ELSE 0
Delivered(s) == IF flight[s] = "done" THEN 1 ELSE 0

Sent     == send_count["client"]
Received == recv_count["server"]

(* What holds of a side, or of a direction, in every phase.                *)
SidesOK ==
  /\ \A s \in Sides : flight[s] # "none" <=> pc[s] = "get_send_comp"
  /\ Received + N("server") = Sent + Delivered("client")
  /\ pc["client"] \in {"send", "get_send_comp"} => InBatch(i["client"], Sent)

(* The connections come first.                                             *)
ConnectOK ==
  /\ connected <= accepted
  /\ pc["server"] = "connect" => accepted < QpCount /\ Received = 0 /\ i["server"] = 0
  /\ pc["client"] = "connect" => connected < QpCount /\ Sent = 0 /\ i["client"] = 0
  /\ pc["client"] # "connect" => connected = QpCount
  /\ pc["server"] \in {"await", "arm", "poll", "repost"} => 0 < MsgCount

(* The client has no message of the server, and none announced.            *)
Quiet == N("client") = 0 /\ Ev("client") = 0 /\ Armed("client")

(* The client has not yet gone on after the server's last message.         *)
Behind ==
  \/ /\ pc["client"] \in {"get_send_comp", "await"}
     /\ N("client") = 1 /\ Ev("client") = 1
  \/ pc["client"] = "arm" /\ N("client") = 1 /\ Ev("client") = 0
  \/ /\ pc["client"] = "poll" /\ N("client") \in {0, 1} /\ Ev("client") = 0
     /\ Armed("client")
  \/ pc["client"] = "repost" /\ N("client") = 0 /\ Ev("client") = 0 /\ Armed("client")

BothInBatch ==
  /\ pc["server"] \in {"connect", "await", "arm", "poll", "repost"}
  /\ pc["client"] \in {"connect", "send", "get_send_comp", "await"}
  /\ Quiet
  /\ Sent - i["client"] = Received - i["server"] - InHand("server")

ServerSays ==
  /\ \/ pc["server"] = "send"
     \/ pc["server"] = "get_send_comp" /\ flight["server"] = "posted"
  /\ \/ pc["client"] = "await"
     \/ pc["client"] = "get_send_comp" /\ flight["client"] = "done"
  /\ Quiet
  /\ Received = Sent + Delivered("client")
  /\ ~InBatch(i["server"], Received)
  /\ Sent - i["client"] = Received - i["server"]

ClientReads ==
  /\ \/ pc["server"] = "get_send_comp" /\ flight["server"] = "done"
     \/ pc["server"] \in {"await", "arm", "poll"} /\ i["server"] = 0 /\ Received < MsgCount
     \/ pc["server"] = "done" /\ Received >= MsgCount
  /\ Behind
  /\ pc["client"] = "get_send_comp" => flight["client"] = "done"
  /\ Received = Sent + Delivered("client")
  /\ ~InBatch(i["client"] + Delivered("client"), Received)

ClientAhead ==
  /\ pc["server"] = "get_send_comp" /\ flight["server"] = "done"
  /\ pc["client"] \in {"send", "get_send_comp", "await"}
  /\ Quiet
  /\ Sent - i["client"] = Received /\ Received < MsgCount

ClientEnds ==
  /\ \/ pc["client"] = "done"
     \/ pc["client"] = "connect" /\ MsgCount = 0
  /\ \/ pc["server"] = "get_send_comp" /\ flight["server"] = "done"
     \/ pc["server"] = "done"
     \/ pc["server"] = "connect" /\ MsgCount = 0
  /\ Quiet
  /\ Received = Sent /\ Received >= MsgCount

Phases == BothInBatch \/ ServerSays \/ ClientReads \/ ClientAhead \/ ClientEnds

IInv == TypeOK /\ ReceivesConserved /\ SidesOK /\ ConnectOK /\ Phases
-----------------------------------------------------------------------------
(* The completion-queue operators as the numbers the invariant is about.   *)
LEMMA CqNumbers ==
  ASSUME NEW q \in CompletionQueues({"recv"})
  PROVE  /\ Len(q.wcs) \in Nat /\ q.events \in Nat /\ q.armed \in BOOLEAN
         /\ HasEvent(q) <=> q.events > 0
         /\ HasCompletion(q) <=> Len(q.wcs) > 0
         /\ Len(TakeEvent(q).wcs) = Len(q.wcs)
         /\ TakeEvent(q).events = q.events - 1 /\ TakeEvent(q).armed = q.armed
         /\ Len(Arm(q).wcs) = Len(q.wcs)
         /\ Arm(q).events = q.events /\ Arm(q).armed
         /\ HasCompletion(q) => Len(Poll(q).wcs) = Len(q.wcs) - 1
         /\ Poll(q).events = q.events /\ Poll(q).armed = q.armed
         /\ Len(Complete(q, "recv").wcs) = Len(q.wcs) + 1
         /\ Complete(q, "recv").events = IF q.armed THEN q.events + 1 ELSE q.events
         /\ Complete(q, "recv").armed = FALSE
<1>1. /\ Len(q.wcs) \in Nat /\ HasCompletion(q) <=> Len(q.wcs) > 0
      /\ Len(TakeEvent(q).wcs) = Len(q.wcs) /\ Len(Arm(q).wcs) = Len(q.wcs)
      /\ Len(Complete(q, "recv").wcs) = Len(q.wcs) + 1
  BY CqContents
<1>2. HasCompletion(q) => Len(Poll(q).wcs) = Len(q.wcs) - 1
  BY CqPoll
<1>3. /\ q.events \in Nat /\ q.armed \in BOOLEAN
      /\ HasEvent(q) <=> q.events > 0
      /\ TakeEvent(q).events = q.events - 1 /\ TakeEvent(q).armed = q.armed
      /\ Arm(q).events = q.events /\ Arm(q).armed
      /\ Poll(q).events = q.events /\ Poll(q).armed = q.armed
      /\ Complete(q, "recv").events = IF q.armed THEN q.events + 1 ELSE q.events
      /\ Complete(q, "recv").armed = FALSE
  BY DEF CompletionQueues, HasEvent, TakeEvent, Arm, Poll, Complete
<1> QED BY <1>1, <1>2, <1>3

(* What each step does to the completion queues.                           *)
LEMMA QueueMoves ==
  ASSUME TypeOK, NEW s \in Sides
  PROVE  /\ \A t \in Sides : N(t) \in Nat /\ Ev(t) \in Nat /\ Armed(t) \in BOOLEAN
         /\ UNCHANGED srq_cq =>
              \A t \in Sides : N(t)' = N(t) /\ Ev(t)' = Ev(t) /\ Armed(t)' = Armed(t)
         /\ GetCqEvent(s) =>
              /\ Ev(s) > 0
              /\ \A t \in Sides : N(t)' = N(t) /\ Armed(t)' = Armed(t)
              /\ \A t \in Sides : Ev(t)' = IF t = s THEN Ev(t) - 1 ELSE Ev(t)
         /\ ReqNotify(s) =>
              /\ \A t \in Sides : N(t)' = N(t) /\ Ev(t)' = Ev(t)
              /\ \A t \in Sides : Armed(t)' = IF t = s THEN TRUE ELSE Armed(t)
         /\ PollOne(s) =>
              /\ N(s) > 0
              /\ \A t \in Sides : Armed(t)' = Armed(t) /\ Ev(t)' = Ev(t)
              /\ \A t \in Sides : N(t)' = IF t = s THEN N(t) - 1 ELSE N(t)
         /\ Deliver(s) =>
              /\ \A t \in Sides : N(t)' = IF t = s THEN N(t) ELSE N(t) + 1
              /\ \A t \in Sides : Armed(t)' = IF t = s THEN Armed(t) ELSE FALSE
              /\ \A t \in Sides : Ev(t)' = IF t # s /\ Armed(t) THEN Ev(t) + 1 ELSE Ev(t)
<1>1. \A t \in Sides : srq_cq[t] \in CompletionQueues({"recv"})
  BY DEF TypeOK
<1>2. srq_cq \in [Sides -> CompletionQueues({"recv"})]
  BY DEF TypeOK
<1>3. \A t \in Sides : N(t) \in Nat /\ Ev(t) \in Nat /\ Armed(t) \in BOOLEAN
  BY <1>1, CqNumbers DEF N, Ev, Armed
<1>4. UNCHANGED srq_cq =>
        \A t \in Sides : N(t)' = N(t) /\ Ev(t)' = Ev(t) /\ Armed(t)' = Armed(t)
  BY DEF N, Ev, Armed
<1>n. \A t \in Sides :
        /\ HasEvent(srq_cq[t]) <=> Ev(t) > 0
        /\ HasCompletion(srq_cq[t]) <=> N(t) > 0
        /\ Len(TakeEvent(srq_cq[t]).wcs) = N(t)
        /\ TakeEvent(srq_cq[t]).events = Ev(t) - 1
        /\ TakeEvent(srq_cq[t]).armed = Armed(t)
        /\ Len(Arm(srq_cq[t]).wcs) = N(t) /\ Arm(srq_cq[t]).events = Ev(t)
        /\ HasCompletion(srq_cq[t]) => Len(Poll(srq_cq[t]).wcs) = N(t) - 1
        /\ Poll(srq_cq[t]).events = Ev(t) /\ Poll(srq_cq[t]).armed = Armed(t)
        /\ Len(Complete(srq_cq[t], "recv").wcs) = N(t) + 1
        /\ Complete(srq_cq[t], "recv").events = IF Armed(t) THEN Ev(t) + 1 ELSE Ev(t)
        /\ Complete(srq_cq[t], "recv").armed = FALSE
  <2> TAKE t \in Sides
  <2> DEFINE q == srq_cq[t]
  <2>1. q \in CompletionQueues({"recv"}) /\ N(t) = Len(q.wcs)
        /\ Ev(t) = q.events /\ Armed(t) = q.armed
    BY <1>1 DEF N, Ev, Armed
  <2> HIDE DEF q
  <2>2. /\ HasEvent(q) <=> q.events > 0
        /\ HasCompletion(q) <=> Len(q.wcs) > 0
        /\ Len(TakeEvent(q).wcs) = Len(q.wcs)
        /\ TakeEvent(q).events = q.events - 1 /\ TakeEvent(q).armed = q.armed
        /\ Len(Arm(q).wcs) = Len(q.wcs)
        /\ Arm(q).events = q.events
        /\ HasCompletion(q) => Len(Poll(q).wcs) = Len(q.wcs) - 1
        /\ Poll(q).events = q.events /\ Poll(q).armed = q.armed
        /\ Len(Complete(q, "recv").wcs) = Len(q.wcs) + 1
        /\ Complete(q, "recv").events = IF q.armed THEN q.events + 1 ELSE q.events
        /\ Complete(q, "recv").armed = FALSE
    BY <2>1, CqNumbers
  <2> QED BY <2>1, <2>2 DEF q
<1>5. ASSUME GetCqEvent(s)
      PROVE  /\ Ev(s) > 0
             /\ \A t \in Sides : N(t)' = N(t) /\ Armed(t)' = Armed(t)
             /\ \A t \in Sides : Ev(t)' = IF t = s THEN Ev(t) - 1 ELSE Ev(t)
  <2>1. \A t \in Sides : srq_cq'[t] = IF t = s THEN TakeEvent(srq_cq[t]) ELSE srq_cq[t]
    BY <1>5, <1>2 DEF GetCqEvent
  <2>2. HasEvent(srq_cq[s])
    BY <1>5 DEF GetCqEvent
  <2> QED BY <2>1, <2>2, <1>n DEF N, Ev, Armed
<1>6. ASSUME ReqNotify(s)
      PROVE  /\ \A t \in Sides : N(t)' = N(t) /\ Ev(t)' = Ev(t)
             /\ \A t \in Sides : Armed(t)' = IF t = s THEN TRUE ELSE Armed(t)
  <2>1. \A t \in Sides : srq_cq'[t] = IF t = s THEN Arm(srq_cq[t]) ELSE srq_cq[t]
    BY <1>6, <1>2 DEF ReqNotify
  <2>2. \A t \in Sides : Arm(srq_cq[t]).armed = TRUE
    BY DEF Arm, TypeOK, CompletionQueues
  <2> QED BY <2>1, <2>2, <1>n DEF N, Ev, Armed
<1>7. ASSUME PollOne(s)
      PROVE  /\ N(s) > 0
             /\ \A t \in Sides : Armed(t)' = Armed(t) /\ Ev(t)' = Ev(t)
             /\ \A t \in Sides : N(t)' = IF t = s THEN N(t) - 1 ELSE N(t)
  <2>1. \A t \in Sides : srq_cq'[t] = IF t = s THEN Poll(srq_cq[t]) ELSE srq_cq[t]
    BY <1>7, <1>2 DEF PollOne
  <2>2. HasCompletion(srq_cq[s])
    BY <1>7 DEF PollOne
  <2> QED BY <2>1, <2>2, <1>n DEF N, Ev, Armed
<1>8. ASSUME Deliver(s)
      PROVE  /\ \A t \in Sides : N(t)' = IF t = s THEN N(t) ELSE N(t) + 1
             /\ \A t \in Sides : Armed(t)' = IF t = s THEN Armed(t) ELSE FALSE
             /\ \A t \in Sides : Ev(t)' = IF t # s /\ Armed(t) THEN Ev(t) + 1 ELSE Ev(t)
  <2>1. \A t \in Sides : srq_cq'[t] = IF t = s THEN srq_cq[t]
                                      ELSE Complete(srq_cq[t], "recv")
    BY <1>8, <1>2 DEF Deliver, Sides, Other
  <2> QED BY <2>1, <1>n DEF N, Ev, Armed
<1> QED BY <1>3, <1>4, <1>5, <1>6, <1>7, <1>8

(* Every step keeps the types.                                             *)
LEMMA TypeStep == ASSUME TypeOK, [Next]_vars PROVE TypeOK'
<1> USE DEF TypeOK
<1> DEFINE CQ == CompletionQueues({"recv"})
<1>1. \A s \in Sides : Other(s) \in Sides
  BY DEF Sides, Other
<1>2. \A q \in CQ : /\ Complete(q, "recv") \in CQ /\ Arm(q) \in CQ
                    /\ HasEvent(q) => TakeEvent(q) \in CQ
                    /\ HasCompletion(q) => Poll(q) \in CQ
  BY CqTypes
<1> HIDE DEF CQ
<1>cq. srq_cq \in [Sides -> CQ]
  BY DEF CQ
<1>sides. "server" \in Sides /\ "client" \in Sides
  BY DEF Sides
<1>pcs. /\ \A s \in Sides : [pc EXCEPT ![s] = "arm"] \in [Sides -> Pcs]
        /\ \A s \in Sides, l \in Pcs : Goto(s, l) => pc' \in [Sides -> Pcs]
        /\ \A s \in Sides, l \in Pcs, n \in Nat :
             NextBatch(s, n, l) => pc' \in [Sides -> Pcs] /\ i' \in [Sides -> Nat]
  BY DEF Goto, NextBatch, Pcs
<1>3. ASSUME NEW s \in Sides, GetCqEvent(s) PROVE TypeOK'
  <2>1. srq_cq' \in [Sides -> CQ]
    BY <1>3, <1>2, <1>cq DEF GetCqEvent
  <2> QED BY <1>3, <2>1, <1>pcs DEF GetCqEvent, CQ, Pcs
<1>4. ASSUME NEW s \in Sides, ReqNotify(s) PROVE TypeOK'
  <2>1. srq_cq' \in [Sides -> CQ]
    BY <1>4, <1>2, <1>cq DEF ReqNotify
  <2> QED BY <1>4, <2>1, <1>pcs DEF ReqNotify, CQ, Pcs
<1>5. ASSUME NEW s \in Sides, PollOne(s) PROVE TypeOK'
  <2>1. srq_cq' \in [Sides -> CQ]
    BY <1>5, <1>2, <1>cq DEF PollOne
  <2> QED BY <1>5, <2>1, <1>pcs DEF PollOne, CQ, Pcs
<1>6. ASSUME NEW s \in Sides, PostRecv(s) PROVE TypeOK'
  BY <1>6, <1>pcs DEF PostRecv, Pcs
<1>7. ASSUME NEW s \in Sides, PostSend(s) PROVE TypeOK'
  BY <1>7, <1>pcs DEF PostSend, Pcs
<1>8. ASSUME NEW s \in Sides, Deliver(s) PROVE TypeOK'
  <2>1. srq_cq' \in [Sides -> CQ]
    BY <1>8, <1>1, <1>2, <1>cq DEF Deliver
  <2>2. posted' \in [Sides -> Nat] /\ flight' \in [Sides -> {"none", "posted", "done"}]
    BY <1>8, <1>1 DEF Deliver
  <2> QED BY <1>8, <2>1, <2>2 DEF Deliver, CQ
<1>9. ASSUME ServerAccept PROVE TypeOK'
  BY <1>9, <1>pcs, <1>sides DEF ServerAccept, Pcs
<1>10. ASSUME ClientConnect PROVE TypeOK'
  BY <1>10, <1>pcs, <1>sides DEF ClientConnect, Pcs
<1>11. ASSUME ServerPollNone PROVE TypeOK'
  BY <1>11, <1>pcs, <1>sides DEF ServerPollNone, Pcs
<1>12. ASSUME ServerSent PROVE TypeOK'
  BY <1>12, <1>pcs, <1>sides DEF ServerSent, GetSendComp, Pcs
<1>13. ASSUME ClientSent PROVE TypeOK'
  BY <1>13, <1>pcs, <1>sides DEF ClientSent, GetSendComp, Pcs
<1>14. ASSUME ClientPollNone PROVE TypeOK'
  BY <1>14, <1>pcs, <1>sides DEF ClientPollNone, Pcs
<1>15. CASE UNCHANGED vars
  BY <1>15 DEF vars
<1> QED
  BY <1>3, <1>4, <1>5, <1>6, <1>7, <1>8, <1>9, <1>10, <1>11, <1>12, <1>13, <1>14,
     <1>15, <1>sides DEF Next, Server, Client, Step

(* The invariant without the types, which a step keeps one by one.         *)
Rest == ReceivesConserved /\ SidesOK /\ ConnectOK /\ Phases

(* It holds at first, with every receive posted and both CQs armed.       *)
LEMMA InitInv == Init => IInv
<1> SUFFICES ASSUME Init PROVE IInv
  OBVIOUS
<1>1. TypeOK
  BY SrqAssumption, NewCqType DEF Init, TypeOK, Pcs, Sides
<1>2. \A s \in Sides : N(s) = 0 /\ Ev(s) = 0 /\ Armed(s)
  BY DEF Init, N, Ev, Armed, NewCq
<1>3. ReceivesConserved /\ SidesOK /\ ConnectOK
  BY <1>2, SrqAssumption DEF Init, ReceivesConserved, SidesOK, ConnectOK, N, Sides,
     Received, Sent, Delivered
<1>4. BothInBatch
  BY <1>2, SrqAssumption DEF Init, BothInBatch, Quiet, InHand, Sent, Received, Sides
<1> QED BY <1>1, <1>3, <1>4 DEF IInv, Phases

(* Every step preserves it: <2>0 says what the step does to the numbers,   *)
(* and the rest is arithmetic.                                             *)
LEMMA StepInv == ASSUME IInv, Next PROVE Rest'
<1> USE SrqAssumption
<1>s. "server" \in Sides /\ "client" \in Sides
      /\ \A s \in Sides : s = "server" \/ s = "client"
  BY DEF Sides
<1>t. /\ accepted \in Nat /\ connected \in Nat
      /\ \A s \in Sides : /\ pc[s] \in Pcs /\ flight[s] \in {"none", "posted", "done"}
                          /\ posted[s] \in Nat /\ i[s] \in Nat
                          /\ send_count[s] \in Nat /\ recv_count[s] \in Nat
                          /\ N(s) \in Nat /\ Ev(s) \in Nat /\ Armed(s) \in BOOLEAN
  BY QueueMoves DEF IInv, TypeOK
<1>i. /\ \A s \in Sides : posted[s] + N(s) + InHand(s) = MaxWr
      /\ SidesOK /\ ConnectOK /\ Phases
  BY DEF IInv, ReceivesConserved, N, InHand
<1>f. /\ pc \in [Sides -> Pcs] /\ flight \in [Sides -> {"none", "posted", "done"}]
      /\ i \in [Sides -> Nat] /\ send_count \in [Sides -> Nat]
      /\ recv_count \in [Sides -> Nat] /\ posted \in [Sides -> Nat]
  BY DEF IInv, TypeOK
<1>c. \A s \in Sides : HasCompletion(srq_cq[s]) <=> N(s) > 0
  BY CqNumbers DEF IInv, TypeOK, N
<1>1. ASSUME GetCqEvent("server") PROVE Rest'
  <2>f. /\ pc["server"] = "await" /\ accepted' = accepted
        /\ connected' = connected /\ pc'["server"] = "arm"
        /\ pc'["client"] = pc["client"]
        /\ flight'["server"] = flight["server"]
        /\ flight'["client"] = flight["client"]
        /\ i'["server"] = i["server"] /\ i'["client"] = i["client"]
        /\ send_count'["server"] = send_count["server"]
        /\ send_count'["client"] = send_count["client"]
        /\ recv_count'["server"] = recv_count["server"]
        /\ recv_count'["client"] = recv_count["client"]
        /\ posted'["server"] = posted["server"]
        /\ posted'["client"] = posted["client"]
    BY <1>1, <1>s, <1>f DEF GetCqEvent, Goto
  <2>q. /\ Ev("server") > 0 /\ N("server")' = N("server")
        /\ N("client")' = N("client") /\ Ev("server")' = Ev("server") - 1
        /\ Ev("client")' = Ev("client")
        /\ Armed("server")' = Armed("server")
        /\ Armed("client")' = Armed("client")
    BY <1>1, <1>s, <1>t, QueueMoves DEF IInv
  <2>1. ReceivesConserved'
    <3>1. \A s \in Sides : posted'[s] + N(s)' + (IF pc'[s] = "repost" THEN 1 ELSE 0) = MaxWr
      BY <2>f, <2>q, <1>s, <1>t, <1>i DEF InHand
    <3> QED BY <3>1 DEF ReceivesConserved, N
  <2>2. SidesOK'
    BY <2>f, <2>q, <1>s, <1>t, <1>i DEF SidesOK, Delivered, Sent, Received, InBatch
  <2>3. ConnectOK'
    BY <2>f, <2>q, <1>s, <1>t, <1>i DEF ConnectOK, Sent, Received
  <2>4. Phases'
    <3>1. CASE BothInBatch
      <4>1. BothInBatch'
        BY <3>1, <2>f, <2>q, <1>s, <1>t, <1>i DEF SidesOK, ConnectOK, BothInBatch,
           Quiet, InHand, Delivered, Sent, Received, InBatch
      <4> QED BY <4>1 DEF Phases
    <3>2. CASE ServerSays
      BY <3>2, <2>f, <2>q, <1>s, <1>t, <1>i DEF ServerSays, SidesOK, Delivered, Behind, Quiet
    <3>3. CASE ClientReads
      <4>1. ClientReads'
        BY <3>3, <2>f, <2>q, <1>s, <1>t, <1>i DEF SidesOK, ConnectOK, ClientReads,
           Behind, Quiet, InHand, Delivered, Sent, Received, InBatch
      <4> QED BY <4>1 DEF Phases
    <3>4. CASE ClientAhead
      BY <3>4, <2>f, <2>q, <1>s, <1>t, <1>i DEF ClientAhead, SidesOK, Delivered, Behind, Quiet
    <3>5. CASE ClientEnds
      BY <3>5, <2>f, <2>q, <1>s, <1>t, <1>i DEF ClientEnds, SidesOK, Delivered, Behind, Quiet
    <3> QED BY <3>1, <3>2, <3>3, <3>4, <3>5, <1>i DEF Phases
  <2> QED BY <2>1, <2>2, <2>3, <2>4 DEF Rest
<1>2. ASSUME GetCqEvent("client") PROVE Rest'
  <2>f. /\ pc["client"] = "await" /\ accepted' = accepted
        /\ connected' = connected /\ pc'["server"] = pc["server"]
        /\ pc'["client"] = "arm" /\ flight'["server"] = flight["server"]
        /\ flight'["client"] = flight["client"]
        /\ i'["server"] = i["server"] /\ i'["client"] = i["client"]
        /\ send_count'["server"] = send_count["server"]
        /\ send_count'["client"] = send_count["client"]
        /\ recv_count'["server"] = recv_count["server"]
        /\ recv_count'["client"] = recv_count["client"]
        /\ posted'["server"] = posted["server"]
        /\ posted'["client"] = posted["client"]
    BY <1>2, <1>s, <1>f DEF GetCqEvent, Goto
  <2>q. /\ Ev("client") > 0 /\ N("server")' = N("server")
        /\ N("client")' = N("client") /\ Ev("server")' = Ev("server")
        /\ Ev("client")' = Ev("client") - 1
        /\ Armed("server")' = Armed("server")
        /\ Armed("client")' = Armed("client")
    BY <1>2, <1>s, <1>t, QueueMoves DEF IInv
  <2>1. ReceivesConserved'
    <3>1. \A s \in Sides : posted'[s] + N(s)' + (IF pc'[s] = "repost" THEN 1 ELSE 0) = MaxWr
      BY <2>f, <2>q, <1>s, <1>t, <1>i DEF InHand
    <3> QED BY <3>1 DEF ReceivesConserved, N
  <2>2. SidesOK'
    BY <2>f, <2>q, <1>s, <1>t, <1>i DEF SidesOK, Delivered, Sent, Received, InBatch
  <2>3. ConnectOK'
    BY <2>f, <2>q, <1>s, <1>t, <1>i DEF ConnectOK, Sent, Received
  <2>4. Phases'
    <3>1. CASE BothInBatch
      BY <3>1, <2>f, <2>q, <1>s, <1>t, <1>i DEF BothInBatch, SidesOK, Delivered, Behind, Quiet
    <3>2. CASE ServerSays
      BY <3>2, <2>f, <2>q, <1>s, <1>t, <1>i DEF ServerSays, SidesOK, Delivered, Behind, Quiet
    <3>3. CASE ClientReads
      <4>1. ClientReads'
        BY <3>3, <2>f, <2>q, <1>s, <1>t, <1>i DEF SidesOK, ConnectOK, ClientReads,
           Behind, Quiet, InHand, Delivered, Sent, Received, InBatch
      <4> QED BY <4>1 DEF Phases
    <3>4. CASE ClientAhead
      BY <3>4, <2>f, <2>q, <1>s, <1>t, <1>i DEF ClientAhead, SidesOK, Delivered, Behind, Quiet
    <3>5. CASE ClientEnds
      BY <3>5, <2>f, <2>q, <1>s, <1>t, <1>i DEF ClientEnds, SidesOK, Delivered, Behind, Quiet
    <3> QED BY <3>1, <3>2, <3>3, <3>4, <3>5, <1>i DEF Phases
  <2> QED BY <2>1, <2>2, <2>3, <2>4 DEF Rest
<1>3. ASSUME ReqNotify("server") PROVE Rest'
  <2>f. /\ pc["server"] = "arm" /\ accepted' = accepted
        /\ connected' = connected /\ pc'["server"] = "poll"
        /\ pc'["client"] = pc["client"]
        /\ flight'["server"] = flight["server"]
        /\ flight'["client"] = flight["client"]
        /\ i'["server"] = i["server"] /\ i'["client"] = i["client"]
        /\ send_count'["server"] = send_count["server"]
        /\ send_count'["client"] = send_count["client"]
        /\ recv_count'["server"] = recv_count["server"]
        /\ recv_count'["client"] = recv_count["client"]
        /\ posted'["server"] = posted["server"]
        /\ posted'["client"] = posted["client"]
    BY <1>3, <1>s, <1>f DEF ReqNotify, Goto
  <2>q. /\ N("server")' = N("server") /\ N("client")' = N("client")
        /\ Ev("server")' = Ev("server") /\ Ev("client")' = Ev("client")
        /\ Armed("server")' = TRUE /\ Armed("client")' = Armed("client")
    BY <1>3, <1>s, <1>t, QueueMoves DEF IInv
  <2>1. ReceivesConserved'
    <3>1. \A s \in Sides : posted'[s] + N(s)' + (IF pc'[s] = "repost" THEN 1 ELSE 0) = MaxWr
      BY <2>f, <2>q, <1>s, <1>t, <1>i DEF InHand
    <3> QED BY <3>1 DEF ReceivesConserved, N
  <2>2. SidesOK'
    BY <2>f, <2>q, <1>s, <1>t, <1>i DEF SidesOK, Delivered, Sent, Received, InBatch
  <2>3. ConnectOK'
    BY <2>f, <2>q, <1>s, <1>t, <1>i DEF ConnectOK, Sent, Received
  <2>4. Phases'
    <3>1. CASE BothInBatch
      <4>1. BothInBatch'
        BY <3>1, <2>f, <2>q, <1>s, <1>t, <1>i DEF SidesOK, ConnectOK, BothInBatch,
           Quiet, InHand, Delivered, Sent, Received, InBatch
      <4> QED BY <4>1 DEF Phases
    <3>2. CASE ServerSays
      BY <3>2, <2>f, <2>q, <1>s, <1>t, <1>i DEF ServerSays, SidesOK, Delivered, Behind, Quiet
    <3>3. CASE ClientReads
      <4>1. ClientReads'
        BY <3>3, <2>f, <2>q, <1>s, <1>t, <1>i DEF SidesOK, ConnectOK, ClientReads,
           Behind, Quiet, InHand, Delivered, Sent, Received, InBatch
      <4> QED BY <4>1 DEF Phases
    <3>4. CASE ClientAhead
      BY <3>4, <2>f, <2>q, <1>s, <1>t, <1>i DEF ClientAhead, SidesOK, Delivered, Behind, Quiet
    <3>5. CASE ClientEnds
      BY <3>5, <2>f, <2>q, <1>s, <1>t, <1>i DEF ClientEnds, SidesOK, Delivered, Behind, Quiet
    <3> QED BY <3>1, <3>2, <3>3, <3>4, <3>5, <1>i DEF Phases
  <2> QED BY <2>1, <2>2, <2>3, <2>4 DEF Rest
<1>4. ASSUME ReqNotify("client") PROVE Rest'
  <2>f. /\ pc["client"] = "arm" /\ accepted' = accepted
        /\ connected' = connected /\ pc'["server"] = pc["server"]
        /\ pc'["client"] = "poll" /\ flight'["server"] = flight["server"]
        /\ flight'["client"] = flight["client"]
        /\ i'["server"] = i["server"] /\ i'["client"] = i["client"]
        /\ send_count'["server"] = send_count["server"]
        /\ send_count'["client"] = send_count["client"]
        /\ recv_count'["server"] = recv_count["server"]
        /\ recv_count'["client"] = recv_count["client"]
        /\ posted'["server"] = posted["server"]
        /\ posted'["client"] = posted["client"]
    BY <1>4, <1>s, <1>f DEF ReqNotify, Goto
  <2>q. /\ N("server")' = N("server") /\ N("client")' = N("client")
        /\ Ev("server")' = Ev("server") /\ Ev("client")' = Ev("client")
        /\ Armed("server")' = Armed("server") /\ Armed("client")' = TRUE
    BY <1>4, <1>s, <1>t, QueueMoves DEF IInv
  <2>1. ReceivesConserved'
    <3>1. \A s \in Sides : posted'[s] + N(s)' + (IF pc'[s] = "repost" THEN 1 ELSE 0) = MaxWr
      BY <2>f, <2>q, <1>s, <1>t, <1>i DEF InHand
    <3> QED BY <3>1 DEF ReceivesConserved, N
  <2>2. SidesOK'
    BY <2>f, <2>q, <1>s, <1>t, <1>i DEF SidesOK, Delivered, Sent, Received, InBatch
  <2>3. ConnectOK'
    BY <2>f, <2>q, <1>s, <1>t, <1>i DEF ConnectOK, Sent, Received
  <2>4. Phases'
    <3>1. CASE BothInBatch
      BY <3>1, <2>f, <2>q, <1>s, <1>t, <1>i DEF BothInBatch, SidesOK, Delivered, Behind, Quiet
    <3>2. CASE ServerSays
      BY <3>2, <2>f, <2>q, <1>s, <1>t, <1>i DEF ServerSays, SidesOK, Delivered, Behind, Quiet
    <3>3. CASE ClientReads
      <4>1. ClientReads'
        BY <3>3, <2>f, <2>q, <1>s, <1>t, <1>i DEF SidesOK, ConnectOK, ClientReads,
           Behind, Quiet, InHand, Delivered, Sent, Received, InBatch
      <4> QED BY <4>1 DEF Phases
    <3>4. CASE ClientAhead
      BY <3>4, <2>f, <2>q, <1>s, <1>t, <1>i DEF ClientAhead, SidesOK, Delivered, Behind, Quiet
    <3>5. CASE ClientEnds
      BY <3>5, <2>f, <2>q, <1>s, <1>t, <1>i DEF ClientEnds, SidesOK, Delivered, Behind, Quiet
    <3> QED BY <3>1, <3>2, <3>3, <3>4, <3>5, <1>i DEF Phases
  <2> QED BY <2>1, <2>2, <2>3, <2>4 DEF Rest
<1>5. ASSUME PollOne("server") PROVE Rest'
  <2>f. /\ pc["server"] = "poll" /\ accepted' = accepted
        /\ connected' = connected /\ pc'["server"] = "repost"
        /\ pc'["client"] = pc["client"]
        /\ flight'["server"] = flight["server"]
        /\ flight'["client"] = flight["client"]
        /\ i'["server"] = i["server"] /\ i'["client"] = i["client"]
        /\ send_count'["server"] = send_count["server"]
        /\ send_count'["client"] = send_count["client"]
        /\ recv_count'["server"] = recv_count["server"] + 1
        /\ recv_count'["client"] = recv_count["client"]
        /\ posted'["server"] = posted["server"]
        /\ posted'["client"] = posted["client"]
    BY <1>5, <1>s, <1>f DEF PollOne, Goto
  <2>q. /\ N("server") > 0 /\ N("server")' = N("server") - 1
        /\ N("client")' = N("client") /\ Ev("server")' = Ev("server")
        /\ Ev("client")' = Ev("client")
        /\ Armed("server")' = Armed("server")
        /\ Armed("client")' = Armed("client")
    BY <1>5, <1>s, <1>t, QueueMoves DEF IInv
  <2>1. ReceivesConserved'
    <3>1. \A s \in Sides : posted'[s] + N(s)' + (IF pc'[s] = "repost" THEN 1 ELSE 0) = MaxWr
      BY <2>f, <2>q, <1>s, <1>t, <1>i DEF InHand
    <3> QED BY <3>1 DEF ReceivesConserved, N
  <2>2. SidesOK'
    BY <2>f, <2>q, <1>s, <1>t, <1>i DEF SidesOK, Delivered, Sent, Received, InBatch
  <2>3. ConnectOK'
    BY <2>f, <2>q, <1>s, <1>t, <1>i DEF ConnectOK, Sent, Received
  <2>4. Phases'
    <3>1. CASE BothInBatch
      <4>1. BothInBatch'
        BY <3>1, <2>f, <2>q, <1>s, <1>t, <1>i DEF SidesOK, ConnectOK, BothInBatch,
           Quiet, InHand, Delivered, Sent, Received, InBatch
      <4> QED BY <4>1 DEF Phases
    <3>2. CASE ServerSays
      BY <3>2, <2>f, <2>q, <1>s, <1>t, <1>i DEF ServerSays, SidesOK, Delivered, Behind, Quiet
    <3>3. CASE ClientReads
      BY <3>3, <2>f, <2>q, <1>s, <1>t, <1>i DEF ClientReads, SidesOK, Delivered, Behind, Quiet
    <3>4. CASE ClientAhead
      BY <3>4, <2>f, <2>q, <1>s, <1>t, <1>i DEF ClientAhead, SidesOK, Delivered, Behind, Quiet
    <3>5. CASE ClientEnds
      BY <3>5, <2>f, <2>q, <1>s, <1>t, <1>i DEF ClientEnds, SidesOK, Delivered, Behind, Quiet
    <3> QED BY <3>1, <3>2, <3>3, <3>4, <3>5, <1>i DEF Phases
  <2> QED BY <2>1, <2>2, <2>3, <2>4 DEF Rest
<1>6. ASSUME PollOne("client") PROVE Rest'
  <2>f. /\ pc["client"] = "poll" /\ accepted' = accepted
        /\ connected' = connected /\ pc'["server"] = pc["server"]
        /\ pc'["client"] = "repost"
        /\ flight'["server"] = flight["server"]
        /\ flight'["client"] = flight["client"]
        /\ i'["server"] = i["server"] /\ i'["client"] = i["client"]
        /\ send_count'["server"] = send_count["server"]
        /\ send_count'["client"] = send_count["client"]
        /\ recv_count'["server"] = recv_count["server"]
        /\ recv_count'["client"] = recv_count["client"] + 1
        /\ posted'["server"] = posted["server"]
        /\ posted'["client"] = posted["client"]
    BY <1>6, <1>s, <1>f DEF PollOne, Goto
  <2>q. /\ N("client") > 0 /\ N("server")' = N("server")
        /\ N("client")' = N("client") - 1 /\ Ev("server")' = Ev("server")
        /\ Ev("client")' = Ev("client")
        /\ Armed("server")' = Armed("server")
        /\ Armed("client")' = Armed("client")
    BY <1>6, <1>s, <1>t, QueueMoves DEF IInv
  <2>1. ReceivesConserved'
    <3>1. \A s \in Sides : posted'[s] + N(s)' + (IF pc'[s] = "repost" THEN 1 ELSE 0) = MaxWr
      BY <2>f, <2>q, <1>s, <1>t, <1>i DEF InHand
    <3> QED BY <3>1 DEF ReceivesConserved, N
  <2>2. SidesOK'
    BY <2>f, <2>q, <1>s, <1>t, <1>i DEF SidesOK, Delivered, Sent, Received, InBatch
  <2>3. ConnectOK'
    BY <2>f, <2>q, <1>s, <1>t, <1>i DEF ConnectOK, Sent, Received
  <2>4. Phases'
    <3>1. CASE BothInBatch
      BY <3>1, <2>f, <2>q, <1>s, <1>t, <1>i DEF BothInBatch, SidesOK, Delivered, Behind, Quiet
    <3>2. CASE ServerSays
      BY <3>2, <2>f, <2>q, <1>s, <1>t, <1>i DEF ServerSays, SidesOK, Delivered, Behind, Quiet
    <3>3. CASE ClientReads
      <4>1. ClientReads'
        BY <3>3, <2>f, <2>q, <1>s, <1>t, <1>i DEF SidesOK, ConnectOK, ClientReads,
           Behind, Quiet, InHand, Delivered, Sent, Received, InBatch
      <4> QED BY <4>1 DEF Phases
    <3>4. CASE ClientAhead
      BY <3>4, <2>f, <2>q, <1>s, <1>t, <1>i DEF ClientAhead, SidesOK, Delivered, Behind, Quiet
    <3>5. CASE ClientEnds
      BY <3>5, <2>f, <2>q, <1>s, <1>t, <1>i DEF ClientEnds, SidesOK, Delivered, Behind, Quiet
    <3> QED BY <3>1, <3>2, <3>3, <3>4, <3>5, <1>i DEF Phases
  <2> QED BY <2>1, <2>2, <2>3, <2>4 DEF Rest
<1>7. ASSUME PostRecv("server") PROVE Rest'
  <2>f. /\ pc["server"] = "repost" /\ accepted' = accepted
        /\ connected' = connected /\ pc'["server"] = "poll"
        /\ pc'["client"] = pc["client"]
        /\ flight'["server"] = flight["server"]
        /\ flight'["client"] = flight["client"]
        /\ i'["server"] = i["server"] + 1 /\ i'["client"] = i["client"]
        /\ send_count'["server"] = send_count["server"]
        /\ send_count'["client"] = send_count["client"]
        /\ recv_count'["server"] = recv_count["server"]
        /\ recv_count'["client"] = recv_count["client"]
        /\ posted'["server"] = posted["server"] + 1
        /\ posted'["client"] = posted["client"]
    BY <1>7, <1>s, <1>f DEF PostRecv, Goto
  <2>u. UNCHANGED srq_cq
    BY <1>7 DEF PostRecv
  <2>q. /\ N("server")' = N("server") /\ N("client")' = N("client")
        /\ Ev("server")' = Ev("server") /\ Ev("client")' = Ev("client")
        /\ Armed("server")' = Armed("server")
        /\ Armed("client")' = Armed("client")
    BY <2>u, <1>s, QueueMoves DEF IInv
  <2>1. ReceivesConserved'
    <3>1. \A s \in Sides : posted'[s] + N(s)' + (IF pc'[s] = "repost" THEN 1 ELSE 0) = MaxWr
      BY <2>f, <2>q, <1>s, <1>t, <1>i DEF InHand
    <3> QED BY <3>1 DEF ReceivesConserved, N
  <2>2. SidesOK'
    BY <2>f, <2>q, <1>s, <1>t, <1>i DEF SidesOK, Delivered, Sent, Received, InBatch
  <2>3. ConnectOK'
    BY <2>f, <2>q, <1>s, <1>t, <1>i DEF ConnectOK, Sent, Received
  <2>4. Phases'
    <3>1. CASE BothInBatch
      <4>1. BothInBatch'
        BY <3>1, <2>f, <2>q, <1>s, <1>t, <1>i DEF SidesOK, ConnectOK, BothInBatch,
           Quiet, InHand, Delivered, Sent, Received, InBatch
      <4> QED BY <4>1 DEF Phases
    <3>2. CASE ServerSays
      BY <3>2, <2>f, <2>q, <1>s, <1>t, <1>i DEF ServerSays, SidesOK, Delivered, Behind, Quiet
    <3>3. CASE ClientReads
      BY <3>3, <2>f, <2>q, <1>s, <1>t, <1>i DEF ClientReads, SidesOK, Delivered, Behind, Quiet
    <3>4. CASE ClientAhead
      BY <3>4, <2>f, <2>q, <1>s, <1>t, <1>i DEF ClientAhead, SidesOK, Delivered, Behind, Quiet
    <3>5. CASE ClientEnds
      BY <3>5, <2>f, <2>q, <1>s, <1>t, <1>i DEF ClientEnds, SidesOK, Delivered, Behind, Quiet
    <3> QED BY <3>1, <3>2, <3>3, <3>4, <3>5, <1>i DEF Phases
  <2> QED BY <2>1, <2>2, <2>3, <2>4 DEF Rest
<1>8. ASSUME PostRecv("client") PROVE Rest'
  <2>f. /\ pc["client"] = "repost" /\ accepted' = accepted
        /\ connected' = connected /\ pc'["server"] = pc["server"]
        /\ pc'["client"] = "poll" /\ flight'["server"] = flight["server"]
        /\ flight'["client"] = flight["client"]
        /\ i'["server"] = i["server"] /\ i'["client"] = i["client"]
        /\ send_count'["server"] = send_count["server"]
        /\ send_count'["client"] = send_count["client"]
        /\ recv_count'["server"] = recv_count["server"]
        /\ recv_count'["client"] = recv_count["client"]
        /\ posted'["server"] = posted["server"]
        /\ posted'["client"] = posted["client"] + 1
    BY <1>8, <1>s, <1>f DEF PostRecv, Goto
  <2>u. UNCHANGED srq_cq
    BY <1>8 DEF PostRecv
  <2>q. /\ N("server")' = N("server") /\ N("client")' = N("client")
        /\ Ev("server")' = Ev("server") /\ Ev("client")' = Ev("client")
        /\ Armed("server")' = Armed("server")
        /\ Armed("client")' = Armed("client")
    BY <2>u, <1>s, QueueMoves DEF IInv
  <2>1. ReceivesConserved'
    <3>1. \A s \in Sides : posted'[s] + N(s)' + (IF pc'[s] = "repost" THEN 1 ELSE 0) = MaxWr
      BY <2>f, <2>q, <1>s, <1>t, <1>i DEF InHand
    <3> QED BY <3>1 DEF ReceivesConserved, N
  <2>2. SidesOK'
    BY <2>f, <2>q, <1>s, <1>t, <1>i DEF SidesOK, Delivered, Sent, Received, InBatch
  <2>3. ConnectOK'
    BY <2>f, <2>q, <1>s, <1>t, <1>i DEF ConnectOK, Sent, Received
  <2>4. Phases'
    <3>1. CASE BothInBatch
      BY <3>1, <2>f, <2>q, <1>s, <1>t, <1>i DEF BothInBatch, SidesOK, Delivered, Behind, Quiet
    <3>2. CASE ServerSays
      BY <3>2, <2>f, <2>q, <1>s, <1>t, <1>i DEF ServerSays, SidesOK, Delivered, Behind, Quiet
    <3>3. CASE ClientReads
      <4>1. ClientReads'
        BY <3>3, <2>f, <2>q, <1>s, <1>t, <1>i DEF SidesOK, ConnectOK, ClientReads,
           Behind, Quiet, InHand, Delivered, Sent, Received, InBatch
      <4> QED BY <4>1 DEF Phases
    <3>4. CASE ClientAhead
      BY <3>4, <2>f, <2>q, <1>s, <1>t, <1>i DEF ClientAhead, SidesOK, Delivered, Behind, Quiet
    <3>5. CASE ClientEnds
      BY <3>5, <2>f, <2>q, <1>s, <1>t, <1>i DEF ClientEnds, SidesOK, Delivered, Behind, Quiet
    <3> QED BY <3>1, <3>2, <3>3, <3>4, <3>5, <1>i DEF Phases
  <2> QED BY <2>1, <2>2, <2>3, <2>4 DEF Rest
<1>9. ASSUME PostSend("server") PROVE Rest'
  <2>f. /\ pc["server"] = "send" /\ accepted' = accepted
        /\ connected' = connected /\ pc'["server"] = "get_send_comp"
        /\ pc'["client"] = pc["client"] /\ flight'["server"] = "posted"
        /\ flight'["client"] = flight["client"]
        /\ i'["server"] = i["server"] /\ i'["client"] = i["client"]
        /\ send_count'["server"] = send_count["server"]
        /\ send_count'["client"] = send_count["client"]
        /\ recv_count'["server"] = recv_count["server"]
        /\ recv_count'["client"] = recv_count["client"]
        /\ posted'["server"] = posted["server"]
        /\ posted'["client"] = posted["client"]
    BY <1>9, <1>s, <1>f DEF PostSend, Goto
  <2>u. UNCHANGED srq_cq
    BY <1>9 DEF PostSend
  <2>q. /\ N("server")' = N("server") /\ N("client")' = N("client")
        /\ Ev("server")' = Ev("server") /\ Ev("client")' = Ev("client")
        /\ Armed("server")' = Armed("server")
        /\ Armed("client")' = Armed("client")
    BY <2>u, <1>s, QueueMoves DEF IInv
  <2>1. ReceivesConserved'
    <3>1. \A s \in Sides : posted'[s] + N(s)' + (IF pc'[s] = "repost" THEN 1 ELSE 0) = MaxWr
      BY <2>f, <2>q, <1>s, <1>t, <1>i DEF InHand
    <3> QED BY <3>1 DEF ReceivesConserved, N
  <2>2. SidesOK'
    BY <2>f, <2>q, <1>s, <1>t, <1>i DEF SidesOK, Delivered, Sent, Received, InBatch
  <2>3. ConnectOK'
    BY <2>f, <2>q, <1>s, <1>t, <1>i DEF ConnectOK, Sent, Received
  <2>4. Phases'
    <3>1. CASE BothInBatch
      BY <3>1, <2>f, <2>q, <1>s, <1>t, <1>i DEF BothInBatch, SidesOK, Delivered, Behind, Quiet
    <3>2. CASE ServerSays
      <4>1. ServerSays'
        BY <3>2, <2>f, <2>q, <1>s, <1>t, <1>i DEF SidesOK, ConnectOK, ServerSays,
           Quiet, InHand, Delivered, Sent, Received, InBatch
      <4> QED BY <4>1 DEF Phases
    <3>3. CASE ClientReads
      BY <3>3, <2>f, <2>q, <1>s, <1>t, <1>i DEF ClientReads, SidesOK, Delivered, Behind, Quiet
    <3>4. CASE ClientAhead
      BY <3>4, <2>f, <2>q, <1>s, <1>t, <1>i DEF ClientAhead, SidesOK, Delivered, Behind, Quiet
    <3>5. CASE ClientEnds
      BY <3>5, <2>f, <2>q, <1>s, <1>t, <1>i DEF ClientEnds, SidesOK, Delivered, Behind, Quiet
    <3> QED BY <3>1, <3>2, <3>3, <3>4, <3>5, <1>i DEF Phases
  <2> QED BY <2>1, <2>2, <2>3, <2>4 DEF Rest
<1>10. ASSUME PostSend("client") PROVE Rest'
  <2>f. /\ pc["client"] = "send" /\ accepted' = accepted
        /\ connected' = connected /\ pc'["server"] = pc["server"]
        /\ pc'["client"] = "get_send_comp"
        /\ flight'["server"] = flight["server"]
        /\ flight'["client"] = "posted" /\ i'["server"] = i["server"]
        /\ i'["client"] = i["client"]
        /\ send_count'["server"] = send_count["server"]
        /\ send_count'["client"] = send_count["client"]
        /\ recv_count'["server"] = recv_count["server"]
        /\ recv_count'["client"] = recv_count["client"]
        /\ posted'["server"] = posted["server"]
        /\ posted'["client"] = posted["client"]
    BY <1>10, <1>s, <1>f DEF PostSend, Goto
  <2>u. UNCHANGED srq_cq
    BY <1>10 DEF PostSend
  <2>q. /\ N("server")' = N("server") /\ N("client")' = N("client")
        /\ Ev("server")' = Ev("server") /\ Ev("client")' = Ev("client")
        /\ Armed("server")' = Armed("server")
        /\ Armed("client")' = Armed("client")
    BY <2>u, <1>s, QueueMoves DEF IInv
  <2>1. ReceivesConserved'
    <3>1. \A s \in Sides : posted'[s] + N(s)' + (IF pc'[s] = "repost" THEN 1 ELSE 0) = MaxWr
      BY <2>f, <2>q, <1>s, <1>t, <1>i DEF InHand
    <3> QED BY <3>1 DEF ReceivesConserved, N
  <2>2. SidesOK'
    BY <2>f, <2>q, <1>s, <1>t, <1>i DEF SidesOK, Delivered, Sent, Received, InBatch
  <2>3. ConnectOK'
    BY <2>f, <2>q, <1>s, <1>t, <1>i DEF ConnectOK, Sent, Received
  <2>4. Phases'
    <3>1. CASE BothInBatch
      <4>1. BothInBatch'
        BY <3>1, <2>f, <2>q, <1>s, <1>t, <1>i DEF SidesOK, ConnectOK, BothInBatch,
           Quiet, InHand, Delivered, Sent, Received, InBatch
      <4> QED BY <4>1 DEF Phases
    <3>2. CASE ServerSays
      BY <3>2, <2>f, <2>q, <1>s, <1>t, <1>i DEF ServerSays, SidesOK, Delivered, Behind, Quiet
    <3>3. CASE ClientReads
      BY <3>3, <2>f, <2>q, <1>s, <1>t, <1>i DEF ClientReads, SidesOK, Delivered, Behind, Quiet
    <3>4. CASE ClientAhead
      <4>1. ClientAhead'
        BY <3>4, <2>f, <2>q, <1>s, <1>t, <1>i DEF SidesOK, ConnectOK, ClientAhead,
           Quiet, InHand, Delivered, Sent, Received, InBatch
      <4> QED BY <4>1 DEF Phases
    <3>5. CASE ClientEnds
      BY <3>5, <2>f, <2>q, <1>s, <1>t, <1>i DEF ClientEnds, SidesOK, Delivered, Behind, Quiet
    <3> QED BY <3>1, <3>2, <3>3, <3>4, <3>5, <1>i DEF Phases
  <2> QED BY <2>1, <2>2, <2>3, <2>4 DEF Rest
<1>11. ASSUME Deliver("server") PROVE Rest'
  <2>f. /\ flight["server"] = "posted" /\ posted["client"] > 0
        /\ accepted' = accepted /\ connected' = connected
        /\ pc'["server"] = pc["server"] /\ pc'["client"] = pc["client"]
        /\ flight'["server"] = "done"
        /\ flight'["client"] = flight["client"]
        /\ i'["server"] = i["server"] /\ i'["client"] = i["client"]
        /\ send_count'["server"] = send_count["server"]
        /\ send_count'["client"] = send_count["client"]
        /\ recv_count'["server"] = recv_count["server"]
        /\ recv_count'["client"] = recv_count["client"]
        /\ posted'["server"] = posted["server"]
        /\ posted'["client"] = posted["client"] - 1
    BY <1>11, <1>s, <1>f DEF Deliver, Other
  <2>q. /\ N("server")' = N("server") /\ N("client")' = N("client") + 1
        /\ Ev("server")' = Ev("server")
        /\ Ev("client")' = IF Armed("client") THEN Ev("client") + 1 ELSE Ev("client")
        /\ Armed("server")' = Armed("server") /\ Armed("client")' = FALSE
    BY <1>11, <1>s, <1>t, QueueMoves DEF IInv
  <2>1. ReceivesConserved'
    <3>1. \A s \in Sides : posted'[s] + N(s)' + (IF pc'[s] = "repost" THEN 1 ELSE 0) = MaxWr
      BY <2>f, <2>q, <1>s, <1>t, <1>i DEF InHand
    <3> QED BY <3>1 DEF ReceivesConserved, N
  <2>2. SidesOK'
    BY <2>f, <2>q, <1>s, <1>t, <1>i DEF SidesOK, Delivered, Sent, Received, InBatch
  <2>3. ConnectOK'
    BY <2>f, <2>q, <1>s, <1>t, <1>i DEF ConnectOK, Sent, Received
  <2>4. Phases'
    <3>1. CASE BothInBatch
      BY <3>1, <2>f, <2>q, <1>s, <1>t, <1>i DEF BothInBatch, SidesOK, Delivered, Behind, Quiet
    <3>2. CASE ServerSays
      <4>1. ClientReads'
        BY <3>2, <2>f, <2>q, <1>s, <1>t, <1>i DEF SidesOK, ConnectOK, ServerSays, ClientReads,
           Behind, Quiet, InHand, Delivered, Sent, Received, InBatch
      <4> QED BY <4>1 DEF Phases
    <3>3. CASE ClientReads
      BY <3>3, <2>f, <2>q, <1>s, <1>t, <1>i DEF ClientReads, SidesOK, Delivered, Behind, Quiet
    <3>4. CASE ClientAhead
      BY <3>4, <2>f, <2>q, <1>s, <1>t, <1>i DEF ClientAhead, SidesOK, Delivered, Behind, Quiet
    <3>5. CASE ClientEnds
      BY <3>5, <2>f, <2>q, <1>s, <1>t, <1>i DEF ClientEnds, SidesOK, Delivered, Behind, Quiet
    <3> QED BY <3>1, <3>2, <3>3, <3>4, <3>5, <1>i DEF Phases
  <2> QED BY <2>1, <2>2, <2>3, <2>4 DEF Rest
<1>12. ASSUME Deliver("client") PROVE Rest'
  <2>f. /\ flight["client"] = "posted" /\ posted["server"] > 0
        /\ accepted' = accepted /\ connected' = connected
        /\ pc'["server"] = pc["server"] /\ pc'["client"] = pc["client"]
        /\ flight'["server"] = flight["server"]
        /\ flight'["client"] = "done" /\ i'["server"] = i["server"]
        /\ i'["client"] = i["client"]
        /\ send_count'["server"] = send_count["server"]
        /\ send_count'["client"] = send_count["client"]
        /\ recv_count'["server"] = recv_count["server"]
        /\ recv_count'["client"] = recv_count["client"]
        /\ posted'["server"] = posted["server"] - 1
        /\ posted'["client"] = posted["client"]
    BY <1>12, <1>s, <1>f DEF Deliver, Other
  <2>q. /\ N("server")' = N("server") + 1 /\ N("client")' = N("client")
        /\ Ev("server")' = IF Armed("server") THEN Ev("server") + 1 ELSE Ev("server")
        /\ Ev("client")' = Ev("client") /\ Armed("server")' = FALSE
        /\ Armed("client")' = Armed("client")
    BY <1>12, <1>s, <1>t, QueueMoves DEF IInv
  <2>1. ReceivesConserved'
    <3>1. \A s \in Sides : posted'[s] + N(s)' + (IF pc'[s] = "repost" THEN 1 ELSE 0) = MaxWr
      BY <2>f, <2>q, <1>s, <1>t, <1>i DEF InHand
    <3> QED BY <3>1 DEF ReceivesConserved, N
  <2>2. SidesOK'
    BY <2>f, <2>q, <1>s, <1>t, <1>i DEF SidesOK, Delivered, Sent, Received, InBatch
  <2>3. ConnectOK'
    BY <2>f, <2>q, <1>s, <1>t, <1>i DEF ConnectOK, Sent, Received
  <2>4. Phases'
    <3>1. CASE BothInBatch
      <4>1. BothInBatch'
        BY <3>1, <2>f, <2>q, <1>s, <1>t, <1>i DEF SidesOK, ConnectOK, BothInBatch,
           Quiet, InHand, Delivered, Sent, Received, InBatch
      <4> QED BY <4>1 DEF Phases
    <3>2. CASE ServerSays
      BY <3>2, <2>f, <2>q, <1>s, <1>t, <1>i DEF ServerSays, SidesOK, Delivered, Behind, Quiet
    <3>3. CASE ClientReads
      BY <3>3, <2>f, <2>q, <1>s, <1>t, <1>i DEF ClientReads, SidesOK, Delivered, Behind, Quiet
    <3>4. CASE ClientAhead
      <4>1. ClientAhead'
        BY <3>4, <2>f, <2>q, <1>s, <1>t, <1>i DEF SidesOK, ConnectOK, ClientAhead,
           Quiet, InHand, Delivered, Sent, Received, InBatch
      <4> QED BY <4>1 DEF Phases
    <3>5. CASE ClientEnds
      BY <3>5, <2>f, <2>q, <1>s, <1>t, <1>i DEF ClientEnds, SidesOK, Delivered, Behind, Quiet
    <3> QED BY <3>1, <3>2, <3>3, <3>4, <3>5, <1>i DEF Phases
  <2> QED BY <2>1, <2>2, <2>3, <2>4 DEF Rest
<1>13. ASSUME ServerAccept PROVE Rest'
  <2>f. /\ pc["server"] = "connect" /\ accepted = connected
        /\ accepted' = accepted + 1 /\ connected' = connected
        /\ pc'["client"] = pc["client"]
        /\ flight'["server"] = flight["server"]
        /\ flight'["client"] = flight["client"]
        /\ i'["client"] = i["client"]
        /\ send_count'["server"] = send_count["server"]
        /\ send_count'["client"] = send_count["client"]
        /\ recv_count'["server"] = recv_count["server"]
        /\ recv_count'["client"] = recv_count["client"]
        /\ posted'["server"] = posted["server"]
        /\ posted'["client"] = posted["client"]
        /\ \/ accepted + 1 = QpCount /\ 0 < MsgCount /\ pc'["server"] = "await" /\
              i'["server"] = 0
           \/ accepted + 1 = QpCount /\ ~(0 < MsgCount) /\ pc'["server"] = "done" /\
              i'["server"] = i["server"]
           \/ accepted + 1 # QpCount /\ pc'["server"] = pc["server"] /\
              i'["server"] = i["server"]
    BY <1>13, <1>s, <1>f DEF ServerAccept, NextBatch, Goto
  <2>u. UNCHANGED srq_cq
    BY <1>13 DEF ServerAccept
  <2>q. /\ N("server")' = N("server") /\ N("client")' = N("client")
        /\ Ev("server")' = Ev("server") /\ Ev("client")' = Ev("client")
        /\ Armed("server")' = Armed("server")
        /\ Armed("client")' = Armed("client")
    BY <2>u, <1>s, QueueMoves DEF IInv
  <2>1. ReceivesConserved'
    <3>1. \A s \in Sides : posted'[s] + N(s)' + (IF pc'[s] = "repost" THEN 1 ELSE 0) = MaxWr
      BY <2>f, <2>q, <1>s, <1>t, <1>i DEF InHand
    <3> QED BY <3>1 DEF ReceivesConserved, N
  <2>2. SidesOK'
    BY <2>f, <2>q, <1>s, <1>t, <1>i DEF SidesOK, Delivered, Sent, Received, InBatch
  <2>3. ConnectOK'
    BY <2>f, <2>q, <1>s, <1>t, <1>i DEF ConnectOK, Sent, Received
  <2>4. Phases'
    <3>1. CASE BothInBatch
      <4>1. (BothInBatch \/ ClientEnds)'
        BY <3>1, <2>f, <2>q, <1>s, <1>t, <1>i DEF SidesOK, ConnectOK, BothInBatch, ClientEnds,
           Quiet, InHand, Delivered, Sent, Received, InBatch
      <4> QED BY <4>1 DEF Phases
    <3>2. CASE ServerSays
      BY <3>2, <2>f, <2>q, <1>s, <1>t, <1>i DEF ServerSays, SidesOK, Delivered, Behind, Quiet
    <3>3. CASE ClientReads
      BY <3>3, <2>f, <2>q, <1>s, <1>t, <1>i DEF ClientReads, SidesOK, Delivered, Behind, Quiet
    <3>4. CASE ClientAhead
      BY <3>4, <2>f, <2>q, <1>s, <1>t, <1>i DEF ClientAhead, SidesOK, Delivered, Behind, Quiet
    <3>5. CASE ClientEnds
      <4>1. ClientEnds'
        BY <3>5, <2>f, <2>q, <1>s, <1>t, <1>i DEF SidesOK, ConnectOK, ClientEnds,
           Quiet, InHand, Delivered, Sent, Received, InBatch
      <4> QED BY <4>1 DEF Phases
    <3> QED BY <3>1, <3>2, <3>3, <3>4, <3>5, <1>i DEF Phases
  <2> QED BY <2>1, <2>2, <2>3, <2>4 DEF Rest
<1>14. ASSUME ClientConnect PROVE Rest'
  <2>f. /\ pc["client"] = "connect" /\ connected < accepted
        /\ accepted' = accepted /\ connected' = connected + 1
        /\ pc'["server"] = pc["server"]
        /\ flight'["server"] = flight["server"]
        /\ flight'["client"] = flight["client"]
        /\ i'["server"] = i["server"]
        /\ send_count'["server"] = send_count["server"]
        /\ send_count'["client"] = send_count["client"]
        /\ recv_count'["server"] = recv_count["server"]
        /\ recv_count'["client"] = recv_count["client"]
        /\ posted'["server"] = posted["server"]
        /\ posted'["client"] = posted["client"]
        /\ \/ connected + 1 = QpCount /\ 0 < MsgCount /\ pc'["client"] = "send" /\
              i'["client"] = 0
           \/ connected + 1 = QpCount /\ ~(0 < MsgCount) /\ pc'["client"] = "done" /\
              i'["client"] = i["client"]
           \/ connected + 1 # QpCount /\ pc'["client"] = pc["client"] /\
              i'["client"] = i["client"]
    BY <1>14, <1>s, <1>f DEF ClientConnect, NextBatch, Goto
  <2>u. UNCHANGED srq_cq
    BY <1>14 DEF ClientConnect
  <2>q. /\ N("server")' = N("server") /\ N("client")' = N("client")
        /\ Ev("server")' = Ev("server") /\ Ev("client")' = Ev("client")
        /\ Armed("server")' = Armed("server")
        /\ Armed("client")' = Armed("client")
    BY <2>u, <1>s, QueueMoves DEF IInv
  <2>1. ReceivesConserved'
    <3>1. \A s \in Sides : posted'[s] + N(s)' + (IF pc'[s] = "repost" THEN 1 ELSE 0) = MaxWr
      BY <2>f, <2>q, <1>s, <1>t, <1>i DEF InHand
    <3> QED BY <3>1 DEF ReceivesConserved, N
  <2>2. SidesOK'
    BY <2>f, <2>q, <1>s, <1>t, <1>i DEF SidesOK, ConnectOK, Delivered, Sent, Received, InBatch
  <2>3. ConnectOK'
    BY <2>f, <2>q, <1>s, <1>t, <1>i DEF ConnectOK, Sent, Received
  <2>4. Phases'
    <3>1. CASE BothInBatch
      <4>1. BothInBatch'
        BY <3>1, <2>f, <2>q, <1>s, <1>t, <1>i DEF SidesOK, ConnectOK, BothInBatch,
           Quiet, InHand, Delivered, Sent, Received, InBatch
      <4> QED BY <4>1 DEF Phases
    <3>2. CASE ServerSays
      BY <3>2, <2>f, <2>q, <1>s, <1>t, <1>i DEF ServerSays, SidesOK, Delivered, Behind, Quiet
    <3>3. CASE ClientReads
      BY <3>3, <2>f, <2>q, <1>s, <1>t, <1>i DEF ClientReads, SidesOK, Delivered, Behind, Quiet
    <3>4. CASE ClientAhead
      BY <3>4, <2>f, <2>q, <1>s, <1>t, <1>i DEF ClientAhead, SidesOK, Delivered, Behind, Quiet
    <3>5. CASE ClientEnds
      <4>1. ClientEnds'
        BY <3>5, <2>f, <2>q, <1>s, <1>t, <1>i DEF SidesOK, ConnectOK, ClientEnds,
           Quiet, InHand, Delivered, Sent, Received, InBatch
      <4> QED BY <4>1 DEF Phases
    <3> QED BY <3>1, <3>2, <3>3, <3>4, <3>5, <1>i DEF Phases
  <2> QED BY <2>1, <2>2, <2>3, <2>4 DEF Rest
<1>15. ASSUME ServerPollNone PROVE Rest'
  <2>f. /\ pc["server"] = "poll" /\ accepted' = accepted
        /\ connected' = connected /\ pc'["client"] = pc["client"]
        /\ flight'["server"] = flight["server"]
        /\ flight'["client"] = flight["client"]
        /\ i'["server"] = i["server"] /\ i'["client"] = i["client"]
        /\ send_count'["server"] = send_count["server"]
        /\ send_count'["client"] = send_count["client"]
        /\ recv_count'["server"] = recv_count["server"]
        /\ recv_count'["client"] = recv_count["client"]
        /\ posted'["server"] = posted["server"]
        /\ posted'["client"] = posted["client"]
        /\ \/ InBatch(i["server"], recv_count["server"]) /\
              pc'["server"] = "await"
           \/ ~InBatch(i["server"], recv_count["server"]) /\
              pc'["server"] = "send"
    BY <1>15, <1>s, <1>f DEF ServerPollNone, Goto
  <2>u. UNCHANGED srq_cq
    BY <1>15 DEF ServerPollNone
  <2>q. /\ N("server") = 0 /\ N("server")' = N("server")
        /\ N("client")' = N("client") /\ Ev("server")' = Ev("server")
        /\ Ev("client")' = Ev("client")
        /\ Armed("server")' = Armed("server")
        /\ Armed("client")' = Armed("client")
    <3>1. ~HasCompletion(srq_cq["server"])
      BY <1>15 DEF ServerPollNone
    <3>2. N("server") = 0
      BY <3>1, <1>s, <1>c, <1>t
    <3> QED BY <3>2, <2>u, <1>s, QueueMoves DEF IInv
  <2>1. ReceivesConserved'
    <3>1. \A s \in Sides : posted'[s] + N(s)' + (IF pc'[s] = "repost" THEN 1 ELSE 0) = MaxWr
      BY <2>f, <2>q, <1>s, <1>t, <1>i DEF InHand
    <3> QED BY <3>1 DEF ReceivesConserved, N
  <2>2. SidesOK'
    BY <2>f, <2>q, <1>s, <1>t, <1>i DEF SidesOK, Delivered, Sent, Received, InBatch
  <2>3. ConnectOK'
    BY <2>f, <2>q, <1>s, <1>t, <1>i DEF ConnectOK, Sent, Received
  <2>4. Phases'
    <3>1. CASE BothInBatch
      <4>1. /\ Received = Sent + Delivered("client")
            /\ Sent - i["client"] = Received - i["server"] /\ Quiet
            /\ pc["client"] \in {"connect", "send", "get_send_comp", "await"}
        BY <3>1, <2>f, <2>q, <1>s, <1>t, <1>i DEF SidesOK, BothInBatch, InHand, Sent, Received
      <4>2. CASE InBatch(i["server"], Received)
        <5>1. BothInBatch'
          BY <3>1, <4>1, <4>2, <2>f, <2>q, <1>s, <1>t DEF BothInBatch, Quiet, InHand, Sent, Received
        <5> QED BY <5>1 DEF Phases
      <4>3. CASE ~InBatch(i["server"], Received)
        <5>1. pc["client"] # "connect"
          <6> SUFFICES ASSUME pc["client"] = "connect" PROVE FALSE
            OBVIOUS
          <6>1. Sent = 0 /\ i["client"] = 0 /\ 0 < MsgCount /\ Delivered("client") = 0
            BY <2>f, <1>s, <1>i DEF SidesOK, ConnectOK, Delivered
          <6>2. Received = 0 /\ i["server"] = 0
            BY <4>1, <6>1, <1>s, <1>t
          <6> QED BY <4>3, <6>1, <6>2 DEF InBatch
        <5>2. pc["client"] # "send" /\ (pc["client"] = "get_send_comp" => flight["client"] = "done")
          BY <4>1, <4>3, <2>f, <1>s, <1>t, <1>i DEF SidesOK, Delivered, InBatch, Sent, Received
        <5>3. ServerSays'
          BY <4>1, <4>3, <5>1, <5>2, <2>f, <2>q, <1>s, <1>t
             DEF ServerSays, Quiet, Delivered, InBatch, Sent, Received
        <5> QED BY <5>3 DEF Phases
      <4> QED BY <4>2, <4>3
    <3>2. CASE ServerSays
      BY <3>2, <2>f, <2>q, <1>s, <1>t, <1>i DEF ServerSays, SidesOK, Delivered, Behind, Quiet
    <3>3. CASE ClientReads
      <4>1. ClientReads'
        BY <3>3, <2>f, <2>q, <1>s, <1>t, <1>i DEF SidesOK, ConnectOK, ClientReads,
           Behind, Quiet, InHand, Delivered, Sent, Received, InBatch
      <4> QED BY <4>1 DEF Phases
    <3>4. CASE ClientAhead
      BY <3>4, <2>f, <2>q, <1>s, <1>t, <1>i DEF ClientAhead, SidesOK, Delivered, Behind, Quiet
    <3>5. CASE ClientEnds
      BY <3>5, <2>f, <2>q, <1>s, <1>t, <1>i DEF ClientEnds, SidesOK, Delivered, Behind, Quiet
    <3> QED BY <3>1, <3>2, <3>3, <3>4, <3>5, <1>i DEF Phases
  <2> QED BY <2>1, <2>2, <2>3, <2>4 DEF Rest
<1>16. ASSUME ServerSent PROVE Rest'
  <2>f. /\ pc["server"] = "get_send_comp" /\ flight["server"] = "done"
        /\ accepted' = accepted /\ connected' = connected
        /\ pc'["client"] = pc["client"] /\ flight'["server"] = "none"
        /\ flight'["client"] = flight["client"]
        /\ i'["client"] = i["client"]
        /\ send_count'["server"] = send_count["server"] + 1
        /\ send_count'["client"] = send_count["client"]
        /\ recv_count'["server"] = recv_count["server"]
        /\ recv_count'["client"] = recv_count["client"]
        /\ posted'["server"] = posted["server"]
        /\ posted'["client"] = posted["client"]
        /\ \/ recv_count["server"] < MsgCount /\ pc'["server"] = "await" /\
              i'["server"] = 0
           \/ ~(recv_count["server"] < MsgCount) /\ pc'["server"] = "done" /\
              i'["server"] = i["server"]
    BY <1>16, <1>s, <1>f DEF ServerSent, GetSendComp, NextBatch, Goto
  <2>u. UNCHANGED srq_cq
    BY <1>16 DEF ServerSent, GetSendComp
  <2>q. /\ N("server")' = N("server") /\ N("client")' = N("client")
        /\ Ev("server")' = Ev("server") /\ Ev("client")' = Ev("client")
        /\ Armed("server")' = Armed("server")
        /\ Armed("client")' = Armed("client")
    BY <2>u, <1>s, QueueMoves DEF IInv
  <2>1. ReceivesConserved'
    <3>1. \A s \in Sides : posted'[s] + N(s)' + (IF pc'[s] = "repost" THEN 1 ELSE 0) = MaxWr
      BY <2>f, <2>q, <1>s, <1>t, <1>i DEF InHand
    <3> QED BY <3>1 DEF ReceivesConserved, N
  <2>2. SidesOK'
    BY <2>f, <2>q, <1>s, <1>t, <1>i DEF SidesOK, Delivered, Sent, Received, InBatch
  <2>3. ConnectOK'
    BY <2>f, <2>q, <1>s, <1>t, <1>i DEF ConnectOK, Sent, Received
  <2>4. Phases'
    <3>1. CASE BothInBatch
      BY <3>1, <2>f, <2>q, <1>s, <1>t, <1>i DEF BothInBatch, SidesOK, Delivered, Behind, Quiet
    <3>2. CASE ServerSays
      BY <3>2, <2>f, <2>q, <1>s, <1>t, <1>i DEF ServerSays, SidesOK, Delivered, Behind, Quiet
    <3>3. CASE ClientReads
      <4>1. ClientReads'
        BY <3>3, <2>f, <2>q, <1>s, <1>t, <1>i DEF SidesOK, ConnectOK, ClientReads,
           Behind, Quiet, InHand, Delivered, Sent, Received, InBatch
      <4> QED BY <4>1 DEF Phases
    <3>4. CASE ClientAhead
      <4>1. BothInBatch'
        BY <3>4, <2>f, <2>q, <1>s, <1>t, <1>i DEF SidesOK, ConnectOK, ClientAhead, BothInBatch,
           Quiet, InHand, Delivered, Sent, Received, InBatch
      <4> QED BY <4>1 DEF Phases
    <3>5. CASE ClientEnds
      <4>1. ClientEnds'
        BY <3>5, <2>f, <2>q, <1>s, <1>t, <1>i DEF SidesOK, ConnectOK, ClientEnds,
           Quiet, InHand, Delivered, Sent, Received, InBatch
      <4> QED BY <4>1 DEF Phases
    <3> QED BY <3>1, <3>2, <3>3, <3>4, <3>5, <1>i DEF Phases
  <2> QED BY <2>1, <2>2, <2>3, <2>4 DEF Rest
<1>17. ASSUME ClientSent PROVE Rest'
  <2>f. /\ pc["client"] = "get_send_comp" /\ flight["client"] = "done"
        /\ accepted' = accepted /\ connected' = connected
        /\ pc'["server"] = pc["server"]
        /\ flight'["server"] = flight["server"]
        /\ flight'["client"] = "none" /\ i'["server"] = i["server"]
        /\ i'["client"] = i["client"] + 1
        /\ send_count'["server"] = send_count["server"]
        /\ send_count'["client"] = send_count["client"] + 1
        /\ recv_count'["server"] = recv_count["server"]
        /\ recv_count'["client"] = recv_count["client"]
        /\ posted'["server"] = posted["server"]
        /\ posted'["client"] = posted["client"]
        /\ \/ InBatch(i["client"] + 1, send_count["client"] + 1) /\
              pc'["client"] = "send"
           \/ ~InBatch(i["client"] + 1, send_count["client"] + 1) /\
              pc'["client"] = "await"
    BY <1>17, <1>s, <1>f DEF ClientSent, GetSendComp, Goto
  <2>u. UNCHANGED srq_cq
    BY <1>17 DEF ClientSent, GetSendComp
  <2>q. /\ N("server")' = N("server") /\ N("client")' = N("client")
        /\ Ev("server")' = Ev("server") /\ Ev("client")' = Ev("client")
        /\ Armed("server")' = Armed("server")
        /\ Armed("client")' = Armed("client")
    BY <2>u, <1>s, QueueMoves DEF IInv
  <2>1. ReceivesConserved'
    <3>1. \A s \in Sides : posted'[s] + N(s)' + (IF pc'[s] = "repost" THEN 1 ELSE 0) = MaxWr
      BY <2>f, <2>q, <1>s, <1>t, <1>i DEF InHand
    <3> QED BY <3>1 DEF ReceivesConserved, N
  <2>2. SidesOK'
    BY <2>f, <2>q, <1>s, <1>t, <1>i DEF SidesOK, Delivered, Sent, Received, InBatch
  <2>3. ConnectOK'
    BY <2>f, <2>q, <1>s, <1>t, <1>i DEF ConnectOK, Sent, Received
  <2>4. Phases'
    <3>1. CASE BothInBatch
      <4>1. BothInBatch'
        BY <3>1, <2>f, <2>q, <1>s, <1>t, <1>i DEF SidesOK, ConnectOK, BothInBatch,
           Quiet, InHand, Delivered, Sent, Received, InBatch
      <4> QED BY <4>1 DEF Phases
    <3>2. CASE ServerSays
      <4>1. /\ Received = Sent + 1 /\ Quiet
            /\ ~InBatch(i["client"] + 1, Sent + 1)
            /\ ~InBatch(i["server"], Received)
            /\ Sent - i["client"] = Received - i["server"]
            /\ \/ pc["server"] = "send"
               \/ pc["server"] = "get_send_comp" /\ flight["server"] = "posted"
        BY <3>2, <2>f, <1>s, <1>t DEF ServerSays, Delivered, InBatch, Sent, Received
      <4>2. pc'["client"] = "await"
        BY <4>1, <2>f DEF Sent
      <4>3. ServerSays'
        BY <4>1, <4>2, <2>f, <2>q, <1>s, <1>t DEF ServerSays, Quiet, Delivered, InBatch, Sent, Received
      <4> QED BY <4>3 DEF Phases
    <3>3. CASE ClientReads
      <4>1. ClientReads'
        BY <3>3, <2>f, <2>q, <1>s, <1>t, <1>i DEF SidesOK, ConnectOK, ClientReads,
           Behind, Quiet, InHand, Delivered, Sent, Received, InBatch
      <4> QED BY <4>1 DEF Phases
    <3>4. CASE ClientAhead
      <4>1. ClientAhead'
        BY <3>4, <2>f, <2>q, <1>s, <1>t, <1>i DEF SidesOK, ConnectOK, ClientAhead,
           Quiet, InHand, Delivered, Sent, Received, InBatch
      <4> QED BY <4>1 DEF Phases
    <3>5. CASE ClientEnds
      BY <3>5, <2>f, <2>q, <1>s, <1>t, <1>i DEF ClientEnds, SidesOK, Delivered, Behind, Quiet
    <3> QED BY <3>1, <3>2, <3>3, <3>4, <3>5, <1>i DEF Phases
  <2> QED BY <2>1, <2>2, <2>3, <2>4 DEF Rest
<1>18. ASSUME ClientPollNone PROVE Rest'
  <2>f. /\ pc["client"] = "poll" /\ accepted' = accepted
        /\ connected' = connected /\ pc'["server"] = pc["server"]
        /\ flight'["server"] = flight["server"]
        /\ flight'["client"] = flight["client"]
        /\ i'["server"] = i["server"]
        /\ send_count'["server"] = send_count["server"]
        /\ send_count'["client"] = send_count["client"]
        /\ recv_count'["server"] = recv_count["server"]
        /\ recv_count'["client"] = recv_count["client"]
        /\ posted'["server"] = posted["server"]
        /\ posted'["client"] = posted["client"]
        /\ \/ send_count["client"] < MsgCount /\ pc'["client"] = "send" /\
              i'["client"] = 0
           \/ ~(send_count["client"] < MsgCount) /\ pc'["client"] = "done" /\
              i'["client"] = i["client"]
    BY <1>18, <1>s, <1>f DEF ClientPollNone, NextBatch, Goto
  <2>u. UNCHANGED srq_cq
    BY <1>18 DEF ClientPollNone
  <2>q. /\ N("client") = 0 /\ N("server")' = N("server")
        /\ N("client")' = N("client") /\ Ev("server")' = Ev("server")
        /\ Ev("client")' = Ev("client")
        /\ Armed("server")' = Armed("server")
        /\ Armed("client")' = Armed("client")
    <3>1. ~HasCompletion(srq_cq["client"])
      BY <1>18 DEF ClientPollNone
    <3>2. N("client") = 0
      BY <3>1, <1>s, <1>c, <1>t
    <3> QED BY <3>2, <2>u, <1>s, QueueMoves DEF IInv
  <2>1. ReceivesConserved'
    <3>1. \A s \in Sides : posted'[s] + N(s)' + (IF pc'[s] = "repost" THEN 1 ELSE 0) = MaxWr
      BY <2>f, <2>q, <1>s, <1>t, <1>i DEF InHand
    <3> QED BY <3>1 DEF ReceivesConserved, N
  <2>2. SidesOK'
    BY <2>f, <2>q, <1>s, <1>t, <1>i DEF SidesOK, Delivered, Sent, Received, InBatch
  <2>3. ConnectOK'
    BY <2>f, <2>q, <1>s, <1>t, <1>i DEF ConnectOK, Sent, Received
  <2>4. Phases'
    <3>1. CASE BothInBatch
      BY <3>1, <2>f, <2>q, <1>s, <1>t, <1>i DEF BothInBatch, SidesOK, Delivered, Behind, Quiet
    <3>2. CASE ServerSays
      BY <3>2, <2>f, <2>q, <1>s, <1>t, <1>i DEF ServerSays, SidesOK, Delivered, Behind, Quiet
    <3>3. CASE ClientReads
      <4>1. (ClientAhead \/ BothInBatch \/ ClientEnds)'
        BY <3>3, <2>f, <2>q, <1>s, <1>t, <1>i DEF SidesOK, ConnectOK, ClientReads, ClientAhead, BothInBatch, ClientEnds,
           Behind, Quiet, InHand, Delivered, Sent, Received, InBatch
      <4> QED BY <4>1 DEF Phases
    <3>4. CASE ClientAhead
      BY <3>4, <2>f, <2>q, <1>s, <1>t, <1>i DEF ClientAhead, SidesOK, Delivered, Behind, Quiet
    <3>5. CASE ClientEnds
      BY <3>5, <2>f, <2>q, <1>s, <1>t, <1>i DEF ClientEnds, SidesOK, Delivered, Behind, Quiet
    <3> QED BY <3>1, <3>2, <3>3, <3>4, <3>5, <1>i DEF Phases
  <2> QED BY <2>1, <2>2, <2>3, <2>4 DEF Rest
<1> QED
  BY <1>1, <1>2, <1>3, <1>4, <1>5, <1>6, <1>7, <1>8, <1>9, <1>10, <1>11, <1>12, <1>13, <1>14, <1>15, <1>16, <1>17, <1>18,
     <1>s DEF Next, Server, Client, Step

(* The invariant holds in every state.                                     *)
LEMMA InvOK == Spec => []IInv
<1>1. IInv /\ [Next]_vars => IInv'
  <2> SUFFICES ASSUME IInv, [Next]_vars PROVE IInv'
    OBVIOUS
  <2>1. TypeOK'
    BY TypeStep DEF IInv
  <2>2. CASE Next
    BY <2>1, <2>2, StepInv DEF IInv, Rest
  <2>3. CASE UNCHANGED vars
    <3>1. \A s \in Sides : N(s)' = N(s) /\ Ev(s)' = Ev(s) /\ Armed(s)' = Armed(s)
      BY <2>3 DEF vars, N, Ev, Armed
    <3>2. ReceivesConserved' /\ SidesOK' /\ ConnectOK'
      BY <2>3, <3>1 DEF vars, IInv, ReceivesConserved, SidesOK, ConnectOK, N, Sides,
         Delivered, Sent, Received, InBatch
    <3>3. Phases'
      BY <2>3, <3>1 DEF vars, IInv, Phases, BothInBatch, ServerSays, ClientReads,
         ClientAhead, ClientEnds, Behind, Quiet, InHand, Delivered, Sent, Received,
         InBatch, Sides
    <3> QED BY <2>1, <3>2, <3>3 DEF IInv
  <2> QED BY <2>2, <2>3
<1> QED BY InitInv, <1>1, PTL DEF Spec

(* Type correctness: every variable of both sides has values of its type.  *)
THEOREM TypeCorrect == Spec => []TypeOK
BY InvOK, PTL DEF IInv

(* No receive is ever lost or posted twice, and no CQ of MaxWr entries     *)
(* overruns, for any number of messages, receives and connections.         *)
THEOREM ReceivesKept == Spec => []ReceivesConserved
BY InvOK, PTL DEF IInv

(* Whoever has a message under way finds a receive posted for it.          *)
THEOREM NoOutrunning == Spec => []NeverOutruns
<1>1. IInv => NeverOutruns
  <2> SUFFICES ASSUME IInv PROVE NeverOutruns
    OBVIOUS
  <2> USE SrqAssumption
  <2>1. /\ "server" \in Sides /\ "client" \in Sides
        /\ \A s \in Sides : s = "server" \/ s = "client"
        /\ Other("server") = "client" /\ Other("client") = "server"
    BY DEF Sides, Other
  <2>2. \A s \in Sides : posted[s] \in Nat /\ i[s] \in Nat /\ send_count[s] \in Nat
                         /\ recv_count[s] \in Nat /\ N(s) \in Nat
    BY QueueMoves DEF IInv, TypeOK
  <2>3. \A s \in Sides : posted[s] + N(s) + InHand(s) = MaxWr
    BY DEF IInv, ReceivesConserved, N, InHand
  <2>4. SidesOK /\ Phases
    BY DEF IInv
  <2>5. ASSUME flight["client"] = "posted" PROVE posted["server"] > 0
    <3>1. /\ pc["client"] = "get_send_comp" /\ i["client"] < MaxWr
          /\ Received + N("server") = Sent
      BY <2>4, <2>5, <2>1, <2>2 DEF SidesOK, InBatch, Delivered, Sent, Received
    <3>2. CASE BothInBatch
      BY <3>1, <3>2, <2>1, <2>2, <2>3 DEF BothInBatch, InHand, Sent, Received
    <3>3. CASE ClientAhead
      BY <3>1, <3>3, <2>1, <2>2, <2>3 DEF ClientAhead, InHand, Sent, Received
    <3>4. ~ServerSays /\ ~ClientReads /\ ~ClientEnds
      BY <3>1, <2>5 DEF ServerSays, ClientReads, ClientEnds
    <3> QED BY <3>2, <3>3, <3>4, <2>4 DEF Phases
  <2>6. ASSUME flight["server"] = "posted" PROVE posted["client"] > 0
    <3>1. pc["server"] = "get_send_comp"
      BY <2>4, <2>6, <2>1 DEF SidesOK
    <3>2. ServerSays
      BY <3>1, <2>6, <2>4 DEF Phases, BothInBatch, ClientReads, ClientAhead, ClientEnds
    <3> QED BY <3>2, <2>1, <2>2, <2>3 DEF ServerSays, Quiet, InHand
  <2> QED BY <2>1, <2>5, <2>6 DEF NeverOutruns
<1> QED BY InvOK, <1>1, PTL

(* The client never goes on before its last batch is received and all      *)
(* receives are posted again: no stale event releases it.                  *)
THEOREM GoesOnInTime == Spec => []GoesOnAfterAll
<1>1. IInv => GoesOnAfterAll
  <2> SUFFICES ASSUME IInv, pc["client"] = "send", i["client"] = 0
               PROVE  recv_count["server"] = send_count["client"] /\ posted["server"] = MaxWr
    BY DEF GoesOnAfterAll
  <2> USE SrqAssumption
  <2>1. "server" \in Sides /\ "client" \in Sides
    BY DEF Sides
  <2>2. \A s \in Sides : posted[s] \in Nat /\ i[s] \in Nat /\ send_count[s] \in Nat
                         /\ recv_count[s] \in Nat /\ N(s) \in Nat
    BY QueueMoves DEF IInv, TypeOK
  <2>3. posted["server"] + N("server") + InHand("server") = MaxWr
    BY <2>1 DEF IInv, ReceivesConserved, N, InHand
  <2>4. Received + N("server") = Sent /\ Phases
    BY <2>1, <2>2 DEF IInv, SidesOK, Delivered, Sent, Received
  <2>5. CASE BothInBatch
    BY <2>5, <2>1, <2>2, <2>3, <2>4 DEF BothInBatch, InHand, Sent, Received
  <2>6. CASE ClientAhead
    BY <2>6, <2>1, <2>2, <2>3, <2>4 DEF ClientAhead, InHand, Sent, Received
  <2>7. ~ServerSays /\ ~ClientReads /\ ~ClientEnds
    BY DEF ServerSays, ClientReads, ClientEnds, Behind
  <2> QED BY <2>4, <2>5, <2>6, <2>7 DEF Phases
<1> QED BY InvOK, <1>1, PTL
=============================================================================
