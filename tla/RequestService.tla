--------------------------- MODULE RequestService ---------------------------
(***************************************************************************)
(* What the RDMA bridge promises the runs of ./client, without threads,    *)
(* queues or connections: a request is forwarded to WANProxy at most once, *)
(* WANProxy has at most one unanswered request at a time, and a client     *)
(* that is served is served after its own request was answered, and not    *)
(* twice.  Where something may fail, a run may find nothing to ask, or     *)
(* give up at any stage before it is served, and nothing else changes.     *)
(***************************************************************************)
CONSTANTS Clients, MayFail

VARIABLE stage      \* [Clients -> Stages]

Stages == {"idle", "asked", "forwarded", "answered", "served", "ended"}

Init == stage = [c \in Clients |-> "idle"]

Move(c, from, to) == stage[c] = from /\ stage' = [stage EXCEPT ![c] = to]

Ask(c)     == Move(c, "idle", "asked")
Forward(c) == Move(c, "asked", "forwarded")
              /\ \A d \in Clients : stage[d] # "forwarded"
Answer(c)  == Move(c, "forwarded", "answered")
Serve(c)   == Move(c, "answered", "served")
End(c)     == Move(c, "served", "ended")

Refuse(c)  == MayFail /\ Move(c, "idle", "ended")
GiveUp(c)  == MayFail /\ \E s \in {"asked", "forwarded", "answered"} :
                           Move(c, s, "ended")

(* What a run that has started goes on with.                               *)
Step(c) == Forward(c) \/ Answer(c) \/ Serve(c) \/ End(c) \/ GiveUp(c)

Next == \E c \in Clients : Ask(c) \/ Refuse(c) \/ Step(c)

Order == Init /\ [][Next]_stage

Spec == Order /\ \A c \in Clients : WF_stage(Step(c))
=============================================================================
