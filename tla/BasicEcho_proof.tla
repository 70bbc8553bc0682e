--------------------------- MODULE BasicEcho_proof ---------------------------
(***************************************************************************)
(* The first client and server, for every set of clients and any number of *)
(* crashes: no process ends with die unless a client crashed, the server   *)
(* used freed memory or was not found, and the poller that socket_send keeps away from its  *)
(* channel finds an event there when it comes back, if it has work.        *)
(***************************************************************************)
EXTENDS BasicEcho, CompletionQueue_proof, FiniteSetTheorems,
        WellFoundedInduction

(* Before the client has sent, and before the server has.                  *)
Unsent == {"none", "addr", "route", "requested", "accepted", "rejected"}

PlaceOK(c) ==
  /\ cst[c] = "idle" => cm[c] = "none"
  /\ cm[c] \in Unsent => request[c] = "none"
  /\ cm[c] \in Unsent \cup {"rtu"} => greeting[c] = "none"

(* A completion that has been counted is not in the CQ any more.           *)
CountedSend(c) == request[c] = "done" /\ "SEND" \notin wcs[c]
CountedRecv(c) == greeting[c] = "done" /\ "RECV" \notin wcs[c]

(* num_completions counts what is done: each success at most once.         *)
CountOK(c) ==
  /\ "SEND" \in wcs[c] => request[c] = "done"
  /\ "RECV" \in wcs[c] => greeting[c] = "done"
  /\ num_completions[c] = 1 => CountedSend(c) \/ CountedRecv(c)
  /\ num_completions[c] = 2 => CountedSend(c) /\ CountedRecv(c) /\ wcs[c] = {}

(* A poller that waits for an event has one, or an armed, empty CQ; while  *)
(* it drains the CQ, or is kept away by socket_send, the CQ is armed or    *)
(* has queued an event since.                                              *)
WakeOK ==
  /\ spc \in {"none", "get_cq_event"} =>
       cq.events > 0 \/ (cq.armed /\ cq.wcs = << >>)
  /\ spc \in {"poll", "on_completion", "connect", "send", "read"} => cq.events > 0 \/ cq.armed

(* Every completion of a CQ is a success.                                  *)
AllOk(q) == \A i \in 1 .. Len(q.wcs) : q.wcs[i].ok

(* Nothing has gone wrong that the programs did not cause themselves.      *)
Undisturbed == spc # "fault" /\ \A c \in Clients : cst[c] # "crashed"

(* The two sides of one connection: it is given up only by a client that   *)
(* has counted both completions, so a greeting under way finds its client. *)
ServedOK(c) ==
  /\ cst[c] = "died" => cm[c] \in {"addr", "route"}
  /\ cm[c] # "rejected" /\ "failed" \notin wcs[c]
  /\ cm[c] \in {"disconnecting", "disconnected"} => num_completions[c] = 2
  /\ cst[c] = "exited" => cm[c] = "disconnected"
  /\ greeting[c] = "posted" => cst[c] = "running"

NothingFails ==
  Undisturbed =>
    /\ spc # "died"
    /\ AllOk(cq)
    /\ \A c \in Clients : ServedOK(c)

(* socket_send is called for a connection.                                 *)
CurOK == spc \in {"on_completion", "connect", "send"} => cur \in Clients

(* The inductive invariant.                                                *)
IInv ==
  /\ TypeOK
  /\ CurOK
  /\ \A c \in Clients : PlaceOK(c) /\ CountOK(c)
  /\ WakeOK
  /\ NothingFails

(* rdma_destroy_qp leaves a CQ with some of its completions.               *)
LEMMA PurgeFacts ==
  ASSUME NEW W, NEW q \in CompletionQueues(W), NEW c, NEW p \in Purge(q, c)
  PROVE  /\ p \in CompletionQueues(W)
         /\ p.armed = q.armed /\ p.events = q.events
         /\ q.wcs = << >> => p.wcs = << >>
         /\ \A i \in 1 .. Len(p.wcs) :
              \E j \in 1 .. Len(q.wcs) : p.wcs[i] = q.wcs[j]
<1> DEFINE kept == {i \in 1 .. Len(q.wcs) : q.wcs[i].conn # c}
           n == Cardinality(kept)
<1>1. q.wcs \in Seq(W) /\ Len(q.wcs) \in Nat
  BY DEF CompletionQueues
<1>2. n \in Nat /\ (q.wcs = << >> => n = 0)
  <2>1. IsFiniteSet(1 .. Len(q.wcs))
    BY <1>1, FS_Interval
  <2>2. IsFiniteSet(kept)
    BY <2>1, FS_Subset
  <2>3. q.wcs = << >> => kept = {}
    BY <1>1
  <2> QED BY <2>2, <2>3, FS_CardinalityType, FS_EmptySet
<1>3. PICK f \in [1 .. n -> kept] :
        p = [q EXCEPT !.wcs = [i \in 1 .. n |-> q.wcs[f[i]]]]
  BY DEF Purge
<1>4. \A i \in 1 .. n : f[i] \in 1 .. Len(q.wcs)
  BY <1>3
<1> HIDE DEF n, kept
<1> DEFINE s == [i \in 1 .. n |-> q.wcs[f[i]]]
<1>5. s \in Seq(W) /\ Len(s) = n
  BY <1>1, <1>2, <1>4
<1>6. p.wcs = s /\ p.armed = q.armed /\ p.events = q.events
  BY <1>3 DEF CompletionQueues
<1>7. p \in CompletionQueues(W)
  <2> HIDE DEF s
  <2>1. p = [q EXCEPT !.wcs = s]
    BY <1>3 DEF s
  <2> QED BY <2>1, <1>5 DEF CompletionQueues
<1>8. n = 0 => s = << >>
  BY <1>5
<1>9. \A i \in 1 .. Len(s) : s[i] = q.wcs[f[i]]
  BY <1>5
<1> QED BY <1>2, <1>4, <1>5, <1>6, <1>7, <1>8, <1>9

(* Every non-empty set of numbers has a least one.                         *)
LEMMA LeastNumber ==
  ASSUME NEW T, T \subseteq Nat, T # {}
  PROVE  \E m \in T : \A n \in T : m <= n
<1> DEFINE R == {ss \in Nat \X Nat : ss[1] < ss[2]}
<1>1. IsWellFoundedOn(R, Nat)
  BY NatLessThanWellFounded DEF OpToRel
<1>2. \A x, y \in Nat : x < y => <<x, y>> \in R
  OBVIOUS
<1> HIDE DEF R
<1>3. PICK m \in T : \A y \in T : ~ (<<y, m>> \in R)
  <2> HIDE DEF IsWellFoundedOn
  <2> QED BY <1>1, WFMin
<1>4. \A k \in T : ~ (k < m)
  BY <1>2, <1>3
<1> QED BY <1>3, <1>4

(* A finite set of numbers can be counted in increasing order.             *)
LEMMA CountInOrder ==
  ASSUME NEW n \in Nat, NEW K, K \subseteq 1 .. n
  PROVE  \E f \in [1 .. Cardinality(K) -> K] :
           \A i, j \in 1 .. Cardinality(K) : i < j => f[i] < f[j]
<1> DEFINE Part(m) == {k \in K : k <= m}
           Count(m) == Cardinality(Part(m))
           Good(m) == \E f \in [1 .. Count(m) -> Part(m)] :
                        \A i, j \in 1 .. Count(m) : i < j => f[i] < f[j]
           Bad == {m \in Nat : ~ Good(m)}
<1>1. IsFiniteSet(K)
  <2>1. IsFiniteSet(1 .. n)
    BY FS_Interval
  <2> QED BY <2>1, FS_Subset
<1>2. \A m \in Nat : IsFiniteSet(Part(m)) /\ Count(m) \in Nat
  <2>1. ASSUME NEW m \in Nat PROVE IsFiniteSet(Part(m))
    <3>1. Part(m) \subseteq K
      OBVIOUS
    <3> QED BY <1>1, <3>1, FS_Subset
  <2> QED BY <2>1, FS_CardinalityType
<1>3. SUFFICES Bad = {}
  <2>1. Part(n) = K
    <3>1. \A k \in K : k <= n
      OBVIOUS
    <3> QED BY <3>1
  <2>2. Good(n) => \E f \in [1 .. Cardinality(K) -> K] :
           \A i, j \in 1 .. Cardinality(K) : i < j => f[i] < f[j]
    BY <2>1
  <2> QED BY <2>2
<1>4. SUFFICES ASSUME Bad # {} PROVE FALSE
  OBVIOUS
<1>5. PICK m \in Bad : \A b \in Bad : m <= b
  <2>1. Bad \subseteq Nat
    OBVIOUS
  <2> HIDE DEF Bad
  <2> QED BY <1>4, <2>1, LeastNumber
<1>6. CASE m = 0
  <2>1. Part(m) = {}
    <3>1. \A k \in K : ~ (k <= 0)
      OBVIOUS
    <3> QED BY <3>1, <1>6
  <2>2. Count(m) = 0
    BY <2>1, FS_EmptySet
  <2>3. <<>> \in [1 .. 0 -> Part(m)]
    OBVIOUS
  <2>4. Good(m)
    <3>1. \A i \in 1 .. 0 : FALSE
      OBVIOUS
    <3> HIDE DEF Part
    <3> QED BY <2>2, <2>3, <3>1
  <2> QED BY <1>5, <2>4
<1>7. CASE m # 0
  <2> DEFINE c == Count(m - 1)
  <2>1. m - 1 \in Nat /\ m \in Nat /\ m - 1 \notin Bad
    <3>1. m \in Nat /\ m - 1 \in Nat /\ ~ (m <= m - 1)
      BY <1>7
    <3> HIDE DEF Good
    <3> QED BY <3>1, <1>5
  <2>2. PICK f \in [1 .. c -> Part(m - 1)] :
          \A i, j \in 1 .. c : i < j => f[i] < f[j]
    <3>1. Good(m - 1)
      <4> HIDE DEF Good
      <4> QED BY <2>1
    <3> QED BY <3>1
  <2>3. CASE m \notin K
    <3>1. Part(m) = Part(m - 1)
      <4>1. \A k \in K : k <= m <=> k <= m - 1
        BY <2>1, <2>3
      <4> QED BY <4>1
    <3>2. Good(m)
      <4> HIDE DEF Part
      <4> QED BY <2>2, <3>1
    <3> QED BY <1>5, <3>2
  <2>4. CASE m \in K
    <3>1. Part(m) = Part(m - 1) \cup {m} /\ m \notin Part(m - 1)
      <4>1. \A k \in K : k <= m <=> k <= m - 1 \/ k = m
        BY <2>1
      <4> QED BY <4>1, <2>1, <2>4
    <3>2. Count(m) = c + 1 /\ c \in Nat
      <4> HIDE DEF Part
      <4> QED BY <1>2, <2>1, <3>1, FS_AddElement
    <3> DEFINE g == [i \in 1 .. c + 1 |-> IF i = c + 1 THEN m ELSE f[i]]
    <3>3. \A i \in 1 .. c : f[i] \in Part(m - 1)
      OBVIOUS
    <3> HIDE DEF Count, c
    <3>4. g \in [1 .. c + 1 -> Part(m)]
      BY <3>1, <3>2, <3>3
    <3>5. \A i, j \in 1 .. c + 1 : i < j => g[i] < g[j]
      <4> SUFFICES ASSUME NEW i \in 1 .. c + 1, NEW j \in 1 .. c + 1, i < j
                   PROVE  g[i] < g[j]
        OBVIOUS
      <4>1. i \in 1 .. c /\ g[i] = f[i] /\ f[i] < m
        <5>1. i \in 1 .. c
          BY <3>2
        <5>2. f[i] \in Part(m - 1)
          BY <5>1, <3>3
        <5>3. f[i] \in Nat /\ f[i] <= m - 1
          <6>1. \A k \in Part(m - 1) : k \in Nat /\ k <= m - 1
            OBVIOUS
          <6> HIDE DEF Part
          <6> QED BY <5>2, <6>1
        <5>4. g[i] = f[i]
          BY <5>1, <3>2
        <5> QED BY <5>1, <5>3, <5>4, <2>1
      <4>2. CASE j = c + 1
        BY <4>1, <4>2, <3>2
      <4>3. CASE j # c + 1
        <5>1. j \in 1 .. c /\ g[j] = f[j]
          BY <4>3, <3>2
        <5> QED BY <4>1, <5>1, <2>2
      <4> QED BY <4>2, <4>3
    <3>6. Good(m)
      <4> HIDE DEF g
      <4> QED BY <3>2, <3>4, <3>5
    <3> QED BY <1>5, <3>6
  <2> QED BY <2>3, <2>4
<1> QED BY <1>6, <1>7

(* Purge always has a result: rdma_destroy_qp is never refused.            *)
LEMMA PurgeExists ==
  ASSUME NEW W, NEW q \in CompletionQueues(W), NEW c
  PROVE  Purge(q, c) # {}
<1> DEFINE kept == {i \in 1 .. Len(q.wcs) : q.wcs[i].conn # c}
<1>1. Len(q.wcs) \in Nat /\ kept \subseteq 1 .. Len(q.wcs)
  BY DEF CompletionQueues
<1>2. PICK f \in [1 .. Cardinality(kept) -> kept] :
        \A i, j \in 1 .. Cardinality(kept) : i < j => f[i] < f[j]
  <2> HIDE DEF kept
  <2> QED BY <1>1, CountInOrder
<1>3. [q EXCEPT !.wcs = [i \in 1 .. Cardinality(kept) |-> q.wcs[f[i]]]]
        \in Purge(q, c)
  BY <1>2 DEF Purge
<1> QED BY <1>3

(* It stays so when a success is added, and when completions are taken.    *)
LEMMA AllOkKept ==
  ASSUME NEW W, NEW q \in CompletionQueues(W), AllOk(q)
  PROVE  /\ \A w \in W : w.ok => AllOk(Complete(q, w))
         /\ HasCompletion(q) => Oldest(q).ok /\ AllOk(Poll(q))
         /\ \A c : \A p \in Purge(q, c) : AllOk(p)
         /\ \A p : p.wcs = q.wcs => AllOk(p)
<1>1. ASSUME NEW w \in W, w.ok PROVE AllOk(Complete(q, w))
  <2> DEFINE p == Complete(q, w)
             n == Len(q.wcs)
  <2>1. /\ n \in Nat /\ Len(p.wcs) = n + 1 /\ p.wcs[n + 1] = w
        /\ \A i \in 1 .. n : p.wcs[i] = q.wcs[i]
    BY CqContents
  <2> HIDE DEF p
  <2>2. SUFFICES ASSUME NEW i \in 1 .. n + 1 PROVE p.wcs[i].ok
    BY <2>1 DEF AllOk, p
  <2>3. CASE i = n + 1
    BY <2>1, <2>3, <1>1
  <2>4. CASE i \in 1 .. n
    BY <2>1, <2>4 DEF AllOk
  <2> QED BY <2>1, <2>3, <2>4
<1>2. ASSUME HasCompletion(q) PROVE Oldest(q).ok /\ AllOk(Poll(q))
  <2> DEFINE p == Poll(q)
             n == Len(q.wcs)
  <2>1. n \in Nat /\ n > 0
    <3>1. q.wcs \in Seq(W) /\ q.wcs # << >>
      BY <1>2 DEF CompletionQueues, HasCompletion
    <3> QED BY <3>1
  <2>2. Oldest(q) = q.wcs[1] /\ Len(p.wcs) = n - 1
        /\ \A i \in 1 .. n - 1 : p.wcs[i] = q.wcs[i + 1]
    BY <1>2, CqPoll
  <2>3. Oldest(q).ok
    BY <2>1, <2>2 DEF AllOk
  <2> HIDE DEF p
  <2>4. SUFFICES ASSUME NEW i \in 1 .. n - 1 PROVE p.wcs[i].ok
    BY <2>2, <2>3 DEF AllOk, p
  <2>5. i + 1 \in 1 .. n
    BY <2>1
  <2>6. q.wcs[i + 1].ok
    BY <2>5 DEF AllOk
  <2> QED BY <2>2, <2>6
<1>3. ASSUME NEW c, NEW p \in Purge(q, c) PROVE AllOk(p)
  BY <1>3, PurgeFacts DEF AllOk
<1>4. \A p : p.wcs = q.wcs => AllOk(p)
  BY DEF AllOk
<1> QED BY <1>1, <1>2, <1>3, <1>4

(* What the CQ may hold, and the CQs.                                      *)
Wc == WorkCompletion(Clients)
Cq == CompletionQueues(Wc)

(* Every initial state satisfies the invariant.                            *)
LEMMA InitInv == Init => IInv
<1> SUFFICES ASSUME Init PROVE IInv
  OBVIOUS
<1> USE DEF Init
<1>1. NewCq \in CompletionQueues(WorkCompletion(Clients))
  BY NewCqType
<1>2. TypeOK /\ CurOK
  BY <1>1 DEF TypeOK, CurOK, CmStates, Ended, ClientWcs
<1>3. \A c \in Clients : PlaceOK(c) /\ CountOK(c) /\ ServedOK(c)
  BY DEF PlaceOK, CountOK, ServedOK, Unsent
<1>4. WakeOK
  BY DEF WakeOK, NewCq
<1>5. NothingFails
  BY <1>3 DEF NothingFails, AllOk, NewCq
<1> QED BY <1>2, <1>3, <1>4, <1>5 DEF IInv

(* What the operators on the CQ keep of its type.                          *)
LEMMA CqKeeps ==
  ASSUME TypeOK
  PROVE  /\ cq \in Cq
         /\ \A w \in Wc : Complete(cq, w) \in Cq
         /\ Arm(cq) \in Cq
         /\ HasEvent(cq) => TakeEvent(cq) \in Cq
         /\ HasCompletion(cq) => Oldest(cq) \in Wc /\ Poll(cq) \in Cq
         /\ \A c \in Clients : \A p \in Purge(cq, c) : p \in Cq
         /\ \A w \in Wc : w.op \in {"SEND", "RECV"} /\ w.ok \in BOOLEAN
                                                 /\ w.conn \in Clients
<1>1. cq \in Cq
  BY DEF TypeOK, Cq, Wc
<1>2. \A w \in Wc :
        w.op \in {"SEND", "RECV"} /\ w.ok \in BOOLEAN /\ w.conn \in Clients
  BY DEF Wc, WorkCompletion
<1>3. \A c \in Clients : \A p \in Purge(cq, c) : p \in Cq
  BY <1>1, PurgeFacts DEF Cq
<1>4. /\ \A w \in Wc : Complete(cq, w) \in Cq
      /\ Wc # {} => /\ Arm(cq) \in Cq
                    /\ HasEvent(cq) => TakeEvent(cq) \in Cq
                    /\ HasCompletion(cq) => Oldest(cq) \in Wc /\ Poll(cq) \in Cq
  BY <1>1, CqTypes DEF Cq
<1>5. HasCompletion(cq) => Wc # {}
  BY <1>1 DEF HasCompletion, Cq, CompletionQueues
<1>6. Arm(cq) \in Cq
  BY <1>1 DEF Cq, CompletionQueues, Arm
<1>7. HasEvent(cq) => TakeEvent(cq) \in Cq
  BY <1>1 DEF Cq, CompletionQueues, TakeEvent, HasEvent
<1> QED BY <1>1, <1>2, <1>3, <1>4, <1>5, <1>6, <1>7

(* Every step keeps the types.                                             *)
LEMMA TypeStep ==
  ASSUME IInv, [Next]_vars
  PROVE  TypeOK' /\ CurOK'
<1> USE DEF TypeOK, CurOK, IInv, CmStates, ClientWcs, Ended,
            cliVars, connVars, tcpVars, Connection
<1>1. ASSUME NEW c \in Clients, Start(c) PROVE TypeOK' /\ CurOK'
  BY <1>1 DEF Start
<1>2. ASSUME NEW c \in Clients, ClientCrash(c) PROVE TypeOK' /\ CurOK'
  BY <1>2 DEF ClientCrash
<1>3. ASSUME NEW c \in Clients, ClientOnAddrResolved(c) PROVE TypeOK' /\ CurOK'
  BY <1>3 DEF ClientOnAddrResolved
<1>4. ASSUME NEW c \in Clients, ClientOnRouteResolved(c)
      PROVE  TypeOK' /\ CurOK'
  BY <1>4 DEF ClientOnRouteResolved
<1>5. ASSUME NEW c \in Clients, ClientOnConnection(c) PROVE TypeOK' /\ CurOK'
  BY <1>5 DEF ClientOnConnection
<1>6. ASSUME NEW c \in Clients, ClientOnCompletion(c) PROVE TypeOK' /\ CurOK'
  <2>1. num_completions' \in [Clients -> 0 .. 2]
    <3>1. CountOK(c)
      OBVIOUS
    <3>2. wcs[c] # {} => num_completions[c] \in 0 .. 1
      BY <3>1 DEF CountOK
    <3> QED BY <1>6, <3>2 DEF ClientOnCompletion
  <2>2. cm' \in [Clients -> CmStates]
    BY <1>6 DEF ClientOnCompletion, Disconnect
  <2>3. wcs' \in [Clients -> SUBSET ClientWcs]
    BY <1>6 DEF ClientOnCompletion, Disconnect
  <2>4. cst' \in [Clients -> {"idle", "running"} \cup Ended]
    BY <1>6 DEF ClientOnCompletion
  <2> QED BY <1>6, <2>1, <2>2, <2>3, <2>4 DEF ClientOnCompletion
<1>7. ASSUME NEW c \in Clients, ClientOnDisconnect(c) PROVE TypeOK' /\ CurOK'
  BY <1>7 DEF ClientOnDisconnect
<1>8. ASSUME NEW c \in Clients, ClientOnUnknownEvent(c) PROVE TypeOK' /\ CurOK'
  BY <1>8 DEF ClientOnUnknownEvent
<1>9. ASSUME NEW c \in Clients, OnConnectRequest(c) PROVE TypeOK' /\ CurOK'
  BY <1>9 DEF OnConnectRequest
<1>10. ASSUME NEW c \in Clients, OnConnection(c) PROVE TypeOK' /\ CurOK'
  BY <1>10 DEF OnConnection
<1>11. ASSUME NEW c \in Clients, OnDisconnect(c) PROVE TypeOK' /\ CurOK'
  <2>2. cq' \in Cq
    BY <1>11, CqKeeps DEF OnDisconnect
  <2> QED BY <1>11, <2>2 DEF OnDisconnect, Cq, Wc
<1>12. ASSUME NEW c \in Clients, OnUnknownEvent(c) PROVE TypeOK' /\ CurOK'
  BY <1>12 DEF OnUnknownEvent
<1>13. ASSUME NEW c \in Clients, CmClientGone(c) PROVE TypeOK' /\ CurOK'
  BY <1>13 DEF CmClientGone
<1>14. ASSUME NEW c \in Clients, DeliverRequest(c) PROVE TypeOK' /\ CurOK'
  <2>1. [op |-> "RECV", ok |-> TRUE, conn |-> c] \in Wc
    BY DEF Wc, WorkCompletion
  <2>2. cq' \in Cq
    BY <1>14, <2>1, CqKeeps DEF DeliverRequest
  <2>3. wcs' \in [Clients -> SUBSET ClientWcs]
    BY <1>14 DEF DeliverRequest, Add
  <2> QED BY <1>14, <2>2, <2>3 DEF DeliverRequest, Cq, Wc
<1>15. ASSUME NEW c \in Clients, DeliverGreeting(c) PROVE TypeOK' /\ CurOK'
  <2>0. Running(c) \in BOOLEAN
    BY DEF Running
  <2>1. [op |-> "SEND", ok |-> Running(c), conn |-> c] \in Wc
    BY <2>0 DEF Wc, WorkCompletion
  <2>2. cq' \in Cq
    BY <1>15, <2>1, CqKeeps DEF DeliverGreeting
  <2>3. wcs' \in [Clients -> SUBSET ClientWcs]
    BY <1>15 DEF DeliverGreeting, Add
  <2> QED BY <1>15, <2>2, <2>3 DEF DeliverGreeting, Cq, Wc
<1>16. ASSUME GetCqEvent PROVE TypeOK' /\ CurOK'
  <2>2. cq' \in Cq
    BY <1>16, CqKeeps DEF GetCqEvent
  <2> QED BY <1>16, <2>2 DEF GetCqEvent, Cq, Wc
<1>17. ASSUME ReqNotify PROVE TypeOK' /\ CurOK'
  <2>2. cq' \in Cq
    BY <1>17, CqKeeps DEF ReqNotify
  <2> QED BY <1>17, <2>2 DEF ReqNotify, Cq, Wc
<1>18. ASSUME PollCq PROVE TypeOK' /\ CurOK'
  <2>2. cq' \in Cq
    BY <1>18, CqKeeps DEF PollCq
  <2>3. cur' \in Clients \cup {None} /\ CurOK'
    BY <1>18, CqKeeps DEF PollCq
  <2> QED BY <1>18, <2>2, <2>3 DEF PollCq, Cq, Wc
<1>19. ASSUME SocketConnect PROVE TypeOK' /\ CurOK'
  BY <1>19 DEF SocketConnect
<1>20. ASSUME SocketSend PROVE TypeOK' /\ CurOK'
  <2>1. got' \in [Clients -> Nat]
    BY <1>20 DEF SocketSend
  <2> QED BY <1>20, <2>1 DEF SocketSend
<1>21. ASSUME SocketRead PROVE TypeOK' /\ CurOK'
  BY <1>21 DEF SocketRead
<1>22. ASSUME TestServer PROVE TypeOK' /\ CurOK'
  BY <1>22 DEF TestServer
<1>23. ASSUME NEW c \in Clients, ClientOnResolveError(c) PROVE TypeOK' /\ CurOK'
  BY <1>23 DEF ClientOnResolveError
<1>24. ASSUME OnCompletion PROVE TypeOK' /\ CurOK'
  BY <1>24 DEF OnCompletion
<1>25. CASE UNCHANGED vars
  BY <1>25 DEF vars
<1> QED
  BY <1>1, <1>2, <1>3, <1>4, <1>5, <1>6, <1>7, <1>8, <1>9, <1>10,
     <1>11, <1>12, <1>13, <1>14, <1>15, <1>16, <1>17, <1>18, <1>19, <1>20,
     <1>21, <1>22, <1>23, <1>24, <1>25
     DEF Next, Client, EventThread, Net, Poller

(* Every step keeps the connections and the counts in order.               *)
LEMMA PlaceStep ==
  ASSUME IInv, NEW d \in Clients, [Next]_vars
  PROVE  PlaceOK(d)' /\ CountOK(d)'
<1> USE DEF TypeOK, IInv, CmStates, ClientWcs, Ended, Unsent,
            cliVars, connVars, tcpVars, Connection, Running, CountedSend,
               CountedRecv
<1>1. ASSUME NEW c \in Clients, Start(c) PROVE PlaceOK(d)' /\ CountOK(d)'
  <2>1. PlaceOK(d)'
    BY <1>1 DEF Start, PlaceOK
  <2>2. CountOK(d)'
    BY <1>1 DEF Start, PlaceOK, CountOK
  <2> QED BY <2>1, <2>2
<1>2. ASSUME NEW c \in Clients, ClientCrash(c) PROVE PlaceOK(d)' /\ CountOK(d)'
  <2>1. PlaceOK(d)'
    BY <1>2 DEF ClientCrash, PlaceOK
  <2>2. CountOK(d)'
    BY <1>2 DEF ClientCrash, PlaceOK, CountOK
  <2> QED BY <2>1, <2>2
<1>3. ASSUME NEW c \in Clients, ClientOnAddrResolved(c)
      PROVE  PlaceOK(d)' /\ CountOK(d)'
  <2>1. PlaceOK(d)'
    BY <1>3 DEF ClientOnAddrResolved, PlaceOK
  <2>2. CountOK(d)'
    BY <1>3 DEF ClientOnAddrResolved, PlaceOK, CountOK
  <2> QED BY <2>1, <2>2
<1>4. ASSUME NEW c \in Clients, ClientOnRouteResolved(c)
      PROVE  PlaceOK(d)' /\ CountOK(d)'
  <2>1. PlaceOK(d)'
    BY <1>4 DEF ClientOnRouteResolved, PlaceOK
  <2>2. CountOK(d)'
    BY <1>4 DEF ClientOnRouteResolved, PlaceOK, CountOK
  <2> QED BY <2>1, <2>2
<1>5. ASSUME NEW c \in Clients, ClientOnConnection(c)
      PROVE  PlaceOK(d)' /\ CountOK(d)'
  <2>1. PlaceOK(d)'
    BY <1>5 DEF ClientOnConnection, PlaceOK
  <2>2. CountOK(d)'
    BY <1>5 DEF ClientOnConnection, PlaceOK, CountOK
  <2> QED BY <2>1, <2>2
<1>6. ASSUME NEW c \in Clients, ClientOnCompletion(c)
      PROVE  PlaceOK(d)' /\ CountOK(d)'
  <2>1. PlaceOK(d)'
    BY <1>6 DEF ClientOnCompletion, PlaceOK, Disconnect
  <2>2. CountOK(d)'
    BY <1>6 DEF ClientOnCompletion, PlaceOK, CountOK, Disconnect
  <2> QED BY <2>1, <2>2
<1>7. ASSUME NEW c \in Clients, ClientOnDisconnect(c)
      PROVE  PlaceOK(d)' /\ CountOK(d)'
  <2>1. PlaceOK(d)'
    BY <1>7 DEF ClientOnDisconnect, PlaceOK
  <2>2. CountOK(d)'
    BY <1>7 DEF ClientOnDisconnect, PlaceOK, CountOK
  <2> QED BY <2>1, <2>2
<1>8. ASSUME NEW c \in Clients, ClientOnUnknownEvent(c)
      PROVE  PlaceOK(d)' /\ CountOK(d)'
  <2>1. PlaceOK(d)'
    BY <1>8 DEF ClientOnUnknownEvent, PlaceOK
  <2>2. CountOK(d)'
    BY <1>8 DEF ClientOnUnknownEvent, PlaceOK, CountOK
  <2> QED BY <2>1, <2>2
<1>9. ASSUME NEW c \in Clients, OnConnectRequest(c)
      PROVE  PlaceOK(d)' /\ CountOK(d)'
  <2>1. PlaceOK(d)'
    BY <1>9 DEF OnConnectRequest, PlaceOK
  <2>2. CountOK(d)'
    BY <1>9 DEF OnConnectRequest, PlaceOK, CountOK
  <2> QED BY <2>1, <2>2
<1>10. ASSUME NEW c \in Clients, OnConnection(c)
       PROVE  PlaceOK(d)' /\ CountOK(d)'
  <2>1. PlaceOK(d)'
    BY <1>10 DEF OnConnection, PlaceOK
  <2>2. CountOK(d)'
    BY <1>10 DEF OnConnection, PlaceOK, CountOK
  <2> QED BY <2>1, <2>2
<1>11. ASSUME NEW c \in Clients, OnDisconnect(c)
       PROVE  PlaceOK(d)' /\ CountOK(d)'
  <2>1. PlaceOK(d)'
    BY <1>11 DEF OnDisconnect, PlaceOK
  <2>2. CountOK(d)'
    BY <1>11 DEF OnDisconnect, PlaceOK, CountOK
  <2> QED BY <2>1, <2>2
<1>12. ASSUME NEW c \in Clients, OnUnknownEvent(c)
       PROVE  PlaceOK(d)' /\ CountOK(d)'
  <2>1. PlaceOK(d)'
    BY <1>12 DEF OnUnknownEvent, PlaceOK
  <2>2. CountOK(d)'
    BY <1>12 DEF OnUnknownEvent, PlaceOK, CountOK
  <2> QED BY <2>1, <2>2
<1>13. ASSUME NEW c \in Clients, CmClientGone(c)
       PROVE  PlaceOK(d)' /\ CountOK(d)'
  <2>1. PlaceOK(d)'
    BY <1>13 DEF CmClientGone, PlaceOK
  <2>2. CountOK(d)'
    BY <1>13 DEF CmClientGone, PlaceOK, CountOK
  <2> QED BY <2>1, <2>2
<1>14. ASSUME NEW c \in Clients, DeliverRequest(c)
       PROVE  PlaceOK(d)' /\ CountOK(d)'
  <2>1. PlaceOK(d)'
    BY <1>14 DEF DeliverRequest, PlaceOK, Add
  <2>2. CountOK(d)'
    BY <1>14 DEF DeliverRequest, PlaceOK, CountOK, Add
  <2> QED BY <2>1, <2>2
<1>15. ASSUME NEW c \in Clients, DeliverGreeting(c)
       PROVE  PlaceOK(d)' /\ CountOK(d)'
  <2>1. PlaceOK(d)'
    BY <1>15 DEF DeliverGreeting, PlaceOK, Add
  <2>2. CountOK(d)'
    BY <1>15 DEF DeliverGreeting, PlaceOK, CountOK, Add
  <2> QED BY <2>1, <2>2
<1>16. ASSUME GetCqEvent PROVE PlaceOK(d)' /\ CountOK(d)'
  BY <1>16 DEF GetCqEvent, PlaceOK, CountOK
<1>17. ASSUME ReqNotify PROVE PlaceOK(d)' /\ CountOK(d)'
  BY <1>17 DEF ReqNotify, PlaceOK, CountOK
<1>18. ASSUME PollCq PROVE PlaceOK(d)' /\ CountOK(d)'
  BY <1>18 DEF PollCq, PlaceOK, CountOK
<1>19. ASSUME SocketConnect PROVE PlaceOK(d)' /\ CountOK(d)'
  BY <1>19 DEF SocketConnect, PlaceOK, CountOK
<1>20. ASSUME SocketSend PROVE PlaceOK(d)' /\ CountOK(d)'
  BY <1>20 DEF SocketSend, PlaceOK, CountOK
<1>21. ASSUME SocketRead PROVE PlaceOK(d)' /\ CountOK(d)'
  BY <1>21 DEF SocketRead, PlaceOK, CountOK
<1>22. ASSUME TestServer PROVE PlaceOK(d)' /\ CountOK(d)'
  BY <1>22 DEF TestServer, PlaceOK, CountOK
<1>23. ASSUME NEW c \in Clients, ClientOnResolveError(c)
      PROVE  PlaceOK(d)' /\ CountOK(d)'
  <2>1. PlaceOK(d)'
    BY <1>23 DEF ClientOnResolveError, PlaceOK
  <2>2. CountOK(d)'
    BY <1>23 DEF ClientOnResolveError, PlaceOK, CountOK
  <2> QED BY <2>1, <2>2
<1>24. ASSUME OnCompletion PROVE PlaceOK(d)' /\ CountOK(d)'
  BY <1>24 DEF OnCompletion, PlaceOK, CountOK
<1>25. CASE UNCHANGED vars
  BY <1>25 DEF vars, PlaceOK, CountOK
<1> QED
  BY <1>1, <1>2, <1>3, <1>4, <1>5, <1>6, <1>7, <1>8, <1>9, <1>10,
     <1>11, <1>12, <1>13, <1>14, <1>15, <1>16, <1>17, <1>18, <1>19, <1>20,
     <1>21, <1>22, <1>23, <1>24, <1>25
     DEF Next, Client, EventThread, Net, Poller

(* Every step keeps an event where the poller needs it: an event is only   *)
(* taken by the poller, which then arms and drains the CQ.                 *)
LEMMA WakeStep ==
  ASSUME IInv, [Next]_vars
  PROVE  WakeOK'
<1>q. /\ cq = [wcs |-> cq.wcs, armed |-> cq.armed, events |-> cq.events]
      /\ cq.events \in Nat /\ cq.armed \in BOOLEAN
  BY DEF IInv, TypeOK, CompletionQueues
<1> USE DEF IInv
<1>1. ASSUME NEW c \in Clients, Start(c) PROVE WakeOK'
  BY <1>1 DEF Start, ServerUp, WakeOK
<1>2. ASSUME NEW c \in Clients, ClientCrash(c) PROVE WakeOK'
  BY <1>2 DEF ClientCrash, ServerUp, WakeOK
<1>3. ASSUME NEW c \in Clients, ClientOnAddrResolved(c) PROVE WakeOK'
  BY <1>3 DEF ClientOnAddrResolved, ServerUp, WakeOK
<1>4. ASSUME NEW c \in Clients, ClientOnRouteResolved(c) PROVE WakeOK'
  BY <1>4 DEF ClientOnRouteResolved, ServerUp, WakeOK
<1>5. ASSUME NEW c \in Clients, ClientOnConnection(c) PROVE WakeOK'
  BY <1>5 DEF ClientOnConnection, ServerUp, WakeOK
<1>6. ASSUME NEW c \in Clients, ClientOnCompletion(c) PROVE WakeOK'
  BY <1>6 DEF ClientOnCompletion, ServerUp, WakeOK
<1>7. ASSUME NEW c \in Clients, ClientOnDisconnect(c) PROVE WakeOK'
  BY <1>7 DEF ClientOnDisconnect, ServerUp, WakeOK
<1>8. ASSUME NEW c \in Clients, ClientOnUnknownEvent(c) PROVE WakeOK'
  BY <1>8 DEF ClientOnUnknownEvent, ServerUp, WakeOK
<1>9. ASSUME NEW c \in Clients, OnConnectRequest(c) PROVE WakeOK'
  BY <1>9 DEF OnConnectRequest, ServerUp, WakeOK
<1>10. ASSUME NEW c \in Clients, OnConnection(c) PROVE WakeOK'
  BY <1>10 DEF OnConnection, ServerUp, WakeOK
<1>11. ASSUME NEW c \in Clients, OnDisconnect(c) PROVE WakeOK'
  <2>1. /\ cq'.armed = cq.armed /\ cq'.events = cq.events
        /\ cq.wcs = << >> => cq'.wcs = << >>
    BY <1>11, CqKeeps, PurgeFacts DEF OnDisconnect, Cq
  <2> QED BY <1>11, <2>1 DEF OnDisconnect, WakeOK
<1>12. ASSUME NEW c \in Clients, OnUnknownEvent(c) PROVE WakeOK'
  BY <1>12 DEF OnUnknownEvent, ServerUp, WakeOK
<1>13. ASSUME NEW c \in Clients, CmClientGone(c) PROVE WakeOK'
  BY <1>13 DEF CmClientGone, ServerUp, WakeOK
<1>14. ASSUME NEW c \in Clients, DeliverRequest(c) PROVE WakeOK'
  BY <1>14, <1>q DEF DeliverRequest, Complete, ServerUp, WakeOK
<1>15. ASSUME NEW c \in Clients, DeliverGreeting(c) PROVE WakeOK'
  BY <1>15, <1>q DEF DeliverGreeting, Complete, ServerUp, WakeOK
<1>16. ASSUME GetCqEvent PROVE WakeOK'
  BY <1>16, <1>q DEF GetCqEvent, HasEvent, TakeEvent, Arm, HasCompletion,
     Poll, WakeOK
<1>17. ASSUME ReqNotify PROVE WakeOK'
  BY <1>17, <1>q DEF ReqNotify, HasEvent, TakeEvent, Arm, HasCompletion, Poll,
     WakeOK
<1>18. ASSUME PollCq PROVE WakeOK'
  BY <1>18, <1>q DEF PollCq, HasEvent, TakeEvent, Arm, HasCompletion, Poll,
     WakeOK
<1>19. ASSUME SocketConnect PROVE WakeOK'
  BY <1>19 DEF SocketConnect, ServerUp, WakeOK
<1>20. ASSUME SocketSend PROVE WakeOK'
  BY <1>20 DEF SocketSend, ServerUp, WakeOK
<1>21. ASSUME SocketRead PROVE WakeOK'
  BY <1>21 DEF SocketRead, ServerUp, WakeOK
<1>22. ASSUME TestServer PROVE WakeOK'
  BY <1>22 DEF TestServer, ServerUp, WakeOK
<1>23. ASSUME NEW c \in Clients, ClientOnResolveError(c) PROVE WakeOK'
  BY <1>23 DEF ClientOnResolveError, ServerUp, WakeOK
<1>24. ASSUME OnCompletion PROVE WakeOK'
  BY <1>24 DEF OnCompletion, ServerUp, WakeOK
<1>25. CASE UNCHANGED vars
  BY <1>25 DEF vars, WakeOK
<1> QED
  BY <1>1, <1>2, <1>3, <1>4, <1>5, <1>6, <1>7, <1>8, <1>9, <1>10,
     <1>11, <1>12, <1>13, <1>14, <1>15, <1>16, <1>17, <1>18, <1>19, <1>20,
     <1>21, <1>22, <1>23, <1>24, <1>25
     DEF Next, Client, EventThread, Net, Poller

(* A crash or a fault is for good.                                         *)
LEMMA StaysDisturbed ==
  ASSUME TypeOK, Undisturbed', [Next]_vars
  PROVE  Undisturbed
<1> USE DEF Undisturbed, TypeOK, Ended,
            cliVars, connVars, tcpVars, Connection, Running, ServerUp
<1>1. ASSUME NEW c \in Clients, Start(c) PROVE Undisturbed
  BY <1>1 DEF Start
<1>2. ASSUME NEW c \in Clients, ClientCrash(c) PROVE Undisturbed
  BY <1>2 DEF ClientCrash
<1>3. ASSUME NEW c \in Clients, ClientOnAddrResolved(c) PROVE Undisturbed
  BY <1>3 DEF ClientOnAddrResolved
<1>4. ASSUME NEW c \in Clients, ClientOnRouteResolved(c) PROVE Undisturbed
  BY <1>4 DEF ClientOnRouteResolved
<1>5. ASSUME NEW c \in Clients, ClientOnConnection(c) PROVE Undisturbed
  BY <1>5 DEF ClientOnConnection
<1>6. ASSUME NEW c \in Clients, ClientOnCompletion(c) PROVE Undisturbed
  BY <1>6 DEF ClientOnCompletion
<1>7. ASSUME NEW c \in Clients, ClientOnDisconnect(c) PROVE Undisturbed
  BY <1>7 DEF ClientOnDisconnect
<1>8. ASSUME NEW c \in Clients, ClientOnUnknownEvent(c) PROVE Undisturbed
  BY <1>8 DEF ClientOnUnknownEvent
<1>9. ASSUME NEW c \in Clients, OnConnectRequest(c) PROVE Undisturbed
  BY <1>9 DEF OnConnectRequest
<1>10. ASSUME NEW c \in Clients, OnConnection(c) PROVE Undisturbed
  BY <1>10 DEF OnConnection
<1>11. ASSUME NEW c \in Clients, OnDisconnect(c) PROVE Undisturbed
  BY <1>11 DEF OnDisconnect
<1>12. ASSUME NEW c \in Clients, OnUnknownEvent(c) PROVE Undisturbed
  BY <1>12 DEF OnUnknownEvent
<1>13. ASSUME NEW c \in Clients, CmClientGone(c) PROVE Undisturbed
  BY <1>13 DEF CmClientGone
<1>14. ASSUME NEW c \in Clients, DeliverRequest(c) PROVE Undisturbed
  BY <1>14 DEF DeliverRequest
<1>15. ASSUME NEW c \in Clients, DeliverGreeting(c) PROVE Undisturbed
  BY <1>15 DEF DeliverGreeting
<1>16. ASSUME GetCqEvent PROVE Undisturbed
  BY <1>16 DEF GetCqEvent
<1>17. ASSUME ReqNotify PROVE Undisturbed
  BY <1>17 DEF ReqNotify
<1>18. ASSUME PollCq PROVE Undisturbed
  BY <1>18 DEF PollCq
<1>19. ASSUME SocketConnect PROVE Undisturbed
  BY <1>19 DEF SocketConnect
<1>20. ASSUME SocketSend PROVE Undisturbed
  BY <1>20 DEF SocketSend
<1>21. ASSUME SocketRead PROVE Undisturbed
  BY <1>21 DEF SocketRead
<1>22. ASSUME TestServer PROVE Undisturbed
  BY <1>22 DEF TestServer
<1>23. ASSUME NEW c \in Clients, ClientOnResolveError(c) PROVE Undisturbed
  BY <1>23 DEF ClientOnResolveError
<1>24. ASSUME OnCompletion PROVE Undisturbed
  BY <1>24 DEF OnCompletion
<1>25. CASE UNCHANGED vars
  BY <1>25 DEF vars
<1> QED
  BY <1>1, <1>2, <1>3, <1>4, <1>5, <1>6, <1>7, <1>8, <1>9, <1>10,
     <1>11, <1>12, <1>13, <1>14, <1>15, <1>16, <1>17, <1>18, <1>19, <1>20,
     <1>21, <1>22, <1>23, <1>24, <1>25
     DEF Next, Client, EventThread, Net, Poller

(* Every step keeps the completions good and everyone alive, unless it is  *)
(* a crash or a fault.                                                     *)
LEMMA FailStep ==
  ASSUME IInv, [Next]_vars
  PROVE  NothingFails'
<1> SUFFICES ASSUME Undisturbed' PROVE NothingFails'
  BY DEF NothingFails
<1>u. /\ spc \notin {"died", "fault"}
      /\ \A d \in Clients : cst[d] # "crashed" /\ ServedOK(d)
      /\ AllOk(cq)
  BY StaysDisturbed DEF IInv, NothingFails, Undisturbed
<1>q. cq = [wcs |-> cq.wcs, armed |-> cq.armed, events |-> cq.events]
  BY DEF IInv, TypeOK, CompletionQueues
<1>a. /\ \A w \in Wc : w.ok => AllOk(Complete(cq, w))
      /\ HasCompletion(cq) => Oldest(cq).ok /\ AllOk(Poll(cq))
      /\ \A c \in Clients : \A p \in Purge(cq, c) : AllOk(p)
      /\ \A p : p.wcs = cq.wcs => AllOk(p)
  BY <1>u, CqKeeps, AllOkKept DEF Cq, IInv
<1> USE DEF IInv, TypeOK, Ended, Unsent, NothingFails,
            cliVars, connVars, tcpVars, Connection, Running, ServerUp
<1>1. ASSUME NEW c \in Clients, Start(c) PROVE NothingFails'
  <2>1. \A d \in Clients : ServedOK(d)'
    BY <1>1, <1>u DEF Start, PlaceOK, ServedOK
  <2> QED BY <1>1, <2>1, <1>u DEF Start
<1>2. ASSUME NEW c \in Clients, ClientCrash(c) PROVE NothingFails'
  BY <1>2 DEF ClientCrash, Undisturbed
<1>3. ASSUME NEW c \in Clients, ClientOnAddrResolved(c) PROVE NothingFails'
  <2>1. \A d \in Clients : ServedOK(d)'
    BY <1>3, <1>u DEF ClientOnAddrResolved, PlaceOK, ServedOK
  <2> QED BY <1>3, <2>1, <1>u DEF ClientOnAddrResolved
<1>4. ASSUME NEW c \in Clients, ClientOnRouteResolved(c) PROVE NothingFails'
  <2>1. \A d \in Clients : ServedOK(d)'
    BY <1>4, <1>u DEF ClientOnRouteResolved, PlaceOK, ServedOK
  <2> QED BY <1>4, <2>1, <1>u DEF ClientOnRouteResolved
<1>5. ASSUME NEW c \in Clients, ClientOnConnection(c) PROVE NothingFails'
  <2>1. \A d \in Clients : ServedOK(d)'
    BY <1>5, <1>u DEF ClientOnConnection, PlaceOK, ServedOK
  <2> QED BY <1>5, <2>1, <1>u DEF ClientOnConnection
<1>6. ASSUME NEW c \in Clients, ClientOnCompletion(c) PROVE NothingFails'
  <2>1. /\ "failed" \notin wcs[c]
        /\ \A w \in wcs[c] : num_completions[c] = 1 =>
                             request[c] = "done" /\ greeting[c] = "done"
        /\ num_completions[c] = 2 => wcs[c] = {}
    BY <1>u DEF ServedOK, CountOK, CountedSend, CountedRecv, ClientWcs
  <2>2. PICK w \in wcs[c] :
          /\ num_completions' = [num_completions EXCEPT ![c] = @ + 1]
          /\ IF num_completions[c] = 1 THEN Disconnect(c)
             ELSE wcs' = [wcs EXCEPT ![c] = @ \ {w}] /\ UNCHANGED cm
          /\ UNCHANGED <<cst, request, greeting, cq, spc>>
    BY <1>6, <2>1 DEF ClientOnCompletion
  <2>3. ASSUME NEW d \in Clients PROVE ServedOK(d)'
    <3>1. CASE d # c
      BY <2>2, <3>1, <1>u DEF ServedOK, Disconnect
    <3>2. CASE d = c /\ num_completions[c] = 1
      BY <2>1, <2>2, <3>2, <1>u DEF ServedOK, Disconnect
    <3>3. CASE d = c /\ num_completions[c] # 1
      <4>1. cm[c] \notin {"disconnecting", "disconnected"}
        BY <2>1, <2>2, <3>3, <1>u DEF ServedOK
      <4> QED BY <2>2, <3>3, <4>1, <1>u DEF ServedOK
    <3> QED BY <3>1, <3>2, <3>3
  <2> QED BY <2>2, <2>3, <1>u
<1>7. ASSUME NEW c \in Clients, ClientOnDisconnect(c) PROVE NothingFails'
  <2>1. \A d \in Clients : ServedOK(d)'
    BY <1>7, <1>u DEF ClientOnDisconnect, PlaceOK, ServedOK, CountOK,
       CountedSend, CountedRecv
  <2> QED BY <1>7, <2>1, <1>u DEF ClientOnDisconnect
<1>8. ASSUME NEW c \in Clients, ClientOnUnknownEvent(c) PROVE NothingFails'
  <2>1. \A d \in Clients : ServedOK(d)'
    BY <1>8, <1>u DEF ClientOnUnknownEvent, PlaceOK, ServedOK
  <2> QED BY <1>8, <2>1, <1>u DEF ClientOnUnknownEvent
<1>9. ASSUME NEW c \in Clients, OnConnectRequest(c) PROVE NothingFails'
  <2>1. \A d \in Clients : ServedOK(d)'
    BY <1>9, <1>u DEF OnConnectRequest, PlaceOK, ServedOK
  <2> QED BY <1>9, <2>1, <1>u DEF OnConnectRequest
<1>10. ASSUME NEW c \in Clients, OnConnection(c) PROVE NothingFails'
  <2>1. \A d \in Clients : ServedOK(d)'
    BY <1>10, <1>u DEF OnConnection, PlaceOK, ServedOK
  <2> QED BY <1>10, <2>1, <1>u DEF OnConnection
<1>11. ASSUME NEW c \in Clients, OnDisconnect(c) PROVE NothingFails'
  <2>1. \A d \in Clients : ServedOK(d)'
    BY <1>11, <1>u DEF OnDisconnect, PlaceOK, ServedOK
  <2>2. AllOk(cq')
    BY <1>11, <1>a DEF OnDisconnect
  <2> QED BY <1>11, <2>1, <2>2, <1>u DEF OnDisconnect
<1>12. ASSUME NEW c \in Clients, OnUnknownEvent(c) PROVE NothingFails'
  <2>1. cm[c] # "rejected"
    BY <1>u DEF ServedOK
  <2> QED BY <1>12, <2>1 DEF OnUnknownEvent
<1>13. ASSUME NEW c \in Clients, CmClientGone(c) PROVE NothingFails'
  <2>1. cst[c] # "crashed" /\ (cst[c] = "died" => cm[c] \in {"addr", "route"})
    BY <1>u DEF ServedOK
  <2> QED BY <1>13, <2>1 DEF CmClientGone
<1>14. ASSUME NEW c \in Clients, DeliverRequest(c) PROVE NothingFails'
  <2>1. \A d \in Clients : ServedOK(d)'
    BY <1>14, <1>u DEF DeliverRequest, PlaceOK, ServedOK, Add
  <2>2. AllOk(cq')
    <3> DEFINE w == [op |-> "RECV", ok |-> TRUE, conn |-> c]
    <3>1. Running(c) \in BOOLEAN /\ Running(c)
      BY <1>14, <1>u DEF DeliverRequest, ServedOK
    <3>2. w \in Wc /\ w.ok
      BY <3>1 DEF Wc, WorkCompletion
    <3>3. cq' = Complete(cq, w)
      BY <1>14, <1>u DEF DeliverRequest
    <3> HIDE DEF w
    <3> QED BY <3>2, <3>3, <1>a
  <2> QED BY <1>14, <2>1, <2>2, <1>u DEF DeliverRequest
<1>15. ASSUME NEW c \in Clients, DeliverGreeting(c) PROVE NothingFails'
  <2>1. \A d \in Clients : ServedOK(d)'
    BY <1>15, <1>u DEF DeliverGreeting, PlaceOK, ServedOK, Add
  <2>2. AllOk(cq')
    <3> DEFINE w == [op |-> "SEND", ok |-> Running(c), conn |-> c]
    <3>1. Running(c) \in BOOLEAN /\ Running(c)
      BY <1>15, <1>u DEF DeliverGreeting, ServedOK
    <3>2. w \in Wc /\ w.ok
      BY <3>1 DEF Wc, WorkCompletion
    <3>3. cq' = Complete(cq, w)
      BY <1>15, <1>u DEF DeliverGreeting
    <3> HIDE DEF w
    <3> QED BY <3>2, <3>3, <1>a
  <2> QED BY <1>15, <2>1, <2>2, <1>u DEF DeliverGreeting
<1>16. ASSUME GetCqEvent PROVE NothingFails'
  <2>1. cq'.wcs = cq.wcs
    BY <1>16, <1>q DEF GetCqEvent, TakeEvent, Arm
  <2> QED BY <1>16, <2>1, <1>u, <1>a DEF GetCqEvent, ServedOK
<1>17. ASSUME ReqNotify PROVE NothingFails'
  <2>1. cq'.wcs = cq.wcs
    BY <1>17, <1>q DEF ReqNotify, TakeEvent, Arm
  <2> QED BY <1>17, <2>1, <1>u, <1>a DEF ReqNotify, ServedOK
<1>18. ASSUME PollCq PROVE NothingFails'
  <2>1. spc' # "died" /\ AllOk(cq')
    BY <1>18, <1>u, <1>a DEF PollCq
  <2> QED BY <1>18, <2>1, <1>u DEF PollCq, ServedOK
<1>19. ASSUME SocketConnect PROVE NothingFails'
  BY <1>19, <1>u DEF SocketConnect, ServedOK
<1>20. ASSUME SocketSend PROVE NothingFails'
  BY <1>20, <1>u DEF SocketSend, ServedOK
<1>21. ASSUME SocketRead PROVE NothingFails'
  BY <1>21, <1>u DEF SocketRead, ServedOK
<1>22. ASSUME TestServer PROVE NothingFails'
  BY <1>22, <1>u DEF TestServer, ServedOK
<1>23. ASSUME NEW c \in Clients, ClientOnResolveError(c) PROVE NothingFails'
  <2>1. \A d \in Clients : ServedOK(d)'
    BY <1>23, <1>u DEF ClientOnResolveError, PlaceOK, ServedOK
  <2> QED BY <1>23, <2>1, <1>u DEF ClientOnResolveError
<1>24. ASSUME OnCompletion PROVE NothingFails'
  BY <1>24, <1>u DEF OnCompletion, ServedOK
<1>25. CASE UNCHANGED vars
  BY <1>25, <1>u, <1>a DEF vars, ServedOK
<1> QED
  BY <1>1, <1>2, <1>3, <1>4, <1>5, <1>6, <1>7, <1>8, <1>9, <1>10,
     <1>11, <1>12, <1>13, <1>14, <1>15, <1>16, <1>17, <1>18, <1>19, <1>20,
     <1>21, <1>22, <1>23, <1>24, <1>25
     DEF Next, Client, EventThread, Net, Poller

(* The invariant holds in every state.                                     *)
LEMMA InvOK == Spec => []IInv
<1>1. ASSUME IInv, [Next]_vars PROVE IInv'
  <2>1. \A d \in Clients : PlaceOK(d)' /\ CountOK(d)'
    BY <1>1, PlaceStep
  <2> QED BY <1>1, <2>1, TypeStep, WakeStep, FailStep DEF IInv
<1> QED BY <1>1, InitInv, PTL DEF Spec

(* Every variable has values of its type; num_completions never passes 2,  *)
(* also when a completion fails.                                           *)
THEOREM TypeCorrect == Spec => []TypeOK
<1>1. IInv => TypeOK
  BY DEF IInv
<1> QED BY <1>1, InvOK, PTL

(* Without a crash and without a use of freed memory no completion of      *)
(* either program fails, so that the server never calls die and a client   *)
(* only when its server's address or route is not found.                   *)
THEOREM NobodyEnds == Spec => []NobodyDies
<1>1. IInv => NobodyDies
  BY DEF IInv, NothingFails, Undisturbed, ServedOK, NobodyDies
<1> QED BY <1>1, InvOK, PTL

(* The server's poller never waits for an event while its CQ holds a       *)
(* completion that no event announces.                                     *)
THEOREM PollerWakes == Spec => []NoWakeupLost
<1>1. IInv => NoWakeupLost
  BY DEF IInv, WakeOK, NoWakeupLost, HasCompletion, HasEvent
<1> QED BY <1>1, InvOK, PTL
=============================================================================
