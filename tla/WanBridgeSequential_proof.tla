---------------------- MODULE WanBridgeSequential_proof ----------------------
(***************************************************************************)
(* Proof that SeqInv is inductive, and what follows from it: the safety of *)
(* the bridge when runs do not overlap and no client is killed, for every  *)
(* number of clients, and the safety half of its refinement.               *)
(***************************************************************************)
EXTENDS WanBridgeSequential, WanBridgeAlways_proof

(* What every step may assume.                                             *)
Ready == OneAtATime /\ TypeInv /\ SeqInv

(* Where the CM is with a client that no process or no event moves on.     *)
Out == {"idle", "closed", "addr_done", "route_done"}

(* What Ready says, part by part.                                          *)
LEMMA Parts ==
  ASSUME Ready
  PROVE  /\ \A c \in Clients : Place(c)
         /\ OneActive /\ HandlerPlace /\ ProxyPlace /\ OneConnection /\ Queue
         /\ ~Overlap /\ ~Crashes
         /\ TypeInv
BY DEF Ready, SeqInv, OneAtATime

(* The types of what belongs to one client.                                *)
LEMMA Types ==
  ASSUME TypeInv, NEW c \in Clients
  PROVE  /\ cm[c] \in CmStates /\ req[c] \in ReqStates /\ rsp[c] \in Nat
         /\ cpc[c] \in ClientPcs /\ ppc[c] \in PollerPcs /\ num[c] \in Nat
         /\ cconn[c] \in {"none", "live", "freed"} /\ crecv[c] \in BOOLEAN
         /\ sconn[c] \in {"none", "live", "freed"} /\ srecv[c] \in BOOLEAN
         /\ wpc[c] \in WorkerPcs /\ seen[c] \in Nat
         /\ ccq[c] \in CompletionQueues(ClientWcs)
         /\ Len(ccq[c].wcs) \in Nat /\ Len(cliEvents[c]) \in Nat
<1>1. ccq[c] \in CompletionQueues(ClientWcs)
  BY DEF TypeInv, TypeOK, ClientTypeOK
<1>2. Len(ccq[c].wcs) \in Nat
  BY <1>1 DEF CompletionQueues
<1>3. Len(cliEvents[c]) \in Nat
  BY DEF TypeInv, TypeOK, CmTypeOK
<1> QED BY <1>1, <1>2, <1>3
        DEF TypeInv, TypeOK, CmTypeOK, NetTypeOK, ClientTypeOK, ServerTypeOK,
            WorkerTypeOK, ProxyTypeOK

(* The types of the functions that steps update.                           *)
LEMMA FunctionTypes ==
  ASSUME TypeInv
  PROVE  /\ cm \in [Clients -> CmStates] /\ req \in [Clients -> ReqStates]
         /\ rsp \in [Clients -> Nat] /\ cpc \in [Clients -> ClientPcs]
         /\ ppc \in [Clients -> PollerPcs] /\ num \in [Clients -> Nat]
         /\ pwc \in [Clients -> ClientWcs \cup {NoWc}]
         /\ ccq \in [Clients -> CompletionQueues(ClientWcs)]
         /\ cconn \in [Clients -> {"none", "live", "freed"}]
         /\ crecv \in [Clients -> BOOLEAN] /\ cregion \in [Clients -> Data]
         /\ sconn \in [Clients -> {"none", "live", "freed"}]
         /\ srecv \in [Clients -> BOOLEAN] /\ recvRegion \in [Clients -> Data]
         /\ sendRegion \in [Clients -> Data] /\ seen \in [Clients -> Nat]
         /\ wpc \in [Clients -> WorkerPcs]
         /\ wconn \in [Clients -> Clients \cup {None}]
         /\ cliEvents \in [Clients -> Seq(CliEventTypes)]
BY DEF TypeInv, TypeOK, CmTypeOK, NetTypeOK, ClientTypeOK, ServerTypeOK,
       WorkerTypeOK, ProxyTypeOK

(* Only one client at a time has a connection that is not closed, and it   *)
(* is in its event loop.                                                   *)
LEMMA Alone ==
  ASSUME Ready, NEW c \in Clients, cm[c] \notin Out
  PROVE  /\ cpc[c] = "loop"
         /\ \A d \in Clients : d # c => cm[d] \in Out
<1>1. \A d \in Clients : Place(d) /\ cpc[d] \in ClientPcs
  BY Parts, Types
<1>2. \A d \in Clients : cm[d] \notin Out => cpc[d] = "loop"
  BY <1>1 DEF Place, ClientPlace, ClientPcs, Out
<1>3. \A d \in Clients : cpc[d] = "loop" => Active(d)
  BY DEF Active
<1>4. OneActive
  BY Parts
<1> QED BY <1>2, <1>3, <1>4 DEF OneActive

(* The events that name a client.                                          *)
LEMMA Ids ==
  ASSUME Ready
  PROVE  /\ event_copy.type # "DEVICE_REMOVAL" => event_copy.id \in Clients
         /\ Len(srvEvents) \in Nat
         /\ \A i \in 1 .. Len(srvEvents) :
              EventDue(srvEvents[i]) /\ (~Removal(i) => srvEvents[i].id \in Clients)
<1>1. /\ event_copy \in SrvEventSet /\ srvEvents \in Seq(SrvEventSet)
      /\ Len(srvEvents) \in Nat
  BY DEF Ready, TypeInv, TypeOK, CmTypeOK, ServerTypeOK
<1>2. \A e \in SrvEventSet : e.type # "DEVICE_REMOVAL" => e.id \in Clients
  BY DEF SrvEventSet, SrvEvent
<1>3. Queue
  BY Parts
<1>4. ASSUME NEW i \in 1 .. Len(srvEvents)
      PROVE  EventDue(srvEvents[i]) /\ (~Removal(i) => srvEvents[i].id \in Clients)
  <2>1. EventDue(srvEvents[i]) /\ srvEvents[i] \in SrvEventSet
    BY <1>1, <1>3 DEF Queue
  <2> QED BY <1>2, <2>1 DEF Removal
<1> QED BY <1>1, <1>2, <1>4

(* While the main loop has something to do for a connected client, no      *)
(* event waits behind it, unless the device is being removed.              *)
LEMMA OnlyRemovals ==
  ASSUME Ready, NEW c \in Clients, cm[c] \in {"connected", "disconnecting"},
         c \in rtu \/ spc = "established" \/ wpc[c] # "none",
         NEW i \in 1 .. Len(srvEvents)
  PROVE  Removal(i)
<1>1. \A d \in Clients : d # c => cm[d] \in Out
  BY Alone DEF Out
<1>2. Place(c) /\ OneConnection
  BY Parts
<1>3. sconn[c] = "live"
  BY <1>2 DEF Place, ServerPlace
<1>4. ASSUME ~Removal(i) PROVE FALSE
  <2>1. EventDue(srvEvents[i]) /\ srvEvents[i].id \in Clients
    BY <1>4, Ids
  <2>2. srvEvents[i].type # "DEVICE_REMOVAL"
    BY <1>4 DEF Removal
  <2>3. CASE srvEvents[i].type = "CONNECT_REQUEST"
    BY <1>1, <2>1, <2>3 DEF EventDue, Out
  <2>4. CASE srvEvents[i].type = "ESTABLISHED"
    BY <1>1, <1>2, <2>1, <2>4 DEF EventDue, Place, ServerPlace, Out
  <2>5. CASE srvEvents[i].type = "DISCONNECTED"
    BY <1>2, <1>3, <2>1, <2>5 DEF EventDue, OneConnection
  <2> QED BY <2>1, <2>2, <2>3, <2>4, <2>5 DEF EventDue
<1> QED BY <1>4

(* The counts of a client that a step leaves alone.                        *)
LEMMA SameCounting ==
  ASSUME NEW d \in Clients, Same(d), Accounted(d), Succeeded(d), cm'[d] = cm[d]
  PROVE  Accounted(d)' /\ Succeeded(d)'
BY DEF Same, Accounted, Succeeded, BeforeConnection, One

(* The first event of a client's channel is the one its connection implies. *)
LEMMA SeqExpected ==
  ASSUME Ready, NEW c \in Clients, NEW types, GetsEvent(c, types)
  PROVE  /\ cpc[c] = "loop" /\ Len(cliEvents[c]) <= 1 /\ Len(cliEvents[c]) > 0
         /\ cliEvents[c][1] \in types
         /\ \/ cm[c] = "addr_done" /\ cliEvents[c][1] = "ADDR_RESOLVED"
            \/ cm[c] = "route_done" /\ cliEvents[c][1] = "ROUTE_RESOLVED"
            \/ cm[c] = "connected" /\ cliEvents[c][1] = "ESTABLISHED"
               /\ req[c] = "none"
            \/ cm[c] = "closed" /\ cliEvents[c][1] = "DISCONNECTED"
            \/ Faults /\ cm[c] = "addr_done" /\ cliEvents[c][1] = "ADDR_ERROR"
            \/ Faults /\ cm[c] = "route_done" /\ cliEvents[c][1] = "ROUTE_ERROR"
<1>1. TypeInv /\ Place(c)
  BY Parts
<1>2. cpc[c] = "loop" /\ Len(cliEvents[c]) > 0 /\ cliEvents[c][1] \in types
  BY <1>1, Got
<1>3. ClientEvent(c)
  BY <1>1 DEF Place
<1> QED BY <1>2, <1>3 DEF ClientEvent

(* Taking the only event leaves none.                                      *)
LEMMA SeqGot ==
  ASSUME Ready, NEW c \in Clients, NEW types, GetsEvent(c, types)
  PROVE  /\ Len(cliEvents'[c]) = 0
         /\ \A d \in Clients : d # c => cliEvents'[d] = cliEvents[d]
<1>1. TypeInv /\ Len(cliEvents[c]) \in Nat
  BY Parts, Types
<1>2. \A d \in Clients : d # c => cliEvents'[d] = cliEvents[d]
  BY <1>1, Got
<1>3. Len(cliEvents'[c]) = Len(cliEvents[c]) - 1
  BY <1>1, Got
<1>4. Len(cliEvents[c]) = 1
  BY <1>1, SeqExpected, OneLeft
<1> QED BY <1>2, <1>3, <1>4

(* What belongs to client d is as it was.                                  *)
Own(d) ==
  /\ cm'[d] = cm[d] /\ (d \in rtu' <=> d \in rtu) /\ cliEvents'[d] = cliEvents[d]
  /\ req'[d] = req[d] /\ rsp'[d] = rsp[d]
  /\ cpc'[d] = cpc[d] /\ ppc'[d] = ppc[d] /\ pwc'[d] = pwc[d] /\ ccq'[d] = ccq[d]
  /\ cconn'[d] = cconn[d] /\ num'[d] = num[d] /\ crecv'[d] = crecv[d]
  /\ cregion'[d] = cregion[d]
  /\ sconn'[d] = sconn[d] /\ srecv'[d] = srecv[d]
  /\ sendRegion'[d] = sendRegion[d] /\ wpc'[d] = wpc[d] /\ wconn'[d] = wconn[d]
  /\ seen'[d] = seen[d]

(* A step of the client's side of one client leaves the others in place.   *)
LEMMA Elsewhere ==
  ASSUME NEW d \in Clients, Place(d), Own(d),
         UNCHANGED <<spc, event_copy, sock_rdma_data>>
  PROVE  Place(d)'
<1> USE DEF Own
<1>1. ClientPlace(d)' /\ ClientEvent(d)' /\ Sent(d)'
  BY DEF Place, ClientPlace, ClientEvent, Sent
<1>2. Accounted(d)' /\ Succeeded(d)'
  BY DEF Place, Accounted, Succeeded
<1>3. ServerPlace(d)' /\ WorkerPlace(d)'
  BY DEF Place, ServerPlace, WorkerPlace, TookEvent, Delivered
<1> QED BY <1>1, <1>2, <1>3 DEF Place

(* A client that the server does not serve is in place whatever the server *)
(* does.                                                                   *)
LEMMA Resting ==
  ASSUME NEW d \in Clients, Place(d), Own(d), cm[d] \notin {"accepted",
     "connected"}
  PROVE  Place(d)'
<1> USE DEF Own
<1>1. ClientPlace(d)' /\ ClientEvent(d)' /\ Sent(d)'
  BY DEF Place, ClientPlace, ClientEvent, Sent
<1>2. Accounted(d)' /\ Succeeded(d)'
  BY DEF Place, Accounted, Succeeded
<1>3. ServerPlace(d)'
  BY DEF Place, ServerPlace, Delivered
<1>4. WorkerPlace(d)'
  BY DEF Place, WorkerPlace, Delivered
<1> QED BY <1>1, <1>2, <1>3, <1>4 DEF Place

(* The server's side does not notice what only the client sees.            *)
LEMMA Quiet ==
  ASSUME Ready,
         UNCHANGED <<cm, rtu, srvEvents, spc, event_copy, ctx, ctxConns, scq,
                     sconn, srecv, recvRegion, wc, sock, cbuf, wpc, pending,
                     reply, seen>>
  PROVE  HandlerPlace' /\ ProxyPlace' /\ OneConnection' /\ Queue'
<1>1. HandlerPlace /\ ProxyPlace /\ OneConnection /\ Queue
  BY Parts
<1>2. HandlerPlace'
  BY <1>1 DEF HandlerPlace, Handles
<1>3. ProxyPlace' /\ OneConnection' /\ Queue'
  BY <1>1 DEF ProxyPlace, OneConnection, Queue, EventDue, Removal
<1> QED BY <1>2, <1>3

(* Nor what the connection manager does for a client before it has a       *)
(* request for the server.                                                 *)
LEMMA BeforeRequest ==
  ASSUME Ready, NEW c \in Clients,
         cm[c] \in BeforeAccept \ {"requested"},
         cm'[c] \in BeforeAccept \ {"requested"},
         \A d \in Clients : d # c => cm'[d] = cm[d],
         UNCHANGED <<rtu, srvEvents, spc, event_copy, ctx, ctxConns, scq,
                     sconn, srecv, recvRegion, wc, sock, cbuf, wpc, pending,
                     reply, seen>>
  PROVE  HandlerPlace' /\ ProxyPlace' /\ OneConnection' /\ Queue'
<1>1. HandlerPlace /\ ProxyPlace /\ OneConnection /\ Queue /\ Place(c)
  BY Parts
<1>2. sconn[c] = "none"
  BY <1>1 DEF Place, ServerPlace
<1>3. HandlerPlace'
  BY <1>1, Ids DEF HandlerPlace, Handles, Handling, BeforeAccept,
       BeforeConnection
<1>4. ProxyPlace' /\ OneConnection'
  BY <1>1, <1>2 DEF ProxyPlace, OneConnection, BeforeAccept, BeforeConnection
<1>5. Queue'
  BY <1>1, <1>2, Ids DEF Queue, EventDue, Removal, BeforeAccept,
     BeforeConnection
<1> QED BY <1>3, <1>4, <1>5

(* Two completions are all there are.                                      *)
LEMMA CountsTwo ==
  ASSUME NEW n \in Nat, NEW l \in Nat, NEW b \in BOOLEAN,
         n + l + One(b) = 2, n >= 2
  PROVE  n = 2 /\ l = 0 /\ ~b
BY DEF One

(* A client that disconnects has counted all its completions.              *)
LEMMA AllCounted ==
  ASSUME Ready, NEW c \in Clients, cm[c] \in Disconnect
  PROVE  /\ num[c] = 2 /\ Len(ccq[c].wcs) = 0 /\ ppc[c] # "handle"
         /\ req[c] = "acked" /\ cregion[c] # None
<1>1. /\ Place(c) /\ cm[c] \notin BeforeConnection /\ num[c] \in Nat
      /\ Len(ccq[c].wcs) \in Nat
  BY Parts, Types DEF Ready, Disconnect, BeforeConnection
<1>2. req[c] = "acked" /\ cregion[c] # None /\ num[c] >= 2
  BY <1>1 DEF Place, Sent
<1>3. num[c] + Len(ccq[c].wcs) + One(ppc[c] = "handle") = One(TRUE) + One(TRUE)
  BY <1>1, <1>2 DEF Place, Accounted
<1>4. num[c] + Len(ccq[c].wcs) + One(ppc[c] = "handle") = 2
  BY <1>3 DEF One
<1> QED BY <1>1, <1>2, <1>4, CountsTwo

(* What the poller does to its CQ.                                         *)
LEMMA ClientCq ==
  ASSUME TypeInv, NEW c \in Clients
  PROVE  /\ TakeEvent(ccq[c]).wcs = ccq[c].wcs /\ Arm(ccq[c]).wcs = ccq[c].wcs
         /\ HasCompletion(ccq[c]) <=> Len(ccq[c].wcs) > 0
         /\ HasCompletion(ccq[c]) =>
              /\ Oldest(ccq[c]) = ccq[c].wcs[1]
              /\ Len(Poll(ccq[c]).wcs) = Len(ccq[c].wcs) - 1
              /\ \A i \in 1 .. Len(ccq[c].wcs) - 1 :
                   Poll(ccq[c]).wcs[i] = ccq[c].wcs[i + 1]
<1>1. ccq[c] \in CompletionQueues(ClientWcs)
  BY FunctionTypes
<1>2. Wc("SEND", TRUE, c) \in ClientWcs
  BY DEF Wc, ClientWcs, WorkCompletion
<1>3. /\ TakeEvent(ccq[c]).wcs = ccq[c].wcs /\ Arm(ccq[c]).wcs = ccq[c].wcs
      /\ HasCompletion(ccq[c]) <=> Len(ccq[c].wcs) > 0
  BY <1>1, <1>2, CqContents
<1>4. HasCompletion(ccq[c]) =>
        /\ Oldest(ccq[c]) = ccq[c].wcs[1]
        /\ Len(Poll(ccq[c]).wcs) = Len(ccq[c].wcs) - 1
        /\ \A i \in 1 .. Len(ccq[c].wcs) - 1 :
             Poll(ccq[c]).wcs[i] = ccq[c].wcs[i + 1]
  BY <1>1, CqPoll
<1> QED BY <1>3, <1>4

(* And what a completed transfer does to it.                               *)
LEMMA ClientCompletes ==
  ASSUME TypeInv, NEW c \in Clients, NEW op \in {"SEND", "RECV"}
  PROVE  LET q == Complete(ccq[c], Wc(op, TRUE, c))
         IN  /\ Len(q.wcs) = Len(ccq[c].wcs) + 1
             /\ \A i \in 1 .. Len(ccq[c].wcs) : q.wcs[i] = ccq[c].wcs[i]
             /\ q.wcs[Len(ccq[c].wcs) + 1].ok
<1> DEFINE w == Wc(op, TRUE, c)
<1>1. ccq[c] \in CompletionQueues(ClientWcs)
  BY FunctionTypes
<1>2. w \in ClientWcs /\ w.ok
  BY DEF Wc, ClientWcs, WorkCompletion
<1> HIDE DEF w
<1>3. /\ Len(Complete(ccq[c], w).wcs) = Len(ccq[c].wcs) + 1
      /\ \A i \in 1 .. Len(ccq[c].wcs) : Complete(ccq[c],
         w).wcs[i] = ccq[c].wcs[i]
      /\ Complete(ccq[c], w).wcs[Len(ccq[c].wcs) + 1] = w
  BY <1>1, <1>2, CqContents
<1> QED BY <1>2, <1>3 DEF w

(* A client with an empty channel is told of one event.                    *)
LEMMA ToldFirst ==
  ASSUME TypeInv, NEW c \in Clients, NEW t \in CliEventTypes, TellClient(c, t),
         Len(cliEvents[c]) = 0
  PROVE  /\ Len(cliEvents'[c]) = 1 /\ cliEvents'[c][1] = t
         /\ \A d \in Clients : d # c => cliEvents'[d] = cliEvents[d]
<1>1. \A d \in Clients : d # c => cliEvents'[d] = cliEvents[d]
  BY Told
<1>2. /\ Len(cliEvents'[c]) = Len(cliEvents[c]) + 1
      /\ cliEvents'[c][Len(cliEvents[c]) + 1] = t
  BY Told
<1> QED BY <1>1, <1>2

(* The server is told of one more event.                                   *)
LEMMA ServerTold ==
  ASSUME TypeInv, NEW t, NEW c, SrvEvent(t, c) \in SrvEventSet,
         TellServer(t, c)
  PROVE  /\ Len(srvEvents') = Len(srvEvents) + 1 /\ Len(srvEvents) \in Nat
         /\ \A i \in 1 .. Len(srvEvents) : srvEvents'[i] = srvEvents[i]
         /\ srvEvents'[Len(srvEvents) + 1].type = t
         /\ srvEvents'[Len(srvEvents) + 1].id = c
<1> DEFINE e == SrvEvent(t, c)
<1>1. srvEvents \in Seq(SrvEventSet) /\ e \in SrvEventSet
  BY DEF TypeInv, TypeOK, CmTypeOK
<1>2. e.type = t /\ e.id = c
  BY DEF SrvEvent
<1>3. srvEvents' = Append(srvEvents, e)
  BY DEF TellServer
<1> HIDE DEF e
<1>4. /\ Len(srvEvents') = Len(srvEvents) + 1 /\ Len(srvEvents) \in Nat
      /\ \A i \in 1 .. Len(srvEvents) : srvEvents'[i] = srvEvents[i]
      /\ srvEvents'[Len(srvEvents) + 1] = e
  BY <1>1, <1>3
<1> QED BY <1>2, <1>4

(* The last element of a sequence of one more.                             *)
LEMMA LastOrEarlier ==
  ASSUME NEW n \in Nat, NEW i \in 1 .. n + 1
  PROVE  i = n + 1 \/ i \in 1 .. n
OBVIOUS

(* The events that waited still do, and the new one may, when no two of    *)
(* them, in order, are anything but what one DISCONNECTED and what follows *)
(* it may be.                                                              *)
LEMMA QueueGrows ==
  ASSUME Ready, NEW t, NEW c, SrvEvent(t, c) \in SrvEventSet,
         TellServer(t, c), UNCHANGED <<spc, sconn>>,
         \A e \in SrvEventSet : EventDue(e) => EventDue(e)',
         \A e \in SrvEventSet : e.type = t /\ e.id = c => EventDue(e)',
         t # "DEVICE_REMOVAL" =>
           \A i \in 1 .. Len(srvEvents) :
             \/ Removal(i)
             \/ srvEvents[i].type = "DISCONNECTED" /\ t = "CONNECT_REQUEST",
         \A d \in Clients :
           cm'[d] \in {"disconnected", "closed"} /\ sconn[d] = "live" =>
             \/ cm[d] \in {"disconnected", "closed"}
             \/ t = "DISCONNECTED" /\ d = c
  PROVE  Queue'
<1>1. Queue /\ TypeInv
  BY Parts
<1> DEFINE n == Len(srvEvents)
<1>2. /\ Len(srvEvents') = n + 1 /\ n \in Nat
      /\ \A i \in 1 .. n : srvEvents'[i] = srvEvents[i]
      /\ srvEvents'[n + 1].type = t /\ srvEvents'[n + 1].id = c
  BY <1>1, ServerTold
<1>3. srvEvents'[n + 1] \in SrvEventSet
  BY <1>1, <1>2 DEF TellServer, TypeInv, TypeOK, CmTypeOK
<1> HIDE DEF n
<1>4. \A i \in 1 .. n + 1 : i = n + 1 \/ i \in 1 .. n
  BY <1>2, LastOrEarlier
<1>5. ASSUME NEW i \in 1 .. Len(srvEvents') PROVE EventDue(srvEvents[i])'
  <2>1. CASE i = n + 1
    BY <1>2, <1>3, <2>1
  <2>2. CASE i \in 1 .. n
    <3>1. EventDue(srvEvents[i]) /\ srvEvents[i] \in SrvEventSet
      BY <1>1, <2>2 DEF Queue, TypeInv, TypeOK, CmTypeOK, n
    <3>2. srvEvents'[i] = srvEvents[i]
      BY <1>2, <2>2
    <3> QED BY <3>1, <3>2
  <2> QED BY <1>2, <1>4, <2>1, <2>2
<1>6. ASSUME NEW i \in 1 .. Len(srvEvents'), NEW j \in 1 .. Len(srvEvents'),
             i < j
      PROVE  \/ Removal(i)' \/ Removal(j)'
             \/ /\ srvEvents'[i].type = "DISCONNECTED"
                /\ srvEvents'[j].type = "CONNECT_REQUEST"
  <2>1. i \in 1 .. n
    BY <1>2, <1>6
  <2>2. CASE j = n + 1
    BY <1>2, <2>1, <2>2 DEF Removal, n
  <2>3. CASE j \in 1 .. n
    BY <1>1, <1>2, <1>6, <2>1, <2>3 DEF Queue, Removal, n
  <2> QED BY <1>2, <1>4, <2>2, <2>3
<1>7. ASSUME NEW d \in Clients, cm'[d] \in {"disconnected", "closed"},
             sconn'[d] = "live"
      PROVE  \/ spc' \in {"disconnected", "unknown"}
             \/ \E i \in 1 .. Len(srvEvents') :
                  srvEvents'[i].type = "DISCONNECTED" /\ srvEvents'[i].id = d
  <2>1. CASE cm[d] \in {"disconnected", "closed"}
    <3>1. \/ spc \in {"disconnected", "unknown"}
          \/ \E i \in 1 .. n :
               srvEvents[i].type = "DISCONNECTED" /\ srvEvents[i].id = d
      BY <1>1, <1>7, <2>1 DEF Queue, n
    <3>2. \A i \in 1 .. n : i \in 1 .. Len(srvEvents')
      BY <1>2
    <3> QED BY <1>2, <3>1, <3>2
  <2>2. CASE t = "DISCONNECTED" /\ d = c
    <3>1. n + 1 \in 1 .. Len(srvEvents')
      BY <1>2
    <3> QED BY <1>2, <2>2, <3>1
  <2> QED BY <1>7, <2>1, <2>2
<1> QED BY <1>5, <1>6, <1>7 DEF Queue

(* A message that arrives while the server waits for it is the first       *)
(* completion, and queues an event.                                        *)
LEMMA ServerCompletesFirst ==
  ASSUME TypeInv, NEW w \in ServerWcs, scq.armed, scq.events = 0,
     Len(scq.wcs) = 0
  PROVE  LET q == Complete(scq, w)
         IN  Len(q.wcs) = 1 /\ q.wcs[1] = w /\ q.events = 1
<1>1. scq \in CompletionQueues(ServerWcs)
  BY DEF TypeInv, TypeOK, ServerTypeOK
<1>2. Len(Complete(scq, w).wcs) = Len(scq.wcs) + 1
  BY <1>1, CqContents
<1>3. Complete(scq, w).wcs[Len(scq.wcs) + 1] = w
  BY <1>1, CqContents
<1>5. Len(Complete(scq, w).wcs) = 1 /\ Complete(scq, w).wcs[1] = w
  BY <1>2, <1>3
<1>4. Complete(scq, w).events = 1
  BY DEF Complete
<1> QED BY <1>5, <1>4

(* One more completion, one more of what completes.                        *)
LEMMA OneMore ==
  ASSUME NEW n \in Nat, NEW l \in Nat, NEW h \in Nat, NEW a \in Nat,
     NEW b \in Nat,
         n + l + h = a + b
  PROVE  /\ n + (l + 1) + h = (a + 1) + b
         /\ n + (l + 1) + h = a + (b + 1)
OBVIOUS

(* What the server does to its CQ.                                         *)
LEMMA ServerCq ==
  ASSUME TypeInv
  PROVE  /\ TakeEvent(scq).wcs = scq.wcs /\ Arm(scq).wcs = scq.wcs
         /\ HasCompletion(scq) <=> Len(scq.wcs) > 0
         /\ HasCompletion(scq) => Oldest(scq) = scq.wcs[1]
<1>1. scq \in CompletionQueues(ServerWcs)
  BY DEF TypeInv, TypeOK, ServerTypeOK
<1>2. TakeEvent(scq).wcs = scq.wcs /\ Arm(scq).wcs = scq.wcs
  BY <1>1 DEF CompletionQueues, TakeEvent, Arm
<1>3. scq.wcs \in Seq(ServerWcs)
  BY <1>1 DEF CompletionQueues
<1>4. HasCompletion(scq) <=> Len(scq.wcs) > 0
  BY <1>3 DEF HasCompletion
<1>5. HasCompletion(scq) => Oldest(scq) = scq.wcs[1]
  BY <1>1, CqPoll
<1> QED BY <1>2, <1>4, <1>5

(* The client whose request the branch handles, once it has come.          *)
LEMMA Forwarding ==
  ASSUME Ready, NEW c \in Clients, event_copy.id = c, spc \in Handling,
         spc # "get_cq_event" \/ scq.events > 0
  PROVE  /\ event_copy.type = "CONNECT_REQUEST" /\ Handles(c) /\ ~srecv[c]
         /\ cm[c] = "connected" /\ wpc[c] = "none" /\ sconn[c] = "live"
         /\ rsp[c] = 0 /\ crecv[c] /\ Delivered(c) /\ recvRegion[c] = c
<1>1. HandlerPlace /\ OneConnection /\ Place(c) /\ TypeInv
  BY Parts
<1>2. event_copy.type = "CONNECT_REQUEST" /\ Handles(c)
  BY <1>1 DEF HandlerPlace
<1>3. ~srecv[c] /\ recvRegion[c] = c /\ wpc[c] = "none" /\ c \in ctxConns
  BY <1>2 DEF Handles
<1>4. sconn[c] = "live"
  BY <1>1, <1>3 DEF OneConnection
<1>5. Delivered(c)
  BY <1>1, <1>3, <1>4, Types DEF Place, ServerPlace, Sent, Delivered, ReqStates
<1>6. cm[c] = "connected"
  BY <1>1, <1>2, <1>5 DEF Handles, Place, Sent, Delivered, Connected,
     Disconnect
<1>7. rsp[c] = 0 /\ crecv[c]
  BY <1>1, <1>3, <1>6 DEF Place, ServerPlace
<1> QED BY <1>2, <1>3, <1>4, <1>5, <1>6, <1>7

(* The next run starts when the last has ended.                            *)
LEMMA SeqLaunch ==
  ASSUME Ready, NEW c \in Clients, Launch(c), cpc'[c] = "loop"
  PROVE  SeqInv'
<1> USE DEF cmVars, netVars, clientVars, serverVars, workerVars, proxyVars, Out
<1>1. cpc[c] = "idle" /\ \A d \in Clients : ~Active(d)
  BY Parts DEF Launch
<1>2. cm[c] = "idle"
  BY Parts, <1>1 DEF Place, ClientPlace
<1>3. /\ cm'[c] = "resolving_addr"
      /\ cpc'[c] = "loop"
      /\ UNCHANGED <<rtu, srvEvents, cliEvents, netVars, ppc, pwc, ccq,
                    cconn, num, crecv, cregion, serverVars,
                    workerVars, proxyVars>>
      /\ \A d \in Clients : d # c => Own(d)
  BY Parts, <1>1, <1>2, FunctionTypes DEF Launch, Own
<1>4. \A d \in Clients : d # c => Place(d)'
  BY Parts, <1>3, Elsewhere
<1>5. Place(c)'
  <2>1. ClientPlace(c)' /\ ClientEvent(c)' /\ Sent(c)'
    BY Parts, <1>1, <1>2, <1>3 DEF Place, ClientPlace, BeforeConnection,
       ClientEvent, Sent, Connected, Disconnect
  <2>2. Accounted(c)'
    BY Parts, <1>2, <1>3, Types DEF Place, Accounted, BeforeConnection, One
  <2>3. ServerPlace(c)' /\ WorkerPlace(c)'
    BY Parts, <1>2, <1>3 DEF Place, ServerPlace, BeforeAccept,
       BeforeConnection, Disconnect, Handling, TookEvent, Delivered,
       WorkerPlace, One
  <2>4. Succeeded(c)'
    BY Parts, <1>3 DEF Place, Succeeded
  <2> QED BY <2>1, <2>2, <2>3, <2>4 DEF Place
<1>6. OneActive'
  BY <1>1, <1>3 DEF OneActive, Active, Own
<1>7. HandlerPlace' /\ ProxyPlace' /\ OneConnection' /\ Queue'
  BY Parts, <1>2, <1>3, BeforeRequest DEF BeforeAccept, BeforeConnection, Own
<1> QED BY <1>4, <1>5, <1>6, <1>7 DEF SeqInv

(* A run that finds no request file ends before the next starts.           *)
LEMMA SeqLaunchFails ==
  ASSUME Ready, NEW c \in Clients, Launch(c), cpc'[c] # "loop"
  PROVE  SeqInv'
<1> USE DEF cmVars, netVars, clientVars, serverVars, workerVars, proxyVars, Out
<1>1. cpc[c] = "idle" /\ \A d \in Clients : ~Active(d)
  BY Parts DEF Launch
<1>2. cm[c] = "idle"
  BY Parts, <1>1 DEF Place, ClientPlace
<1>3. /\ cpc'[c] = "exited" /\ Faults
      /\ UNCHANGED <<cmVars, netVars, ppc, pwc, ccq, cconn, num, crecv,
                     cregion, serverVars, workerVars, proxyVars>>
      /\ \A d \in Clients : d # c => Own(d)
  BY Parts, <1>1, <1>2, FunctionTypes DEF Launch, Own
<1>4. \A d \in Clients : d # c => Place(d)'
  BY Parts, <1>3, Elsewhere
<1>5. Place(c)'
  <2>1. ClientPlace(c)' /\ ClientEvent(c)' /\ Sent(c)'
    BY Parts, <1>1, <1>2, <1>3 DEF Place, ClientPlace, BeforeConnection,
       ClientEvent, Sent, Connected, Disconnect
  <2>2. Accounted(c)' /\ Succeeded(c)'
    BY Parts, <1>2, <1>3 DEF Place, Accounted, BeforeConnection, Succeeded
  <2>3. ServerPlace(c)' /\ WorkerPlace(c)'
    BY Parts, <1>3 DEF Place, ServerPlace, TookEvent, Delivered, WorkerPlace
  <2> QED BY <2>1, <2>2, <2>3 DEF Place
<1>6. OneActive'
  BY <1>1, <1>3 DEF OneActive, Active, Own
<1>7. HandlerPlace' /\ ProxyPlace' /\ OneConnection' /\ Queue'
  BY Parts, <1>3, Quiet
<1> QED BY <1>4, <1>5, <1>6, <1>7 DEF SeqInv

(* The poller starts with an empty CQ and a posted receive.                *)
LEMMA SeqOnAddrResolved ==
  ASSUME Ready, NEW c \in Clients, OnAddrResolved(c)
  PROVE  SeqInv'
<1> USE DEF cmVars, netVars, clientVars, serverVars, workerVars, proxyVars, Out
<1>1. GetsEvent(c, {"ADDR_RESOLVED"})
  BY DEF OnAddrResolved
<1>2. /\ Len(cliEvents'[c]) = 0
      /\ \A d \in Clients : d # c => cliEvents'[d] = cliEvents[d]
  BY <1>1, SeqGot
<1>3. cpc[c] = "loop" /\ cm[c] = "addr_done"
  BY <1>1, SeqExpected
<1>4. Len(NewCq.wcs) = 0
  BY DEF NewCq
<1>5. cregion[c] = None /\ req[c] = "none"
  BY Parts, <1>1, <1>2, <1>3, <1>4, FabricAssumption DEF Place, Sent,
     Connected, Disconnect
<1>6. /\ cm'[c] = "resolving_route"
      /\ Len(cliEvents'[c]) = 0
      /\ ppc'[c] = "wait"
      /\ ccq'[c] = NewCq
      /\ cconn'[c] = "live"
      /\ num'[c] = 0
      /\ crecv'[c] = TRUE
      /\ UNCHANGED <<rtu, srvEvents, netVars, cpc, pwc, cregion,
                    serverVars, workerVars, proxyVars>>
      /\ \A d \in Clients : d # c => Own(d)
  BY Parts, <1>1, <1>2, <1>3, <1>4, <1>5, FunctionTypes DEF OnAddrResolved,
     GetsEvent, ClientBuildContext, ClientPostReceives, Own
<1>7. \A d \in Clients : d # c => Place(d)'
  BY Parts, <1>6, Elsewhere
<1>8. Place(c)'
  <2>1. ClientPlace(c)' /\ ClientEvent(c)'
    BY Parts, <1>2, <1>3, <1>5, <1>6 DEF Place, ClientPlace,
       BeforeConnection, ClientEvent
  <2>2. Sent(c)'
    <3>1. /\ cm'[c] = "resolving_route" /\ crecv'[c] = TRUE /\ num'[c] = 0
          /\ cpc'[c] = "loop" /\ cregion'[c] = None /\ req'[c] = "none"
      BY <1>3, <1>5, <1>6
    <3>2. crecv'[c] <=> cpc'[c] \in {"loop", "died"} /\ cregion'[c] = None
      BY <3>1
    <3>3. cm'[c] \notin Disconnect \cup BeforeConnection
      BY <3>1 DEF Disconnect, BeforeConnection
    <3>4. ~(num'[c] >= 2)
      BY <3>1
    <3> QED BY <3>1, <3>2, <3>3, <3>4 DEF Sent
  <2>3. Accounted(c)'
    BY Parts, <1>1, <1>2, <1>3, <1>4, <1>5, <1>6, Types DEF Place,
       Accounted, One, Connected, Disconnect, BeforeConnection, BeforeAccept
  <2>4. Succeeded(c)'
    BY Parts, <1>1, <1>2, <1>3, <1>4, <1>5, <1>6, Types DEF Place,
       Succeeded, Connected, Disconnect, BeforeConnection, BeforeAccept
  <2>5. ServerPlace(c)' /\ WorkerPlace(c)'
    BY Parts, <1>3, <1>5, <1>6 DEF Place, ServerPlace, BeforeAccept,
       BeforeConnection, Disconnect, Handling, TookEvent, Delivered,
       WorkerPlace, One
  <2> QED BY <2>1, <2>2, <2>3, <2>4, <2>5 DEF Place
<1>9. OneActive'
  BY Parts, <1>1, <1>2, <1>3, <1>4, <1>5, <1>6 DEF OneActive, Active, Own
<1>10. HandlerPlace' /\ ProxyPlace' /\ OneConnection' /\ Queue'
  BY Parts, <1>3, <1>6, BeforeRequest DEF BeforeAccept, BeforeConnection, Own
<1> QED BY <1>7, <1>8, <1>9, <1>10 DEF SeqInv

(* The client asks for a connection.                                       *)
LEMMA SeqOnRouteResolved ==
  ASSUME Ready, NEW c \in Clients, OnRouteResolved(c)
  PROVE  SeqInv'
<1> USE DEF cmVars, netVars, clientVars, serverVars, workerVars, proxyVars, Out
<1>1. GetsEvent(c, {"ROUTE_RESOLVED"})
  BY DEF OnRouteResolved
<1>2. /\ Len(cliEvents'[c]) = 0
      /\ \A d \in Clients : d # c => cliEvents'[d] = cliEvents[d]
  BY <1>1, SeqGot
<1>3. cpc[c] = "loop" /\ cm[c] = "route_done"
  BY <1>1, SeqExpected
<1>4. /\ cm'[c] = "connecting"
      /\ Len(cliEvents'[c]) = 0
      /\ UNCHANGED <<rtu, srvEvents, netVars, clientVars, serverVars,
                    workerVars, proxyVars>>
      /\ \A d \in Clients : d # c => Own(d)
  BY Parts, <1>1, <1>2, <1>3, FunctionTypes DEF OnRouteResolved, GetsEvent,
     Own
<1>5. \A d \in Clients : d # c => Place(d)'
  BY Parts, <1>4, Elsewhere
<1>6. Place(c)'
  <2>1. ClientPlace(c)' /\ ClientEvent(c)' /\ Sent(c)'
    BY Parts, <1>2, <1>3, <1>4 DEF Place, ClientPlace, BeforeConnection,
       ClientEvent, Sent, Connected, Disconnect
  <2>2. Accounted(c)'
    BY Parts, <1>3, <1>4, Types DEF Place, Accounted, BeforeConnection, One
  <2>3. ServerPlace(c)' /\ WorkerPlace(c)'
    BY Parts, <1>3, <1>4 DEF Place, ServerPlace, BeforeAccept,
       BeforeConnection, Disconnect, Handling, TookEvent, Delivered,
       WorkerPlace, One
  <2>4. Succeeded(c)'
    BY Parts, <1>4 DEF Place, Succeeded
  <2> QED BY <2>1, <2>2, <2>3, <2>4 DEF Place
<1>7. OneActive'
  BY Parts, <1>1, <1>2, <1>3, <1>4 DEF OneActive, Active, Own
<1>8. HandlerPlace' /\ ProxyPlace' /\ OneConnection' /\ Queue'
  BY Parts, <1>3, <1>4, BeforeRequest DEF BeforeAccept, BeforeConnection, Own
<1> QED BY <1>5, <1>6, <1>7, <1>8 DEF SeqInv

(* The request is posted; the server still has its receive.                *)
LEMMA SeqOnConnectionReqSock ==
  ASSUME Ready, NEW c \in Clients, OnConnectionReqSock(c)
  PROVE  SeqInv'
<1> USE DEF cmVars, netVars, clientVars, serverVars, workerVars, proxyVars, Out
<1>1. GetsEvent(c, {"ESTABLISHED"})
  BY DEF OnConnectionReqSock
<1>2. /\ Len(cliEvents'[c]) = 0
      /\ \A d \in Clients : d # c => cliEvents'[d] = cliEvents[d]
  BY <1>1, SeqGot
<1>3. cpc[c] = "loop" /\ cm[c] = "connected" /\ req[c] = "none"
  BY <1>1, SeqExpected
<1>4. /\ Len(cliEvents'[c]) = 0
      /\ req'[c] = "posted"
      /\ UNCHANGED <<cm, rtu, srvEvents, rsp, clientVars, serverVars,
                    workerVars, proxyVars>>
      /\ \A d \in Clients : d # c => Own(d)
  BY Parts, <1>1, <1>2, <1>3, FunctionTypes DEF OnConnectionReqSock,
     GetsEvent, Own
<1>5. \A d \in Clients : d # c => Place(d)'
  BY Parts, <1>4, Elsewhere
<1>6. Place(c)'
  <2>1. ClientEvent(c)' /\ Sent(c)'
    BY Parts, <1>2, <1>3, <1>4 DEF Place, ClientEvent, Sent, Connected,
       Disconnect, BeforeConnection
  <2>2. Accounted(c)'
    BY Parts, <1>3, <1>4, Types DEF Place, Accounted, BeforeConnection, One
  <2>3. ServerPlace(c)' /\ WorkerPlace(c)'
    BY Parts, <1>3, <1>4 DEF Place, ServerPlace, BeforeAccept,
       BeforeConnection, Disconnect, Handling, TookEvent, Delivered,
       WorkerPlace, One
  <2>4. ClientPlace(c)' /\ Succeeded(c)'
    BY Parts, <1>4 DEF Place, ClientPlace, Succeeded
  <2> QED BY <2>1, <2>2, <2>3, <2>4 DEF Place
<1>7. OneActive'
  BY Parts, <1>1, <1>2, <1>3, <1>4 DEF OneActive, Active, Own
<1>8. HandlerPlace' /\ ProxyPlace' /\ OneConnection' /\ Queue'
  BY Parts, <1>1, <1>2, <1>3, <1>4, Quiet
<1> QED BY <1>5, <1>6, <1>7, <1>8 DEF SeqInv

(* The connection is freed when both completions have been counted.        *)
LEMMA SeqClientOnDisconnect ==
  ASSUME Ready, NEW c \in Clients, ClientOnDisconnect(c)
  PROVE  SeqInv'
<1> USE DEF cmVars, netVars, clientVars, serverVars, workerVars, proxyVars, Out
<1>1. GetsEvent(c, {"DISCONNECTED"})
  BY DEF ClientOnDisconnect
<1>2. /\ Len(cliEvents'[c]) = 0
      /\ \A d \in Clients : d # c => cliEvents'[d] = cliEvents[d]
  BY <1>1, SeqGot
<1>3. cpc[c] = "loop" /\ cm[c] = "closed"
  BY <1>1, SeqExpected
<1>4. Len(Flush(ccq[c]).wcs) = 0
  BY Parts, FunctionTypes, FlushLen
<1>5. num[c] = 2 /\ Len(ccq[c].wcs) = 0 /\ ppc[c] # "handle"
      /\ req[c] = "acked" /\ cregion[c] # None
  BY Parts, <1>1, <1>2, <1>3, <1>4, AllCounted DEF Disconnect
<1>6. /\ Len(cliEvents'[c]) = 0
      /\ cpc'[c] = "leaving"
      /\ ccq'[c] = Flush(ccq[c])
      /\ cconn'[c] = "freed"
      /\ crecv'[c] = FALSE
      /\ UNCHANGED <<cm, rtu, srvEvents, netVars, ppc, pwc, num, cregion,
                    serverVars, workerVars, proxyVars>>
      /\ \A d \in Clients : d # c => Own(d)
  BY Parts, <1>1, <1>2, <1>3, <1>4, <1>5, FunctionTypes DEF
     ClientOnDisconnect, GetsEvent, Own
<1>7. \A d \in Clients : d # c => Place(d)'
  BY Parts, <1>6, Elsewhere
<1>8. Place(c)'
  <2>1. ClientPlace(c)' /\ ClientEvent(c)' /\ Sent(c)'
    BY Parts, <1>2, <1>3, <1>5, <1>6 DEF Place, ClientPlace,
       BeforeConnection, ClientEvent, Sent, Connected, Disconnect
  <2>2. Accounted(c)'
    BY Parts, <1>1, <1>2, <1>3, <1>4, <1>5, <1>6 DEF Accounted, One
  <2>3. Succeeded(c)'
    BY Parts, <1>4, <1>5, <1>6 DEF Place, Succeeded
  <2>4. ServerPlace(c)' /\ WorkerPlace(c)'
    BY Parts, <1>3, <1>5, <1>6 DEF Place, ServerPlace, BeforeAccept,
       BeforeConnection, Disconnect, Handling, TookEvent, Delivered,
       WorkerPlace, One
  <2> QED BY <2>1, <2>2, <2>3, <2>4 DEF Place
<1>9. OneActive'
  BY Parts, <1>1, <1>2, <1>3, <1>4, <1>5, <1>6 DEF OneActive, Active, Own
<1>10. HandlerPlace' /\ ProxyPlace' /\ OneConnection' /\ Queue'
  BY Parts, <1>1, <1>2, <1>3, <1>4, <1>5, <1>6, Quiet
<1> QED BY <1>7, <1>8, <1>9, <1>10 DEF SeqInv

(* A client that cannot resolve its address or its route dies before the   *)
(* server has heard of it.                                                 *)
LEMMA SeqOnUnknownEvent ==
  ASSUME Ready, NEW c \in Clients, OnUnknownEvent(c)
  PROVE  SeqInv'
<1> USE DEF cmVars, netVars, clientVars, serverVars, workerVars, proxyVars, Out
<1>1. GetsEvent(c, {"ADDR_ERROR", "ROUTE_ERROR", "REJECTED", "UNREACHABLE"})
  BY DEF OnUnknownEvent
<1>2. /\ Len(cliEvents'[c]) = 0
      /\ \A d \in Clients : d # c => cliEvents'[d] = cliEvents[d]
  BY <1>1, SeqGot
<1>3. cpc[c] = "loop" /\ cm[c] \in {"addr_done", "route_done"} /\ Faults
  BY <1>1, SeqExpected
<1>4. /\ cpc'[c] = "died" /\ ppc'[c] = "none"
      /\ UNCHANGED <<cm, rtu, srvEvents, netVars, pwc, ccq, cconn, num, crecv,
                     cregion, serverVars, workerVars, proxyVars>>
      /\ \A d \in Clients : d # c => Own(d)
  BY Parts, <1>1, <1>2, <1>3, FunctionTypes DEF OnUnknownEvent, GetsEvent,
     Die, Own
<1>5. \A d \in Clients : d # c => Place(d)'
  BY Parts, <1>4, Elsewhere
<1>6. Place(c)'
  <2>1. req[c] = "none" /\ cregion[c] = None
    BY Parts, <1>3 DEF Place, Sent, Connected, Disconnect
  <2>2. ClientPlace(c)' /\ ClientEvent(c)' /\ Sent(c)'
    BY Parts, <1>2, <1>3, <1>4 DEF Place, ClientPlace, BeforeConnection,
       ClientEvent, Sent, Connected, Disconnect
  <2>3. Accounted(c)'
    <3>1. CASE cm[c] = "addr_done"
      BY <1>4, <3>1 DEF Accounted, BeforeConnection
    <3>2. CASE cm[c] = "route_done"
      <4>1. num[c] + Len(ccq[c].wcs) + One(ppc[c] = "handle") = 0
        BY Parts, <2>1, <3>2 DEF Place, Accounted, One, BeforeConnection
      <4>2. One(ppc[c] = "handle") \in Nat
        BY DEF One
      <4>3. num[c] \in Nat /\ Len(ccq[c].wcs) \in Nat
        BY Parts, Types
      <4>4. num[c] = 0 /\ Len(ccq[c].wcs) = 0
        BY <4>1, <4>2, <4>3
      <4>5. One(ppc'[c] = "handle") = 0
        BY <1>4 DEF One
      <4> QED BY <1>4, <2>1, <4>4, <4>5 DEF Accounted, One
    <3> QED BY <1>3, <3>1, <3>2
  <2>4. Succeeded(c)'
    BY Parts, <1>4 DEF Place, Succeeded
  <2>5. ServerPlace(c)' /\ WorkerPlace(c)'
    BY Parts, <1>4 DEF Place, ServerPlace, TookEvent, Delivered, WorkerPlace
  <2> QED BY <2>2, <2>3, <2>4, <2>5 DEF Place
<1>7. OneActive'
  BY Parts, <1>3, <1>4 DEF OneActive, Active, Own
<1>8. HandlerPlace' /\ ProxyPlace' /\ OneConnection' /\ Queue'
  BY Parts, <1>4, Quiet
<1> QED BY <1>5, <1>6, <1>7, <1>8 DEF SeqInv

(* The next run may start; this one has left nothing to be handled.        *)
LEMMA SeqClientExit ==
  ASSUME Ready, NEW c \in Clients, ClientExit(c)
  PROVE  SeqInv'
<1> USE DEF cmVars, netVars, clientVars, serverVars, workerVars, proxyVars, Out
<1>1. cpc[c] = "leaving"
  BY DEF ClientExit
<1>2. cm[c] = "closed"
  BY Parts, <1>1 DEF Place, ClientPlace
<1>3. num[c] = 2 /\ Len(ccq[c].wcs) = 0 /\ ppc[c] # "handle"
      /\ req[c] = "acked" /\ cregion[c] # None
  BY Parts, <1>1, <1>2, AllCounted DEF Disconnect
<1>4. /\ cpc'[c] = "exited"
      /\ ppc'[c] = "none"
      /\ UNCHANGED <<cmVars, netVars, pwc, ccq, cconn, num, crecv, cregion,
                    serverVars, workerVars, proxyVars>>
      /\ \A d \in Clients : d # c => Own(d)
  BY Parts, <1>1, <1>2, <1>3, FunctionTypes DEF ClientExit, Own
<1>5. \A d \in Clients : d # c => Place(d)'
  BY Parts, <1>4, Elsewhere
<1>6. Place(c)'
  <2>1. ClientPlace(c)' /\ ClientEvent(c)' /\ Sent(c)'
    BY Parts, <1>1, <1>2, <1>3, <1>4 DEF Place, ClientPlace,
       BeforeConnection, ClientEvent, Sent, Connected, Disconnect
  <2>2. Accounted(c)'
    BY Parts, <1>1, <1>2, <1>3, <1>4 DEF Accounted, One
  <2>3. Succeeded(c)'
    BY Parts, <1>3, <1>4 DEF Place, Succeeded
  <2>4. ServerPlace(c)' /\ WorkerPlace(c)'
    BY Parts, <1>4 DEF Place, ServerPlace, TookEvent, Delivered, WorkerPlace
  <2> QED BY <2>1, <2>2, <2>3, <2>4 DEF Place
<1>7. OneActive'
  BY Parts, <1>1, <1>2, <1>3, <1>4 DEF OneActive, Active, Own
<1>8. HandlerPlace' /\ ProxyPlace' /\ OneConnection' /\ Queue'
  BY Parts, <1>1, <1>2, <1>3, <1>4, Quiet
<1> QED BY <1>5, <1>6, <1>7, <1>8 DEF SeqInv

(* The poller takes a CQ event.                                            *)
LEMMA SeqPollerGetEvent ==
  ASSUME Ready, NEW c \in Clients, PollerGetEvent(c)
  PROVE  SeqInv'
<1> USE DEF cmVars, netVars, clientVars, serverVars, workerVars, proxyVars, Out
<1>1. ppc[c] = "wait"
  BY DEF PollerGetEvent
<1>2. TakeEvent(ccq[c]).wcs = ccq[c].wcs /\ Arm(ccq[c]).wcs = ccq[c].wcs
  BY Parts, ClientCq
<1>3. /\ ppc'[c] = "arm"
      /\ ccq'[c].wcs = ccq[c].wcs
      /\ UNCHANGED <<cmVars, netVars, cpc, pwc, cconn, num, crecv, cregion,
                    serverVars, workerVars, proxyVars>>
      /\ \A d \in Clients : d # c => Own(d)
  BY Parts, <1>1, <1>2, FunctionTypes DEF PollerGetEvent, Own
<1>4. \A d \in Clients : d # c => Place(d)'
  BY Parts, <1>3, Elsewhere
<1>5. Place(c)'
  <2>1. ClientPlace(c)'
    BY Parts, <1>1, <1>3 DEF Place, ClientPlace, BeforeConnection
  <2>2. Accounted(c)'
    BY Parts, <1>1, <1>2, <1>3, Types DEF Place, Accounted,
       BeforeConnection, One
  <2>3. Succeeded(c)'
    BY Parts, <1>1, <1>2, <1>3 DEF Place, Succeeded
  <2>4. ClientEvent(c)' /\ Sent(c)' /\ ServerPlace(c)' /\ WorkerPlace(c)'
    BY Parts, <1>3 DEF Place, ClientEvent, Sent, ServerPlace, TookEvent,
       Delivered, WorkerPlace
  <2> QED BY <2>1, <2>2, <2>3, <2>4 DEF Place
<1>6. OneActive'
  BY Parts, <1>1, <1>2, <1>3 DEF OneActive, Active, Own
<1>7. HandlerPlace' /\ ProxyPlace' /\ OneConnection' /\ Queue'
  BY Parts, <1>1, <1>2, <1>3, Quiet
<1> QED BY <1>4, <1>5, <1>6, <1>7 DEF SeqInv

(* The poller arms the CQ.                                                 *)
LEMMA SeqPollerReqNotify ==
  ASSUME Ready, NEW c \in Clients, PollerReqNotify(c)
  PROVE  SeqInv'
<1> USE DEF cmVars, netVars, clientVars, serverVars, workerVars, proxyVars, Out
<1>1. ppc[c] = "arm"
  BY DEF PollerReqNotify
<1>2. TakeEvent(ccq[c]).wcs = ccq[c].wcs /\ Arm(ccq[c]).wcs = ccq[c].wcs
  BY Parts, ClientCq
<1>3. /\ ppc'[c] = "poll"
      /\ ccq'[c].wcs = ccq[c].wcs
      /\ UNCHANGED <<cmVars, netVars, cpc, pwc, cconn, num, crecv, cregion,
                    serverVars, workerVars, proxyVars>>
      /\ \A d \in Clients : d # c => Own(d)
  BY Parts, <1>1, <1>2, FunctionTypes DEF PollerReqNotify, Own
<1>4. \A d \in Clients : d # c => Place(d)'
  BY Parts, <1>3, Elsewhere
<1>5. Place(c)'
  <2>1. ClientPlace(c)'
    BY Parts, <1>1, <1>3 DEF Place, ClientPlace, BeforeConnection
  <2>2. Accounted(c)'
    BY Parts, <1>1, <1>2, <1>3, Types DEF Place, Accounted,
       BeforeConnection, One
  <2>3. Succeeded(c)'
    BY Parts, <1>1, <1>2, <1>3 DEF Place, Succeeded
  <2>4. ClientEvent(c)' /\ Sent(c)' /\ ServerPlace(c)' /\ WorkerPlace(c)'
    BY Parts, <1>3 DEF Place, ClientEvent, Sent, ServerPlace, TookEvent,
       Delivered, WorkerPlace
  <2> QED BY <2>1, <2>2, <2>3, <2>4 DEF Place
<1>6. OneActive'
  BY Parts, <1>1, <1>2, <1>3 DEF OneActive, Active, Own
<1>7. HandlerPlace' /\ ProxyPlace' /\ OneConnection' /\ Queue'
  BY Parts, <1>1, <1>2, <1>3, Quiet
<1> QED BY <1>4, <1>5, <1>6, <1>7 DEF SeqInv

(* The poller takes a completion: it moves from the CQ to pwc.             *)
LEMMA SeqPollerPollTakes ==
  ASSUME Ready, NEW c \in Clients, HasCompletion(ccq[c]), PollerPoll(c)
  PROVE  SeqInv'
<1> USE DEF cmVars, netVars, clientVars, serverVars, workerVars, proxyVars, Out
<1>1. ppc[c] = "poll"
  BY DEF PollerPoll
<1>2. /\ Oldest(ccq[c]) = ccq[c].wcs[1] /\ Len(ccq[c].wcs) > 0
      /\ Len(Poll(ccq[c]).wcs) = Len(ccq[c].wcs) - 1
      /\ \A i \in 1 .. Len(ccq[c].wcs) - 1 :
           Poll(ccq[c]).wcs[i] = ccq[c].wcs[i + 1]
  BY Parts, ClientCq
<1>3. /\ ppc'[c] = "handle"
      /\ pwc'[c] = Oldest(ccq[c])
      /\ ccq'[c] = Poll(ccq[c])
      /\ UNCHANGED <<cmVars, netVars, cpc, cconn, num, crecv, cregion,
                    serverVars, workerVars, proxyVars>>
      /\ \A d \in Clients : d # c => Own(d)
  BY Parts, <1>1, <1>2, FunctionTypes DEF PollerPoll, Own
<1>4. \A d \in Clients : d # c => Place(d)'
  BY Parts, <1>3, Elsewhere
<1>5. Place(c)'
  <2>1. ClientPlace(c)'
    BY Parts, <1>1, <1>3 DEF Place, ClientPlace, BeforeConnection
  <2>2. Accounted(c)'
    BY Parts, <1>1, <1>2, <1>3, Types DEF Place, Accounted,
       BeforeConnection, One
  <2>3. Succeeded(c)'
    <3>1. \A i \in 1 .. Len(ccq[c].wcs) : ccq[c].wcs[i].ok
      BY Parts DEF Place, Succeeded
    <3>2. pwc'[c].ok
      BY <1>2, <1>3, Types, <3>1
    <3>3. ASSUME NEW i \in 1 .. Len(ccq'[c].wcs) PROVE ccq'[c].wcs[i].ok
      <4>1. Len(ccq'[c].wcs) = Len(ccq[c].wcs) - 1
        BY <1>2, <1>3
      <4>2. i \in 1 .. Len(ccq[c].wcs) - 1 /\ i + 1 \in 1 .. Len(ccq[c].wcs)
        BY Types, <4>1
      <4> QED BY <1>2, <1>3, <3>1, <4>2
    <3> QED BY <3>2, <3>3 DEF Succeeded
  <2>4. ClientEvent(c)' /\ Sent(c)' /\ ServerPlace(c)' /\ WorkerPlace(c)'
    BY Parts, <1>3 DEF Place, ClientEvent, Sent, ServerPlace, TookEvent,
       Delivered, WorkerPlace
  <2> QED BY <2>1, <2>2, <2>3, <2>4 DEF Place
<1>6. OneActive'
  BY Parts, <1>1, <1>2, <1>3 DEF OneActive, Active, Own
<1>7. HandlerPlace' /\ ProxyPlace' /\ OneConnection' /\ Queue'
  BY Parts, <1>1, <1>2, <1>3, Quiet
<1> QED BY <1>4, <1>5, <1>6, <1>7 DEF SeqInv

(* The poller finds the CQ empty.                                          *)
LEMMA SeqPollerPollWaits ==
  ASSUME Ready, NEW c \in Clients, ~HasCompletion(ccq[c]), PollerPoll(c)
  PROVE  SeqInv'
<1> USE DEF cmVars, netVars, clientVars, serverVars, workerVars, proxyVars, Out
<1>1. ppc[c] = "poll"
  BY DEF PollerPoll
<1>2. /\ ppc'[c] = "wait"
      /\ UNCHANGED <<cmVars, netVars, cpc, pwc, ccq, cconn, num, crecv,
                    cregion, serverVars, workerVars, proxyVars>>
      /\ \A d \in Clients : d # c => Own(d)
  BY Parts, <1>1, FunctionTypes DEF PollerPoll, Own
<1>3. \A d \in Clients : d # c => Place(d)'
  BY Parts, <1>2, Elsewhere
<1>4. Place(c)'
  <2>1. ClientPlace(c)'
    BY Parts, <1>1, <1>2 DEF Place, ClientPlace, BeforeConnection
  <2>2. Accounted(c)'
    BY Parts, <1>1, <1>2, Types DEF Place, Accounted, BeforeConnection, One
  <2>3. Succeeded(c)'
    BY Parts, <1>1, <1>2 DEF Place, Succeeded
  <2>4. ClientEvent(c)' /\ Sent(c)' /\ ServerPlace(c)' /\ WorkerPlace(c)'
    BY Parts, <1>2 DEF Place, ClientEvent, Sent, ServerPlace, TookEvent,
       Delivered, WorkerPlace
  <2> QED BY <2>1, <2>2, <2>3, <2>4 DEF Place
<1>5. OneActive'
  BY Parts, <1>1, <1>2 DEF OneActive, Active, Own
<1>6. HandlerPlace' /\ ProxyPlace' /\ OneConnection' /\ Queue'
  BY Parts, <1>1, <1>2, Quiet
<1> QED BY <1>3, <1>4, <1>5, <1>6 DEF SeqInv

(* A poller that handles a completion belongs to a connected client: what   *)
(* completes has been sent or has arrived.                                 *)
LEMMA Handled ==
  ASSUME Ready, NEW c \in Clients, ppc[c] = "handle"
  PROVE  /\ cm[c] = "connected" /\ cpc[c] = "loop" /\ cconn[c] = "live"
         /\ pwc[c].ok
<1>1. /\ Place(c) /\ cm[c] \notin BeforeConnection /\ pwc[c].ok
      /\ num[c] \in Nat /\ Len(ccq[c].wcs) \in Nat
  BY Parts, Types DEF Place, ClientPlace, Succeeded
<1>2. num[c] + Len(ccq[c].wcs) + 1 = One(req[c] = "acked") + One(cregion[c] # None)
  BY <1>1 DEF Place, Accounted, One
<1>3. req[c] = "acked" \/ cregion[c] # None
  BY <1>1, <1>2 DEF One
<1>4. cm[c] \in Connected
  BY <1>1, <1>3 DEF Place, Sent
<1>5. cm[c] \notin Disconnect
  BY AllCounted
<1>6. cm[c] = "connected"
  BY <1>4, <1>5 DEF Connected
<1>7. cpc[c] = "loop"
  BY <1>6, Alone DEF Out
<1> QED BY <1>1, <1>6, <1>7 DEF Place, ClientPlace

(* The poller counts a completion that is not the last.                    *)
LEMMA SeqPollerCounts ==
  ASSUME Ready, NEW c \in Clients, num[c] + 1 # 2, PollerOnCompletion(c)
  PROVE  SeqInv'
<1> USE DEF cmVars, netVars, clientVars, serverVars, workerVars, proxyVars, Out
<1>1. ppc[c] = "handle"
  BY DEF PollerOnCompletion
<1>2. /\ cm[c] \notin BeforeConnection /\ pwc[c].ok /\ num[c] \in Nat
      /\ Len(ccq[c].wcs) \in Nat
  BY Parts, <1>1, Types DEF Place, ClientPlace, Succeeded
<1>3. num[c] + Len(ccq[c].wcs) + 1 = One(req[c] = "acked") + One(cregion[c] # None)
  BY Parts, <1>1, <1>2 DEF Place, Accounted, One
<1>4. num[c] + 1 = 2 => req[c] = "acked" /\ cregion[c] # None
  BY <1>2, <1>3 DEF One
<1>5. ~(num[c] >= 2)
  BY <1>2, <1>3 DEF One
<1>6. /\ cm[c] \notin Disconnect /\ cpc[c] = "loop" /\ cconn[c] = "live"
      /\ cm[c] \notin Out
  BY <1>1, Handled DEF Disconnect
<1>7. num[c] \in Nat /\ ~(num[c] + 1 >= 2)
  BY <1>2, <1>5
<1>8. /\ ppc'[c] = "poll"
      /\ num'[c] = num[c] + 1
      /\ UNCHANGED <<cmVars, netVars, cpc, pwc, ccq, cconn, crecv, cregion,
                    serverVars, workerVars, proxyVars>>
      /\ \A d \in Clients : d # c => Own(d)
  BY Parts, <1>1, <1>2, <1>3, <1>4, <1>5, <1>6, <1>7, FunctionTypes DEF
     PollerOnCompletion, LastCompletion, RdmaDisconnect, Die, Own
<1>9. \A d \in Clients : d # c => Place(d)'
  BY Parts, <1>8, Elsewhere
<1>10. Place(c)'
  <2>1. ClientPlace(c)'
    BY Parts, <1>1, <1>2, <1>6, <1>8 DEF Place, ClientPlace,
       BeforeConnection
  <2>2. Sent(c)'
    <3>1. (num[c] >= 2) <=> (num'[c] >= 2)
      BY <1>5, <1>7, <1>8
    <3> QED
      BY Parts, <1>8, <3>1 DEF Place, Sent, Disconnect, Connected,
         BeforeConnection
  <2>3. Accounted(c)'
    BY Parts, <1>1, <1>2, <1>3, <1>4, <1>5, <1>6, <1>7, <1>8, Types DEF
       Place, Accounted, BeforeConnection, One
  <2>4. Succeeded(c)'
    BY Parts, <1>1, <1>2, <1>3, <1>8 DEF Place, Succeeded
  <2>5. ClientEvent(c)' /\ ServerPlace(c)' /\ WorkerPlace(c)'
    BY Parts, <1>8 DEF Place, ClientEvent, ServerPlace, TookEvent,
       Delivered, WorkerPlace
  <2> QED BY <2>1, <2>2, <2>3, <2>4, <2>5 DEF Place
<1>11. OneActive'
  BY Parts, <1>1, <1>2, <1>3, <1>4, <1>5, <1>6, <1>7, <1>8 DEF OneActive,
     Active, Own
<1>12. HandlerPlace' /\ ProxyPlace' /\ OneConnection' /\ Queue'
  BY Parts, <1>1, <1>2, <1>3, <1>4, <1>5, <1>6, <1>7, <1>8, Quiet
<1> QED BY <1>9, <1>10, <1>11, <1>12 DEF SeqInv

(* The poller counts the last completion: the answer is there, so the      *)
(* worker is done.                                                         *)
LEMMA SeqPollerDisconnects ==
  ASSUME Ready, NEW c \in Clients, num[c] + 1 = 2, PollerOnCompletion(c)
  PROVE  SeqInv'
<1> USE DEF cmVars, netVars, clientVars, serverVars, workerVars, proxyVars, Out
<1>1. ppc[c] = "handle"
  BY DEF PollerOnCompletion
<1>2. /\ cm[c] \notin BeforeConnection /\ pwc[c].ok /\ num[c] \in Nat
      /\ Len(ccq[c].wcs) \in Nat
  BY Parts, <1>1, Types DEF Place, ClientPlace, Succeeded
<1>3. num[c] + Len(ccq[c].wcs) + 1 = One(req[c] = "acked") + One(cregion[c] # None)
  BY Parts, <1>1, <1>2 DEF Place, Accounted, One
<1>4. num[c] + 1 = 2 => req[c] = "acked" /\ cregion[c] # None
  BY <1>2, <1>3 DEF One
<1>5. ~(num[c] >= 2)
  BY <1>2, <1>3 DEF One
<1>6. /\ cm[c] \notin Disconnect /\ cpc[c] = "loop" /\ cconn[c] = "live"
      /\ cm[c] \notin Out
  BY <1>1, Handled DEF Disconnect
<1>7. crecv[c] = FALSE /\ cm[c] = "connected"
  BY Parts, <1>2, <1>4, <1>6, FabricAssumption DEF Place, Sent, Connected,
       Disconnect
<1>8. wpc[c] = "done" /\ c \notin rtu /\ sconn[c] = "live"
  BY Parts, <1>7, Types DEF Place, ServerPlace, WorkerPlace, WorkerPcs
<1>9. /\ cm'[c] = "disconnecting"
      /\ ppc'[c] = "poll"
      /\ num'[c] = 2
      /\ UNCHANGED <<rtu, srvEvents, cliEvents, netVars, cpc, pwc, ccq,
                    cconn, crecv, cregion, serverVars, workerVars,
                    proxyVars>>
      /\ \A d \in Clients : d # c => Own(d)
  BY Parts, <1>1, <1>2, <1>3, <1>4, <1>5, <1>6, <1>7, <1>8, FunctionTypes
     DEF PollerOnCompletion, LastCompletion, RdmaDisconnect, Die, Own
<1>10. \A d \in Clients : d # c => Place(d)'
  BY Parts, <1>9, Elsewhere
<1>11. Place(c)'
  <2>1. ClientPlace(c)' /\ ClientEvent(c)' /\ Sent(c)'
    BY Parts, <1>1, <1>2, <1>3, <1>4, <1>5, <1>6, <1>7, <1>9, Types DEF
       Place, ClientPlace, BeforeConnection, ClientEvent, Sent, Connected,
       Disconnect
  <2>2. Accounted(c)'
    BY Parts, <1>1, <1>2, <1>3, <1>4, <1>5, <1>6, <1>7, <1>9, Types DEF
       Place, Accounted, BeforeConnection, One
  <2>3. Succeeded(c)'
    BY Parts, <1>1, <1>2, <1>3, <1>9 DEF Place, Succeeded
  <2>4. ServerPlace(c)' /\ WorkerPlace(c)'
    BY Parts, <1>2, <1>3, <1>4, <1>6, <1>7, <1>8, <1>9 DEF Place,
       ServerPlace, BeforeAccept, BeforeConnection, Disconnect, Handling,
       TookEvent, Delivered, WorkerPlace, One
  <2> QED BY <2>1, <2>2, <2>3, <2>4 DEF Place
<1>12. OneActive'
  BY Parts, <1>1, <1>2, <1>3, <1>4, <1>5, <1>6, <1>7, <1>8, <1>9 DEF
     OneActive, Active, Own
<1>13. HandlerPlace'
  BY Parts, <1>2, <1>6, <1>7, <1>8, <1>9, Ids DEF HandlerPlace, Handles,
     Handling, Own
<1>14. OneConnection'
  BY Parts, <1>2, <1>6, <1>7, <1>8, <1>9 DEF OneConnection, Own
<1>15. Queue'
  BY Parts, <1>2, <1>6, <1>7, <1>8, <1>9, Ids DEF Queue, EventDue, Removal, Own
<1>16. ProxyPlace'
  BY Parts, <1>9 DEF ProxyPlace
<1> QED BY <1>10, <1>11, <1>12, <1>13, <1>14, <1>15, <1>16 DEF SeqInv

(* The address is resolved.                                                *)
LEMMA SeqCmAddr ==
  ASSUME Ready, NEW c \in Clients, CmStep(c), CmAddr(c)
  PROVE  SeqInv'
<1> USE DEF cmVars, netVars, clientVars, serverVars, workerVars, proxyVars, Out
<1>1. PICK t \in {"ADDR_RESOLVED", "ADDR_ERROR"} :
        /\ cm[c] = "resolving_addr" /\ TellClient(c, t)
        /\ t = "ADDR_ERROR" => Faults
  BY DEF CmAddr
<1>2. Len(cliEvents[c]) = 0
  BY Parts, <1>1, Types DEF Place, ClientEvent
<1>3. /\ Len(cliEvents'[c]) = 1 /\ cliEvents'[c][1] = t
      /\ \A d \in Clients : d # c => cliEvents'[d] = cliEvents[d]
  BY Parts, <1>1, <1>2, ToldFirst DEF CliEventTypes
<1>4. /\ cm'[c] = "addr_done"
      /\ Len(cliEvents'[c]) = 1 /\ cliEvents'[c][1] = t
      /\ UNCHANGED <<rtu, srvEvents, netVars, clientVars, serverVars,
                    workerVars, proxyVars>>
      /\ \A d \in Clients : d # c => Own(d)
  BY Parts, <1>1, <1>2, <1>3, FunctionTypes DEF CmAddr, TellClient, CmStep,
     Own
<1>5. \A d \in Clients : d # c => Place(d)'
  BY Parts, <1>4, Elsewhere
<1>6. Place(c)'
  <2>1. ClientPlace(c)' /\ ClientEvent(c)' /\ Sent(c)'
    BY Parts, <1>1, <1>2, <1>3, <1>4 DEF Place, ClientPlace,
       BeforeConnection, ClientEvent, Sent, Connected, Disconnect
  <2>2. Accounted(c)'
    BY Parts, <1>1, <1>4, Types DEF Place, Accounted, BeforeConnection, One
  <2>3. ServerPlace(c)' /\ WorkerPlace(c)'
    BY Parts, <1>1, <1>4 DEF Place, ServerPlace, BeforeAccept,
       BeforeConnection, Disconnect, Handling, TookEvent, Delivered,
       WorkerPlace, One
  <2>4. Succeeded(c)'
    BY Parts, <1>4 DEF Place, Succeeded
  <2> QED BY <2>1, <2>2, <2>3, <2>4 DEF Place
<1>7. OneActive'
  BY Parts, <1>1, <1>2, <1>3, <1>4 DEF OneActive, Active, Own
<1>8. HandlerPlace' /\ ProxyPlace' /\ OneConnection' /\ Queue'
  BY Parts, <1>1, <1>4, BeforeRequest DEF BeforeAccept, BeforeConnection, Own
<1> QED BY <1>5, <1>6, <1>7, <1>8 DEF SeqInv

(* The route is resolved.                                                  *)
LEMMA SeqCmRoute ==
  ASSUME Ready, NEW c \in Clients, CmStep(c), CmRoute(c)
  PROVE  SeqInv'
<1> USE DEF cmVars, netVars, clientVars, serverVars, workerVars, proxyVars, Out
<1>1. PICK t \in {"ROUTE_RESOLVED", "ROUTE_ERROR"} :
        /\ cm[c] = "resolving_route" /\ TellClient(c, t)
        /\ t = "ROUTE_ERROR" => Faults
  BY DEF CmRoute
<1>2. Len(cliEvents[c]) = 0
  BY Parts, <1>1, Types DEF Place, ClientEvent
<1>3. /\ Len(cliEvents'[c]) = 1 /\ cliEvents'[c][1] = t
      /\ \A d \in Clients : d # c => cliEvents'[d] = cliEvents[d]
  BY Parts, <1>1, <1>2, ToldFirst DEF CliEventTypes
<1>4. /\ cm'[c] = "route_done"
      /\ Len(cliEvents'[c]) = 1 /\ cliEvents'[c][1] = t
      /\ UNCHANGED <<rtu, srvEvents, netVars, clientVars, serverVars,
                    workerVars, proxyVars>>
      /\ \A d \in Clients : d # c => Own(d)
  BY Parts, <1>1, <1>2, <1>3, FunctionTypes DEF CmRoute, TellClient, CmStep,
     Own
<1>5. \A d \in Clients : d # c => Place(d)'
  BY Parts, <1>4, Elsewhere
<1>6. Place(c)'
  <2>1. ClientPlace(c)' /\ ClientEvent(c)' /\ Sent(c)'
    BY Parts, <1>1, <1>2, <1>3, <1>4 DEF Place, ClientPlace,
       BeforeConnection, ClientEvent, Sent, Connected, Disconnect
  <2>2. Accounted(c)'
    BY Parts, <1>1, <1>4, Types DEF Place, Accounted, BeforeConnection, One
  <2>3. ServerPlace(c)' /\ WorkerPlace(c)'
    BY Parts, <1>1, <1>4 DEF Place, ServerPlace, BeforeAccept,
       BeforeConnection, Disconnect, Handling, TookEvent, Delivered,
       WorkerPlace, One
  <2>4. Succeeded(c)'
    BY Parts, <1>4 DEF Place, Succeeded
  <2> QED BY <2>1, <2>2, <2>3, <2>4 DEF Place
<1>7. OneActive'
  BY Parts, <1>1, <1>2, <1>3, <1>4 DEF OneActive, Active, Own
<1>8. HandlerPlace' /\ ProxyPlace' /\ OneConnection' /\ Queue'
  BY Parts, <1>1, <1>4, BeforeRequest DEF BeforeAccept, BeforeConnection, Own
<1> QED BY <1>5, <1>6, <1>7, <1>8 DEF SeqInv

(* The client hears that its disconnect is over.                           *)
LEMMA SeqCmDrep ==
  ASSUME Ready, NEW c \in Clients, CmStep(c), CmDrep(c)
  PROVE  SeqInv'
<1> USE DEF cmVars, netVars, clientVars, serverVars, workerVars, proxyVars, Out
<1>1. cm[c] = "disconnected" /\ TellClient(c, "DISCONNECTED")
  BY Parts DEF CmDrep
<1>2. Len(cliEvents[c]) = 0
  BY Parts, <1>1, Types DEF Place, ClientEvent
<1>3. /\ Len(cliEvents'[c]) = 1 /\ cliEvents'[c][1] = "DISCONNECTED"
      /\ \A d \in Clients : d # c => cliEvents'[d] = cliEvents[d]
  BY Parts, <1>1, <1>2, ToldFirst DEF CliEventTypes
<1>4. cpc[c] = "loop"
  BY <1>1, Alone
<1>5. /\ cm'[c] = "closed"
      /\ Len(cliEvents'[c]) = 1 /\ cliEvents'[c][1] = "DISCONNECTED"
      /\ UNCHANGED <<rtu, srvEvents, netVars, clientVars, serverVars,
                    workerVars, proxyVars>>
      /\ \A d \in Clients : d # c => Own(d)
  BY Parts, <1>1, <1>2, <1>3, <1>4, FunctionTypes DEF CmDrep, TellClient,
     CmStep, Own
<1>6. \A d \in Clients : d # c => Place(d)'
  BY Parts, <1>5, Elsewhere
<1>7. Place(c)'
  <2>1. ClientPlace(c)' /\ ClientEvent(c)' /\ Sent(c)'
    BY Parts, <1>1, <1>2, <1>3, <1>4, <1>5 DEF Place, ClientPlace,
       BeforeConnection, ClientEvent, Sent, Connected, Disconnect
  <2>2. Accounted(c)'
    BY Parts, <1>1, <1>5, Types DEF Place, Accounted, BeforeConnection, One
  <2>3. ServerPlace(c)' /\ WorkerPlace(c)'
    BY Parts, <1>1, <1>5 DEF Place, ServerPlace, BeforeAccept,
       BeforeConnection, Disconnect, Handling, TookEvent, Delivered,
       WorkerPlace, One
  <2>4. Succeeded(c)'
    BY Parts, <1>5 DEF Place, Succeeded
  <2> QED BY <2>1, <2>2, <2>3, <2>4 DEF Place
<1>8. OneActive'
  BY Parts, <1>1, <1>2, <1>3, <1>4, <1>5 DEF OneActive, Active, Own
<1>9. HandlerPlace'
  BY Parts, <1>1, <1>5, Ids DEF HandlerPlace, Handles, Handling, Own
<1>10. OneConnection'
  BY Parts, <1>1, <1>5 DEF OneConnection, Own
<1>11. Queue'
  BY Parts, <1>1, <1>5, Ids DEF Queue, EventDue, Removal, Own
<1>12. ProxyPlace'
  BY Parts, <1>5 DEF ProxyPlace
<1> QED BY <1>6, <1>7, <1>8, <1>9, <1>10, <1>11, <1>12 DEF SeqInv

(* The server waits for the request of the client that is now connected.   *)
LEMMA SeqCmReply ==
  ASSUME Ready, NEW c \in Clients, CmStep(c), CmReply(c)
  PROVE  SeqInv'
<1> USE DEF cmVars, netVars, clientVars, serverVars, workerVars, proxyVars, Out
<1>1. cm[c] = "accepted" /\ TellClient(c, "ESTABLISHED")
  BY Parts DEF CmReply
<1>2. Len(cliEvents[c]) = 0
  BY Parts, <1>1, Types DEF Place, ClientEvent
<1>3. /\ Len(cliEvents'[c]) = 1 /\ cliEvents'[c][1] = "ESTABLISHED"
      /\ \A d \in Clients : d # c => cliEvents'[d] = cliEvents[d]
  BY Parts, <1>1, <1>2, ToldFirst DEF CliEventTypes
<1>4. cpc[c] = "loop" /\ req[c] = "none" /\ cregion[c] = None
  BY Parts, <1>1, <1>2, <1>3, Alone DEF Place, Sent, Connected, Disconnect
<1>5. crecv[c]
  BY Parts, <1>1, <1>4 DEF Place, Sent, BeforeConnection
<1>6. /\ sconn[c] = "live" /\ wpc[c] = "none" /\ rsp[c] = 0 /\ c \notin rtu
      /\ spc = "get_cq_event" /\ TookEvent("CONNECT_REQUEST", c)
      /\ (srecv[c] <=> req[c] \in {"none", "posted"})
  BY Parts, <1>1 DEF Place, ServerPlace
<1>7. /\ cm'[c] = "connected"
      /\ Len(cliEvents'[c]) = 1 /\ cliEvents'[c][1] = "ESTABLISHED"
      /\ rtu' = rtu \cup {c}
      /\ UNCHANGED <<srvEvents, netVars, clientVars, serverVars,
                    workerVars, proxyVars>>
      /\ \A d \in Clients : d # c => Own(d)
  BY Parts, <1>1, <1>2, <1>3, <1>4, <1>5, <1>6, FunctionTypes DEF CmReply,
     TellClient, CmStep, Own
<1>8. \A d \in Clients : d # c => cm[d] \in Out
  BY Parts, <1>1, <1>2, <1>3, <1>4, <1>5, <1>6, Alone
<1>9. \A d \in Clients : d # c => Place(d)'
  BY Parts, <1>7, <1>8, Resting
<1>10. Place(c)'
  <2>1. ClientPlace(c)' /\ ClientEvent(c)' /\ Sent(c)'
    BY Parts, <1>1, <1>2, <1>3, <1>4, <1>5, <1>6, <1>7 DEF Place,
       ClientPlace, BeforeConnection, ClientEvent, Sent, Connected,
       Disconnect
  <2>2. Accounted(c)'
    BY Parts, <1>1, <1>4, <1>6, <1>7, Types DEF Place, Accounted,
       BeforeConnection, One
  <2>3. WorkerPlace(c)'
    BY Parts, <1>1, <1>4, <1>5, <1>6, <1>7 DEF Place, WorkerPlace,
       TookEvent, Delivered, One
  <2>4. ServerPlace(c)'
    BY <1>7, <1>1, <1>4, <1>5, <1>6 DEF ServerPlace, Handling, TookEvent,
         Disconnect, BeforeAccept, BeforeConnection
  <2>5. Succeeded(c)'
    BY Parts, <1>7 DEF Place, Succeeded
  <2> QED BY <2>1, <2>2, <2>3, <2>4, <2>5 DEF Place
<1>11. OneActive'
  BY Parts, <1>1, <1>2, <1>3, <1>4, <1>5, <1>6, <1>7, <1>8 DEF OneActive,
     Active, Own
<1>12. HandlerPlace'
  BY Parts, <1>1, <1>6, <1>8, <1>7, Ids DEF HandlerPlace, Handles, Handling,
     Own
<1>13. OneConnection'
  BY Parts, <1>1, <1>6, <1>8, <1>7 DEF OneConnection, Own
<1>14. Queue'
  BY Parts, <1>1, <1>6, <1>8, <1>7, Ids DEF Queue, EventDue, Removal, Own
<1>15. ProxyPlace'
  BY Parts, <1>7 DEF ProxyPlace
<1> QED BY <1>9, <1>10, <1>11, <1>12, <1>13, <1>14, <1>15 DEF SeqInv

(* Only the DISCONNECTED of the last client can still wait before a new    *)
(* request.                                                                *)
LEMMA SeqCmRequest ==
  ASSUME Ready, NEW c \in Clients, CmStep(c), CmRequest(c)
  PROVE  SeqInv'
<1> USE DEF cmVars, netVars, clientVars, serverVars, workerVars, proxyVars, Out
<1>1. cm[c] = "connecting" /\ TellServer("CONNECT_REQUEST", c)
  BY DEF CmRequest
<1>2. /\ cm'[c] = "requested"
      /\ srvEvents' = Append(srvEvents, SrvEvent("CONNECT_REQUEST", c))
      /\ UNCHANGED <<rtu, cliEvents, netVars, clientVars, serverVars,
                    workerVars, proxyVars>>
      /\ \A d \in Clients : d # c => Own(d)
  BY Parts, <1>1, FunctionTypes DEF CmRequest, TellServer, CmStep, Own
<1>3. \A d \in Clients : d # c => cm[d] \in Out
  BY Parts, <1>1, Alone
<1>4. \A d \in Clients : d # c => Place(d)'
  BY Parts, <1>2, <1>3, Resting
<1>5. Place(c)'
  <2>1. ClientPlace(c)' /\ ClientEvent(c)' /\ Sent(c)'
    BY Parts, <1>1, <1>2 DEF Place, ClientPlace, BeforeConnection,
       ClientEvent, Sent, Connected, Disconnect
  <2>2. Accounted(c)'
    BY Parts, <1>1, <1>2, Types DEF Place, Accounted, BeforeConnection, One
  <2>3. ServerPlace(c)' /\ WorkerPlace(c)'
    BY Parts, <1>1, <1>2 DEF Place, ServerPlace, BeforeAccept,
       BeforeConnection, Disconnect, Handling, TookEvent, Delivered,
       WorkerPlace, One
  <2>4. Succeeded(c)'
    BY Parts, <1>2 DEF Place, Succeeded
  <2> QED BY <2>1, <2>2, <2>3, <2>4 DEF Place
<1>6. OneActive'
  BY Parts, <1>1, <1>2, <1>3 DEF OneActive, Active, Own
<1>7. HandlerPlace'
  BY Parts, <1>1, <1>3, <1>2, Ids DEF HandlerPlace, Handles, Handling, Own
<1>8. OneConnection'
  BY Parts, <1>1, <1>3, <1>2 DEF OneConnection, Own
<1>9. Queue'
  <2>1. SrvEvent("CONNECT_REQUEST", c) \in SrvEventSet
    BY DEF SrvEventSet, SrvEvent, SrvEventTypes
  <2>2. spc # "on_connect_request" /\ sconn[c] = "none"
    BY Parts, <1>1, <1>3, Ids DEF HandlerPlace, Place, ServerPlace,
       BeforeAccept
  <2>3. \A e \in SrvEventSet : EventDue(e) => EventDue(e)'
    BY <1>1, <1>2, FunctionTypes, Parts DEF EventDue, SrvEventSet, SrvEvent,
       Own
  <2>4. \A e \in SrvEventSet : e.type = "CONNECT_REQUEST" /\ e.id = c
                                => EventDue(e)'
    BY <1>2, <2>2 DEF EventDue
  <2>5. \A i \in 1 .. Len(srvEvents) :
          Removal(i) \/ srvEvents[i].type = "DISCONNECTED"
    BY <1>1, <1>3, <2>2, Ids DEF EventDue, Removal
  <2>6. \A d \in Clients : cm'[d] \in {"disconnected", "closed"}
                           => cm[d] \in {"disconnected", "closed"}
    BY <1>2 DEF Own
  <2> QED BY <1>1, <1>2, <2>1, <2>3, <2>4, <2>5, <2>6, QueueGrows
<1>10. ProxyPlace'
  BY Parts, <1>2 DEF ProxyPlace
<1> QED BY <1>4, <1>5, <1>6, <1>7, <1>8, <1>9, <1>10 DEF SeqInv

(* The ESTABLISHED event comes to an empty channel.                        *)
LEMMA SeqCmRtu ==
  ASSUME Ready, NEW c \in Clients, CmStep(c), CmRtu(c)
  PROVE  SeqInv'
<1> USE DEF cmVars, netVars, clientVars, serverVars, workerVars, proxyVars, Out
<1>1. c \in rtu /\ TellServer("ESTABLISHED", c)
  BY Parts DEF CmRtu, SrvUp, HandlerPlace
<1>2. cm[c] = "connected" /\ wpc[c] = "none" /\ spc # "established"
  BY Parts, <1>1 DEF Place, ServerPlace
<1>3. \A i \in 1 .. Len(srvEvents) : Removal(i)
  BY <1>1, <1>2, OnlyRemovals
<1>4. SrvEvent("ESTABLISHED", c) \in SrvEventSet
  BY DEF SrvEventSet, SrvEvent, SrvEventTypes
<1>5. /\ rtu' = rtu \ {c}
      /\ srvEvents' = Append(srvEvents, SrvEvent("ESTABLISHED", c))
      /\ UNCHANGED <<cm, cliEvents, netVars, clientVars, serverVars,
                    workerVars, proxyVars>>
      /\ \A d \in Clients : d # c => Own(d)
  BY Parts, <1>1, <1>2, <1>3, <1>4, FunctionTypes DEF CmRtu, TellServer,
     CmStep, Own
<1>6. \A d \in Clients : d # c => cm[d] \in Out
  BY Parts, <1>1, <1>2, <1>3, <1>4, Alone
<1>7. \A d \in Clients : d # c => Place(d)'
  BY Parts, <1>5, <1>6, Resting
<1>8. Place(c)'
  <2>1. ServerPlace(c)' /\ WorkerPlace(c)'
    BY Parts, <1>1, <1>2, <1>3, <1>4, <1>5 DEF Place, ServerPlace,
       BeforeAccept, BeforeConnection, Disconnect, Handling, TookEvent,
       Delivered, WorkerPlace, One
  <2>2. ClientPlace(c)' /\ ClientEvent(c)' /\ Sent(c)' /\ Accounted(c)' /\ Succeeded(c)'
    BY Parts, <1>5 DEF Place, ClientPlace, ClientEvent, Sent, Accounted,
       Succeeded
  <2> QED BY <2>1, <2>2 DEF Place
<1>9. OneActive'
  BY Parts, <1>1, <1>2, <1>3, <1>4, <1>5, <1>6 DEF OneActive, Active, Own
<1>10. Queue'
  <2>1. \A e \in SrvEventSet : EventDue(e) => EventDue(e)'
    BY <1>5 DEF EventDue
  <2>2. \A e \in SrvEventSet : e.type = "ESTABLISHED" /\ e.id = c => EventDue(e)'
    BY <1>2, <1>5 DEF EventDue
  <2> QED BY <1>1, <1>3, <1>4, <1>5, <2>1, <2>2, QueueGrows
<1>11. HandlerPlace' /\ ProxyPlace' /\ OneConnection'
  BY Parts, <1>5 DEF HandlerPlace, Handles, ProxyPlace, OneConnection
<1> QED BY <1>7, <1>8, <1>9, <1>10, <1>11 DEF SeqInv

(* So does the DISCONNECTED event: the worker has answered.                *)
LEMMA SeqCmDreq ==
  ASSUME Ready, NEW c \in Clients, CmStep(c), CmDreq(c)
  PROVE  SeqInv'
<1> USE DEF cmVars, netVars, clientVars, serverVars, workerVars, proxyVars, Out
<1>1. cm[c] = "disconnecting" /\ TellServer("DISCONNECTED", c)
  BY Parts DEF CmDreq
<1>2. wpc[c] = "done" /\ sconn[c] = "live"
  BY Parts, <1>1 DEF Place, ServerPlace, Disconnect
<1>3. \A i \in 1 .. Len(srvEvents) : Removal(i)
  BY <1>1, <1>2, OnlyRemovals
<1>4. SrvEvent("DISCONNECTED", c) \in SrvEventSet
  BY DEF SrvEventSet, SrvEvent, SrvEventTypes
<1>5. /\ cm'[c] = "disconnected"
      /\ srvEvents' = Append(srvEvents, SrvEvent("DISCONNECTED", c))
      /\ UNCHANGED <<rtu, cliEvents, netVars, clientVars, serverVars,
                    workerVars, proxyVars>>
      /\ \A d \in Clients : d # c => Own(d)
  BY Parts, <1>1, <1>2, <1>3, <1>4, FunctionTypes DEF CmDreq, TellServer,
     CmStep, Own
<1>6. \A d \in Clients : d # c => cm[d] \in Out
  BY Parts, <1>1, <1>2, <1>3, <1>4, Alone
<1>7. \A d \in Clients : d # c => Place(d)'
  BY Parts, <1>5, <1>6, Resting
<1>8. Place(c)'
  <2>1. ClientPlace(c)' /\ ClientEvent(c)' /\ Sent(c)'
    BY Parts, <1>1, <1>5 DEF Place, ClientPlace, BeforeConnection,
       ClientEvent, Sent, Connected, Disconnect
  <2>2. Accounted(c)'
    BY Parts, <1>1, <1>5, Types DEF Place, Accounted, BeforeConnection, One
  <2>3. ServerPlace(c)' /\ WorkerPlace(c)'
    BY Parts, <1>1, <1>2, <1>3, <1>4, <1>5 DEF Place, ServerPlace,
       BeforeAccept, BeforeConnection, Disconnect, Handling, TookEvent,
       Delivered, WorkerPlace, One
  <2>4. Succeeded(c)'
    BY Parts, <1>5 DEF Place, Succeeded
  <2> QED BY <2>1, <2>2, <2>3, <2>4 DEF Place
<1>9. OneActive'
  BY Parts, <1>1, <1>2, <1>3, <1>4, <1>5, <1>6 DEF OneActive, Active, Own
<1>10. HandlerPlace'
  BY Parts, <1>1, <1>2, <1>6, <1>5, Ids DEF HandlerPlace, Handles, Handling,
     Own
<1>11. OneConnection'
  BY Parts, <1>1, <1>2, <1>6, <1>5 DEF OneConnection, Own
<1>12. Queue'
  <2>1. spc # "disconnected"
    BY Parts, <1>1, <1>2, Ids DEF HandlerPlace, OneConnection
  <2>2. \A e \in SrvEventSet : EventDue(e) => EventDue(e)'
    BY <1>1, <1>5, FunctionTypes, Parts DEF EventDue, SrvEventSet, SrvEvent,
       Own
  <2>3. \A e \in SrvEventSet : e.type = "DISCONNECTED" /\ e.id = c
                                => EventDue(e)'
    BY <1>2, <1>5, <2>1 DEF EventDue
  <2>4. \A d \in Clients : cm'[d] \in {"disconnected", "closed"}
                           => cm[d] \in {"disconnected", "closed"} \/ d = c
    BY <1>5 DEF Own
  <2> QED BY <1>1, <1>3, <1>4, <1>5, <2>2, <2>3, <2>4, QueueGrows
<1>13. ProxyPlace'
  BY Parts, <1>5 DEF ProxyPlace
<1> QED BY <1>7, <1>8, <1>9, <1>10, <1>11, <1>12, <1>13 DEF SeqInv

(* The send completes while the connection lives.                          *)
LEMMA SeqAckRequest ==
  ASSUME Ready, NEW c \in Clients, AckRequest(c)
  PROVE  SeqInv'
<1> USE DEF cmVars, netVars, clientVars, serverVars, workerVars, proxyVars, Out
<1>1. req[c] = "delivered"
  BY DEF AckRequest
<1>2. cm[c] = "connected"
  BY Parts, <1>1 DEF Place, Sent, Connected
<1>3. cconn[c] = "live" /\ cpc[c] = "loop"
  BY Parts, <1>1, <1>2, Alone DEF Place, ClientPlace, BeforeConnection
<1>4. /\ Len(Complete(ccq[c], Wc("SEND", TRUE, c)).wcs) = Len(ccq[c].wcs) + 1
      /\ \A i \in 1 .. Len(ccq[c].wcs) :
           Complete(ccq[c], Wc("SEND", TRUE, c)).wcs[i] = ccq[c].wcs[i]
      /\ Complete(ccq[c], Wc("SEND", TRUE, c)).wcs[Len(ccq[c].wcs) + 1].ok
  BY Parts, ClientCompletes
<1>5. /\ req'[c] = "acked"
      /\ ccq'[c] = Complete(ccq[c], Wc("SEND", TRUE, c))
      /\ UNCHANGED <<cmVars, rsp, cpc, ppc, pwc, cconn, num, crecv,
                    cregion, serverVars, workerVars, proxyVars>>
      /\ \A d \in Clients : d # c => Own(d)
  BY Parts, <1>1, <1>2, <1>3, <1>4, FunctionTypes DEF AckRequest, Own
<1>6. \A d \in Clients : d # c => Place(d)'
  BY Parts, <1>5, Elsewhere
<1>7. Place(c)'
  <2>1. ClientEvent(c)' /\ Sent(c)'
    BY Parts, <1>1, <1>2, <1>3, <1>5 DEF Place, ClientEvent, Sent,
       Connected, Disconnect, BeforeConnection
  <2>2. Accounted(c)'
    <3> DEFINE n == num[c]
               l == Len(ccq[c].wcs)
               h == One(ppc[c] = "handle")
               a == One(req[c] = "acked")
               b == One(cregion[c] # None)
    <3>1. n + l + h = a + b
      BY Parts, <1>2, <1>3 DEF Place, Accounted, BeforeConnection
    <3>2. n \in Nat /\ l \in Nat /\ h \in Nat /\ a \in Nat /\ b \in Nat
      BY Parts, Types DEF One
    <3>3. One(req[c] = "acked") = 0 /\ One(req'[c] = "acked") = 1
      BY <1>1, <1>5 DEF One
    <3>4. One(req'[c] = "acked") + One(cregion'[c] # None) = (a + 1) + b
      BY <1>5, <3>3
    <3>5. num'[c] + Len(ccq'[c].wcs) + One(ppc'[c] = "handle") = n + (l + 1) + h
      BY <1>4, <1>5
    <3> HIDE DEF n, l, h, a, b
    <3>6. n + (l + 1) + h = (a + 1) + b
      BY <3>1, <3>2, OneMore
    <3> QED BY <3>4, <3>5, <3>6 DEF Accounted
  <2>3. Succeeded(c)'
    <3>1. Len(ccq'[c].wcs) = Len(ccq[c].wcs) + 1
      BY <1>4, <1>5
    <3>2. ASSUME NEW i \in 1 .. Len(ccq'[c].wcs) PROVE ccq'[c].wcs[i].ok
      <4>1. CASE i = Len(ccq[c].wcs) + 1
        BY <1>4, <1>5, <4>1
      <4>2. CASE i # Len(ccq[c].wcs) + 1
        <5>1. i \in 1 .. Len(ccq[c].wcs)
          BY Types, <3>1, <4>2
        <5> QED BY Parts, <1>4, <1>5, <5>1 DEF Place, Succeeded
      <4> QED BY <4>1, <4>2
    <3> QED BY Parts, <1>5, <3>2 DEF Place, Succeeded
  <2>4. ServerPlace(c)' /\ WorkerPlace(c)'
    BY Parts, <1>1, <1>2, <1>5 DEF Place, ServerPlace, BeforeAccept,
       BeforeConnection, Disconnect, Handling, TookEvent, Delivered,
       WorkerPlace, One
  <2>5. ClientPlace(c)'
    BY Parts, <1>5 DEF Place, ClientPlace
  <2> QED BY <2>1, <2>2, <2>3, <2>4, <2>5 DEF Place
<1>8. OneActive'
  BY Parts, <1>1, <1>2, <1>3, <1>4, <1>5 DEF OneActive, Active, Own
<1>9. HandlerPlace' /\ ProxyPlace' /\ OneConnection' /\ Queue'
  BY Parts, <1>1, <1>2, <1>3, <1>4, <1>5, Quiet
<1> QED BY <1>6, <1>7, <1>8, <1>9 DEF SeqInv

(* The request arrives while the branch waits for it, and wakes it.        *)
LEMMA SeqDeliverRequest ==
  ASSUME Ready, NEW c \in Clients, DeliverRequest(c)
  PROVE  SeqInv'
<1> USE DEF cmVars, netVars, clientVars, serverVars, workerVars, proxyVars, Out
<1>1. req[c] = "posted" /\ sconn[c] = "live" /\ srecv[c]
  BY DEF DeliverRequest, ServerQpReady
<1>2. cm[c] = "connected" /\ wpc[c] = "none"
  BY Parts, <1>1 DEF Place, Sent, Connected, WorkerPlace, Delivered
<1>3. spc \in Handling /\ TookEvent("CONNECT_REQUEST", c)
  BY Parts, <1>1, <1>2 DEF Place, ServerPlace, Delivered
<1>4. event_copy.id = c /\ Handles(c)
  BY Parts, <1>1, <1>2, <1>3 DEF TookEvent, HandlerPlace
<1>5. /\ spc = "get_cq_event" /\ c \in ctxConns
      /\ Len(scq.wcs) = 0 /\ scq.armed /\ scq.events = 0
  BY Parts, <1>1, <1>2, <1>3, <1>4 DEF Handles
<1>6. LET q == Complete(scq, Wc("RECV", TRUE, c))
      IN  Len(q.wcs) = 1 /\ q.wcs[1] = Wc("RECV", TRUE, c) /\ q.events = 1
  <2>1. Wc("RECV", TRUE, c) \in ServerWcs
    BY DEF Wc, ServerWcs, WorkCompletion
  <2> QED BY Parts, <1>5, <2>1, ServerCompletesFirst
<1>7. /\ req'[c] = "delivered"
      /\ srecv'[c] = FALSE
      /\ recvRegion'[c] = c
      /\ scq' = Complete(scq, Wc("RECV", TRUE, c))
      /\ UNCHANGED <<cmVars, rsp, clientVars, spc, event_copy, ctx,
                    ctxConns, sconn, sendRegion, wc, sock, cbuf,
                    sock_rdma_data, workerVars, proxyVars>>
      /\ \A d \in Clients : d # c => Own(d)
  BY Parts, <1>1, <1>2, <1>3, <1>4, <1>5, <1>6, FunctionTypes DEF
     DeliverRequest, ServerCompletes, Own
<1>8. \A d \in Clients : d # c => cm[d] \in Out
  BY Parts, <1>1, <1>2, <1>3, <1>4, <1>5, <1>6, Alone
<1>9. \A d \in Clients : d # c => Place(d)'
  BY Parts, <1>7, <1>8, Resting
<1>10. Place(c)'
  <2>1. ClientEvent(c)' /\ Sent(c)'
    BY Parts, <1>1, <1>2, <1>4, <1>7 DEF Place, ClientEvent, Sent,
       Connected, Disconnect, BeforeConnection
  <2>2. Accounted(c)'
    BY Parts, <1>1, <1>2, <1>4, <1>7, Types DEF Place, Accounted,
       BeforeConnection, One
  <2>3. WorkerPlace(c)'
    BY Parts, <1>1, <1>2, <1>3, <1>4, <1>5, <1>7 DEF Place, WorkerPlace,
       TookEvent, Delivered, One
  <2>4. ServerPlace(c)'
    <3>1. /\ rsp[c] = 0 /\ crecv[c] /\ (c \in rtu => spc # "established")
          /\ TookEvent("CONNECT_REQUEST", c)
      BY Parts, <1>2, <1>3 DEF Place, ServerPlace
    <3>2. srecv'[c] <=> req'[c] \in {"none", "posted"}
      BY <1>7
    <3>3. spc \in Handling /\ TookEvent("CONNECT_REQUEST", c)'
      BY <1>3, <1>7 DEF TookEvent
    <3>4. cm'[c] = "connected" /\ wpc'[c] = "none" /\ sconn'[c] = "live" /\ rsp'[c] = 0 /\ crecv'[c]
      BY <1>1, <1>2, <1>7, <3>1
    <3> QED BY <1>5, <1>7, <3>1, <3>2, <3>3, <3>4
            DEF ServerPlace, BeforeAccept, BeforeConnection, Disconnect
  <2>5. ClientPlace(c)' /\ Succeeded(c)'
    BY Parts, <1>7 DEF Place, ClientPlace, Succeeded
  <2> QED BY <2>1, <2>2, <2>3, <2>4, <2>5 DEF Place
<1>11. OneActive'
  BY Parts, <1>1, <1>2, <1>3, <1>4, <1>5, <1>6, <1>7, <1>8 DEF OneActive,
     Active, Own
<1>12. HandlerPlace'
  BY Parts, <1>1, <1>2, <1>3, <1>4, <1>5, <1>6, <1>8, <1>7, Ids DEF
     HandlerPlace, Handles, Handling, Own, Wc
<1>13. ProxyPlace' /\ OneConnection' /\ Queue'
  BY Parts, <1>7 DEF ProxyPlace, OneConnection, Queue, EventDue, Removal
<1> QED BY <1>9, <1>10, <1>11, <1>12, <1>13 DEF SeqInv

(* The response finds the receive, and holds the answer to the request.    *)
LEMMA SeqDeliverResponse ==
  ASSUME Ready, NEW c \in Clients, DeliverResponse(c)
  PROVE  SeqInv'
<1> USE DEF cmVars, netVars, clientVars, serverVars, workerVars, proxyVars, Out
<1>1. rsp[c] > 0 /\ cconn[c] = "live" /\ crecv[c]
  BY DEF DeliverResponse, ClientQpReady
<1>2. wpc[c] = "done" /\ cregion[c] = None
  BY Parts, <1>1, Types DEF Place, ServerPlace, WorkerPlace, WorkerPcs,
       CmStates, BeforeAccept, BeforeConnection, Disconnect, One
<1>3. cm[c] = "connected" /\ rsp[c] = 1 /\ sendRegion[c] \in Answers(c)
  BY Parts, <1>1, <1>2, Types, FabricAssumption DEF Place, Sent, ServerPlace,
       WorkerPlace, CmStates, BeforeAccept, BeforeConnection, Disconnect, One
<1>4. spc \notin Handling
  BY Parts, <1>1, <1>2, <1>3, Ids, Alone DEF HandlerPlace, Handles
<1>5. /\ Len(Complete(ccq[c], Wc("RECV", TRUE, c)).wcs) = Len(ccq[c].wcs) + 1
      /\ \A i \in 1 .. Len(ccq[c].wcs) :
           Complete(ccq[c], Wc("RECV", TRUE, c)).wcs[i] = ccq[c].wcs[i]
      /\ Complete(ccq[c], Wc("RECV", TRUE, c)).wcs[Len(ccq[c].wcs) + 1].ok
  BY Parts, ClientCompletes
<1>6. sendRegion[c] # None /\ cpc[c] = "loop"
  BY Parts, <1>1, <1>2, <1>3, <1>4, <1>5, FabricAssumption, Alone DEF Answers
<1>7. /\ rsp'[c] = 0
      /\ ccq'[c] = Complete(ccq[c], Wc("RECV", TRUE, c))
      /\ crecv'[c] = FALSE
      /\ cregion'[c] = sendRegion[c]
      /\ UNCHANGED <<cmVars, req, cpc, ppc, pwc, cconn, num, spc,
                    event_copy, ctx, ctxConns, sconn, srecv,
                    recvRegion, sendRegion, wc, sock, cbuf,
                    sock_rdma_data, workerVars, proxyVars>>
      /\ \A d \in Clients : d # c => Own(d)
  BY Parts, <1>1, <1>2, <1>3, <1>4, <1>5, <1>6, FunctionTypes DEF
     DeliverResponse, ServerCompletes, Own
<1>8. \A d \in Clients : d # c => cm[d] \in Out
  BY Parts, <1>1, <1>2, <1>3, <1>4, <1>5, <1>6, Alone
<1>9. \A d \in Clients : d # c => Place(d)'
  BY Parts, <1>7, <1>8, Resting
<1>10. Place(c)'
  <2>1. Sent(c)'
    BY Parts, <1>1, <1>2, <1>3, <1>6, <1>7 DEF Place, Sent, Connected,
       Disconnect, BeforeConnection
  <2>2. Accounted(c)'
    <3> DEFINE n == num[c]
               l == Len(ccq[c].wcs)
               h == One(ppc[c] = "handle")
               a == One(req[c] = "acked")
               b == One(cregion[c] # None)
    <3>1. n + l + h = a + b
      BY Parts, <1>2, <1>3 DEF Place, Accounted, BeforeConnection
    <3>2. n \in Nat /\ l \in Nat /\ h \in Nat /\ a \in Nat /\ b \in Nat
      BY Parts, Types DEF One
    <3>3. One(cregion[c] # None) = 0 /\ One(cregion'[c] # None) = 1
      BY <1>2, <1>6, <1>7 DEF One
    <3>4. One(req'[c] = "acked") + One(cregion'[c] # None) = a + (b + 1)
      BY <1>7, <3>3
    <3>5. num'[c] + Len(ccq'[c].wcs) + One(ppc'[c] = "handle") = n + (l + 1) + h
      BY <1>5, <1>7
    <3> HIDE DEF n, l, h, a, b
    <3>6. n + (l + 1) + h = a + (b + 1)
      BY <3>1, <3>2, OneMore
    <3> QED BY <3>4, <3>5, <3>6 DEF Accounted
  <2>3. Succeeded(c)'
    <3>1. Len(ccq'[c].wcs) = Len(ccq[c].wcs) + 1
      BY <1>5, <1>7
    <3>2. ASSUME NEW i \in 1 .. Len(ccq'[c].wcs) PROVE ccq'[c].wcs[i].ok
      <4>1. CASE i = Len(ccq[c].wcs) + 1
        BY <1>5, <1>7, <4>1
      <4>2. CASE i # Len(ccq[c].wcs) + 1
        <5>1. i \in 1 .. Len(ccq[c].wcs)
          BY Types, <3>1, <4>2
        <5> QED BY Parts, <1>5, <1>7, <5>1 DEF Place, Succeeded
      <4> QED BY <4>1, <4>2
    <3> QED BY Parts, <1>7, <3>2 DEF Place, Succeeded
  <2>4. ServerPlace(c)'
    BY Parts, <1>1, <1>2, <1>3, <1>4, <1>7 DEF Place, ServerPlace,
       BeforeAccept, BeforeConnection, Disconnect, Handling, TookEvent,
       Delivered
  <2>5. WorkerPlace(c)'
    BY Parts, <1>1, <1>2, <1>3, <1>4, <1>5, <1>6, <1>7, <1>8, Types DEF
       Place, WorkerPlace, TookEvent, Delivered, One, Connected, Disconnect,
       BeforeConnection, BeforeAccept
  <2>6. ClientPlace(c)' /\ ClientEvent(c)'
    BY Parts, <1>7 DEF Place, ClientPlace, ClientEvent
  <2> QED BY <2>1, <2>2, <2>3, <2>4, <2>5, <2>6 DEF Place
<1>11. OneActive'
  BY Parts, <1>1, <1>2, <1>3, <1>4, <1>5, <1>6, <1>7, <1>8 DEF OneActive,
     Active, Own
<1>12. HandlerPlace'
  BY Parts, <1>2, <1>3, <1>4, <1>8, <1>7, Ids DEF HandlerPlace, Handles,
     Handling, Own
<1>13. ProxyPlace' /\ OneConnection' /\ Queue'
  BY Parts, <1>7 DEF ProxyPlace, OneConnection, Queue, EventDue, Removal
<1> QED BY <1>9, <1>10, <1>11, <1>12, <1>13 DEF SeqInv

(* The worker finds its own event, and a live connection.                  *)
LEMMA SeqWorkerStart ==
  ASSUME Ready, NEW c \in Clients, WorkerStart(c), SrvUp'
  PROVE  SeqInv'
<1> USE DEF cmVars, netVars, clientVars, serverVars, workerVars, proxyVars, Out
<1>1. wpc[c] = "start"
  BY DEF WorkerStart
<1>2. /\ cm[c] = "connected" /\ rsp[c] = 0 /\ crecv[c] /\ sconn[c] = "live"
      /\ sock_rdma_data \in Answers(c)
      /\ \/ TookEvent("ESTABLISHED", c) /\ spc = "get_event"
         \/ spc = "unknown"
  BY Parts, <1>1 DEF Place, WorkerPlace, ServerPlace
<1>3. event_copy.id = c
  <2>1. wconn' = [wconn EXCEPT ![c] = event_copy.id] \/ spc' = "exited"
    BY DEF WorkerStart
  <2>2. CASE spc = "unknown"
    <3>1. event_copy.type = "DEVICE_REMOVAL" /\ event_copy \in SrvEventSet
      BY Parts, <2>2 DEF HandlerPlace, TypeInv, TypeOK, ServerTypeOK
    <3>2. event_copy.id \notin Clients
      BY <3>1, FabricAssumption DEF SrvEventSet, SrvEvent
    <3> QED BY <3>2 DEF WorkerStart, SrvUp
  <2> QED BY <1>2, <2>2 DEF TookEvent
<1>4. /\ wpc'[c] = "copy"
      /\ wconn'[c] = c
      /\ UNCHANGED <<cmVars, netVars, clientVars, serverVars, proxyVars>>
      /\ \A d \in Clients : d # c => Own(d)
  BY Parts, <1>1, <1>2, <1>3, FunctionTypes DEF WorkerStart, Own
<1>5. \A d \in Clients : d # c => cm[d] \in Out
  BY Parts, <1>1, <1>2, <1>3, Alone
<1>6. \A d \in Clients : d # c => Place(d)'
  BY Parts, <1>4, <1>5, Resting
<1>7. Place(c)'
  <2>1. ServerPlace(c)' /\ WorkerPlace(c)'
    BY Parts, <1>1, <1>2, <1>3, <1>4 DEF Place, ServerPlace, BeforeAccept,
       BeforeConnection, Disconnect, Handling, TookEvent, Delivered,
       WorkerPlace, One
  <2>2. ClientPlace(c)' /\ ClientEvent(c)' /\ Sent(c)' /\ Accounted(c)' /\ Succeeded(c)'
    BY Parts, <1>4 DEF Place, ClientPlace, ClientEvent, Sent, Accounted,
       Succeeded
  <2> QED BY <2>1, <2>2 DEF Place
<1>8. OneActive'
  BY Parts, <1>1, <1>2, <1>3, <1>4, <1>5 DEF OneActive, Active, Own
<1>9. HandlerPlace'
  BY Parts, <1>1, <1>2, <1>3, <1>5, <1>4, Ids DEF HandlerPlace, Handles,
     Handling, Own
<1>10. OneConnection'
  BY Parts, <1>1, <1>2, <1>5, <1>4 DEF OneConnection, Own
<1>11. Queue'
  BY Parts, <1>1, <1>2, <1>5, <1>4, Ids DEF Queue, EventDue, Removal, Own
<1>12. ProxyPlace'
  BY Parts, <1>4 DEF ProxyPlace
<1> QED BY <1>6, <1>7, <1>8, <1>9, <1>10, <1>11, <1>12 DEF SeqInv

(* sock_rdma_data still is the answer to the worker's client.              *)
LEMMA SeqWorkerCopy ==
  ASSUME Ready, NEW c \in Clients, WorkerCopy(c)
  PROVE  SeqInv'
<1> USE DEF cmVars, netVars, clientVars, serverVars, workerVars, proxyVars, Out
<1>1. wpc[c] = "copy"
  BY DEF WorkerCopy
<1>2. /\ cm[c] = "connected" /\ rsp[c] = 0 /\ crecv[c] /\ sconn[c] = "live"
      /\ sock_rdma_data \in Answers(c)
      /\ \/ TookEvent("ESTABLISHED", c) /\ spc = "get_event"
         \/ spc = "unknown"
  BY Parts, <1>1 DEF Place, WorkerPlace, ServerPlace
<1>3. wconn[c] = c /\ c # None
  BY Parts, <1>1, <1>2, FabricAssumption DEF Place, WorkerPlace
<1>4. /\ sendRegion'[c] \in Answers(c)
      /\ wpc'[c] = "post"
      /\ UNCHANGED <<cmVars, netVars, clientVars, spc, event_copy, ctx,
                    ctxConns, scq, sconn, srecv, recvRegion, wc,
                    sock, cbuf, sock_rdma_data, wconn, proxyVars>>
      /\ \A d \in Clients : d # c => Own(d)
  BY Parts, <1>1, <1>2, <1>3, FunctionTypes, FabricAssumption
     DEF WorkerCopy, Answers, Own
<1>5. \A d \in Clients : d # c => cm[d] \in Out
  BY Parts, <1>1, <1>2, <1>3, Alone
<1>6. \A d \in Clients : d # c => Place(d)'
  BY Parts, <1>4, <1>5, Resting
<1>7. Place(c)'
  <2>1. ServerPlace(c)' /\ WorkerPlace(c)'
    BY Parts, <1>1, <1>2, <1>3, <1>4 DEF Place, ServerPlace, BeforeAccept,
       BeforeConnection, Disconnect, Handling, TookEvent, Delivered,
       WorkerPlace, One
  <2>2. ClientPlace(c)' /\ ClientEvent(c)' /\ Sent(c)' /\ Accounted(c)' /\ Succeeded(c)'
    BY Parts, <1>4 DEF Place, ClientPlace, ClientEvent, Sent, Accounted,
       Succeeded
  <2> QED BY <2>1, <2>2 DEF Place
<1>8. OneActive'
  BY Parts, <1>1, <1>2, <1>3, <1>4, <1>5 DEF OneActive, Active, Own
<1>9. HandlerPlace'
  BY Parts, <1>1, <1>2, <1>5, <1>4, Ids DEF HandlerPlace, Handles, Handling,
     Own
<1>10. OneConnection'
  BY Parts, <1>1, <1>2, <1>5, <1>4 DEF OneConnection, Own
<1>11. Queue'
  BY Parts, <1>1, <1>2, <1>5, <1>4, Ids DEF Queue, EventDue, Removal, Own
<1>12. ProxyPlace'
  BY Parts, <1>4 DEF ProxyPlace
<1> QED BY <1>6, <1>7, <1>8, <1>9, <1>10, <1>11, <1>12 DEF SeqInv

(* The response is the only one posted.                                    *)
LEMMA SeqWorkerPost ==
  ASSUME Ready, NEW c \in Clients, WorkerPost(c)
  PROVE  SeqInv'
<1> USE DEF cmVars, netVars, clientVars, serverVars, workerVars, proxyVars, Out
<1>1. wpc[c] = "post"
  BY DEF WorkerPost
<1>2. /\ cm[c] = "connected" /\ rsp[c] = 0 /\ crecv[c] /\ sconn[c] = "live"
      /\ sock_rdma_data \in Answers(c)
      /\ \/ TookEvent("ESTABLISHED", c) /\ spc = "get_event"
         \/ spc = "unknown"
  BY Parts, <1>1 DEF Place, WorkerPlace, ServerPlace
<1>3. wconn[c] = c /\ c # None
  BY Parts, <1>1, <1>2, FabricAssumption DEF Place, WorkerPlace
<1>4. cregion[c] = None
  BY Parts, <1>2 DEF Place, Sent, BeforeConnection
<1>5. /\ rsp'[c] = 1
      /\ wpc'[c] = "done"
      /\ UNCHANGED <<cmVars, req, clientVars, serverVars, wconn,
                    proxyVars>>
      /\ \A d \in Clients : d # c => Own(d)
  BY Parts, <1>1, <1>2, <1>3, <1>4, FunctionTypes DEF WorkerPost, Own
<1>6. \A d \in Clients : d # c => cm[d] \in Out
  BY Parts, <1>1, <1>2, <1>3, <1>4, Alone
<1>7. \A d \in Clients : d # c => Place(d)'
  BY Parts, <1>5, <1>6, Resting
<1>8. Place(c)'
  <2>1. ServerPlace(c)' /\ WorkerPlace(c)'
    BY Parts, <1>1, <1>2, <1>3, <1>4, <1>5 DEF Place, ServerPlace,
       BeforeAccept, BeforeConnection, Disconnect, Handling, TookEvent,
       Delivered, WorkerPlace, One
  <2>2. ClientPlace(c)' /\ ClientEvent(c)' /\ Sent(c)' /\ Accounted(c)' /\ Succeeded(c)'
    BY Parts, <1>5 DEF Place, ClientPlace, ClientEvent, Sent, Accounted,
       Succeeded
  <2> QED BY <2>1, <2>2 DEF Place
<1>9. OneActive'
  BY Parts, <1>1, <1>2, <1>3, <1>4, <1>5, <1>6 DEF OneActive, Active, Own
<1>10. HandlerPlace'
  BY Parts, <1>1, <1>2, <1>6, <1>5, Ids DEF HandlerPlace, Handles, Handling,
     Own
<1>11. OneConnection'
  BY Parts, <1>1, <1>2, <1>6, <1>5 DEF OneConnection, Own
<1>12. Queue'
  BY Parts, <1>1, <1>2, <1>6, <1>5, Ids DEF Queue, EventDue, Removal, Own
<1>13. ProxyPlace'
  BY Parts, <1>5 DEF ProxyPlace
<1> QED BY <1>7, <1>8, <1>9, <1>10, <1>11, <1>12, <1>13 DEF SeqInv

(* The event is that of the request.                                       *)
LEMMA SeqServerGetCqEvent ==
  ASSUME Ready, NEW c \in Clients, event_copy.id = c, ServerGetCqEvent
  PROVE  SeqInv'
<1> USE DEF cmVars, netVars, clientVars, serverVars, workerVars, proxyVars, Out
<1>1. spc = "get_cq_event" /\ scq.events > 0
  BY DEF ServerGetCqEvent, HasEvent
<1>2. /\ event_copy.type = "CONNECT_REQUEST" /\ Handles(c) /\ ~srecv[c]
      /\ cm[c] = "connected" /\ wpc[c] = "none" /\ sconn[c] = "live"
      /\ rsp[c] = 0 /\ crecv[c] /\ Delivered(c) /\ recvRegion[c] = c
  BY <1>1, Forwarding DEF Handling
<1>3. TakeEvent(scq).wcs = scq.wcs
  BY Parts, ServerCq
<1>4. /\ spc' = "req_notify"
      /\ scq'.wcs = scq.wcs
      /\ UNCHANGED <<cmVars, netVars, clientVars, event_copy, ctx,
                    ctxConns, sconn, srecv, recvRegion,
                    sendRegion, wc, sock, cbuf, sock_rdma_data,
                    workerVars, proxyVars>>
      /\ \A d \in Clients : d # c => Own(d)
  BY Parts, <1>1, <1>2, <1>3, FunctionTypes DEF ServerGetCqEvent, Own
<1>5. \A d \in Clients : d # c => cm[d] \in Out
  BY Parts, <1>1, <1>2, <1>3, Alone
<1>6. \A d \in Clients : d # c => Place(d)'
  BY Parts, <1>4, <1>5, Resting
<1>7. Place(c)'
  <2>1. ServerPlace(c)' /\ WorkerPlace(c)'
    BY Parts, <1>1, <1>2, <1>4 DEF Place, ServerPlace, BeforeAccept,
       BeforeConnection, Disconnect, Handling, TookEvent, Delivered,
       WorkerPlace, One
  <2>2. ClientPlace(c)' /\ ClientEvent(c)' /\ Sent(c)' /\ Accounted(c)' /\ Succeeded(c)'
    BY Parts, <1>4 DEF Place, ClientPlace, ClientEvent, Sent, Accounted,
       Succeeded
  <2> QED BY <2>1, <2>2 DEF Place
<1>8. OneActive'
  BY Parts, <1>1, <1>2, <1>3, <1>4, <1>5 DEF OneActive, Active, Own
<1>9. HandlerPlace'
  BY Parts, <1>1, <1>2, <1>3, <1>5, <1>4, Ids DEF HandlerPlace, Handles,
     Handling, Own
<1>10. ProxyPlace'
  BY Parts, <1>1, <1>2, <1>5, <1>4 DEF ProxyPlace, Handling
<1>11. Queue'
  BY Parts, <1>1, <1>2, <1>5, <1>4, Ids DEF Queue, EventDue, Removal, Own
<1>12. OneConnection'
  BY Parts, <1>4 DEF OneConnection
<1> QED BY <1>6, <1>7, <1>8, <1>9, <1>10, <1>11, <1>12 DEF SeqInv

(* The main loop arms the CQ.                                              *)
LEMMA SeqServerReqNotify ==
  ASSUME Ready, NEW c \in Clients, event_copy.id = c, ServerReqNotify
  PROVE  SeqInv'
<1> USE DEF cmVars, netVars, clientVars, serverVars, workerVars, proxyVars, Out
<1>1. spc = "req_notify"
  BY DEF ServerReqNotify
<1>2. /\ event_copy.type = "CONNECT_REQUEST" /\ Handles(c) /\ ~srecv[c]
      /\ cm[c] = "connected" /\ wpc[c] = "none" /\ sconn[c] = "live"
      /\ rsp[c] = 0 /\ crecv[c] /\ Delivered(c) /\ recvRegion[c] = c
  BY <1>1, Forwarding DEF Handling
<1>3. Arm(scq).wcs = scq.wcs
  BY Parts, ServerCq
<1>4. /\ spc' = "poll"
      /\ scq'.wcs = scq.wcs
      /\ UNCHANGED <<cmVars, netVars, clientVars, event_copy, ctx,
                    ctxConns, sconn, srecv, recvRegion,
                    sendRegion, wc, sock, cbuf, sock_rdma_data,
                    workerVars, proxyVars>>
      /\ \A d \in Clients : d # c => Own(d)
  BY Parts, <1>1, <1>2, <1>3, FunctionTypes DEF ServerReqNotify, Own
<1>5. \A d \in Clients : d # c => cm[d] \in Out
  BY Parts, <1>1, <1>2, <1>3, Alone
<1>6. \A d \in Clients : d # c => Place(d)'
  BY Parts, <1>4, <1>5, Resting
<1>7. Place(c)'
  <2>1. ServerPlace(c)' /\ WorkerPlace(c)'
    BY Parts, <1>1, <1>2, <1>4 DEF Place, ServerPlace, BeforeAccept,
       BeforeConnection, Disconnect, Handling, TookEvent, Delivered,
       WorkerPlace, One
  <2>2. ClientPlace(c)' /\ ClientEvent(c)' /\ Sent(c)' /\ Accounted(c)' /\ Succeeded(c)'
    BY Parts, <1>4 DEF Place, ClientPlace, ClientEvent, Sent, Accounted,
       Succeeded
  <2> QED BY <2>1, <2>2 DEF Place
<1>8. OneActive'
  BY Parts, <1>1, <1>2, <1>3, <1>4, <1>5 DEF OneActive, Active, Own
<1>9. HandlerPlace'
  BY Parts, <1>1, <1>2, <1>3, <1>5, <1>4, Ids DEF HandlerPlace, Handles,
     Handling, Own
<1>10. ProxyPlace'
  BY Parts, <1>1, <1>2, <1>5, <1>4 DEF ProxyPlace, Handling
<1>11. Queue'
  BY Parts, <1>1, <1>2, <1>5, <1>4, Ids DEF Queue, EventDue, Removal, Own
<1>12. OneConnection'
  BY Parts, <1>4 DEF OneConnection
<1> QED BY <1>6, <1>7, <1>8, <1>9, <1>10, <1>11, <1>12 DEF SeqInv

(* The completion polled is the request's.                                 *)
LEMMA SeqServerPoll ==
  ASSUME Ready, NEW c \in Clients, event_copy.id = c, ServerPoll
  PROVE  SeqInv'
<1> USE DEF cmVars, netVars, clientVars, serverVars, workerVars, proxyVars, Out
<1>1. spc = "poll"
  BY DEF ServerPoll
<1>2. /\ event_copy.type = "CONNECT_REQUEST" /\ Handles(c) /\ ~srecv[c]
      /\ cm[c] = "connected" /\ wpc[c] = "none" /\ sconn[c] = "live"
      /\ rsp[c] = 0 /\ crecv[c] /\ Delivered(c) /\ recvRegion[c] = c
  BY <1>1, Forwarding DEF Handling
<1>3. /\ Len(scq.wcs) = 1 /\ scq.wcs[1].ok
      /\ scq.wcs[1].op = "RECV" /\ scq.wcs[1].conn = c
  BY Parts, <1>1, <1>2 DEF Handles
<1>4. HasCompletion(scq) /\ Oldest(scq) = scq.wcs[1]
  BY Parts, <1>1, <1>2, <1>3, ServerCq
<1>5. /\ spc' = "socket_connect"
      /\ TRUE
      /\ wc' = scq.wcs[1]
      /\ UNCHANGED <<cmVars, netVars, clientVars, event_copy, ctx,
                    ctxConns, sconn, srecv, recvRegion,
                    sendRegion, sock, cbuf, sock_rdma_data, workerVars,
                    proxyVars>>
      /\ \A d \in Clients : d # c => Own(d)
  BY Parts, <1>1, <1>2, <1>3, <1>4, FunctionTypes DEF ServerPoll, Own
<1>6. \A d \in Clients : d # c => cm[d] \in Out
  BY Parts, <1>1, <1>2, <1>3, <1>4, Alone
<1>7. \A d \in Clients : d # c => Place(d)'
  BY Parts, <1>5, <1>6, Resting
<1>8. Place(c)'
  <2>1. ServerPlace(c)' /\ WorkerPlace(c)'
    BY Parts, <1>1, <1>2, <1>5 DEF Place, ServerPlace, BeforeAccept,
       BeforeConnection, Disconnect, Handling, TookEvent, Delivered,
       WorkerPlace, One
  <2>2. ClientPlace(c)' /\ ClientEvent(c)' /\ Sent(c)' /\ Accounted(c)' /\ Succeeded(c)'
    BY Parts, <1>5 DEF Place, ClientPlace, ClientEvent, Sent, Accounted,
       Succeeded
  <2> QED BY <2>1, <2>2 DEF Place
<1>9. OneActive'
  BY Parts, <1>1, <1>2, <1>3, <1>4, <1>5, <1>6 DEF OneActive, Active, Own
<1>10. HandlerPlace'
  BY Parts, <1>1, <1>2, <1>3, <1>4, <1>6, <1>5, Ids DEF HandlerPlace,
     Handles, Handling, Own
<1>11. ProxyPlace'
  BY Parts, <1>1, <1>2, <1>6, <1>5 DEF ProxyPlace, Handling
<1>12. Queue'
  BY Parts, <1>1, <1>2, <1>6, <1>5, Ids DEF Queue, EventDue, Removal, Own
<1>13. OneConnection'
  BY Parts, <1>5 DEF OneConnection
<1> QED BY <1>7, <1>8, <1>9, <1>10, <1>11, <1>12, <1>13 DEF SeqInv

(* The socket is fresh.                                                    *)
LEMMA SeqSocketConnect ==
  ASSUME Ready, NEW c \in Clients, event_copy.id = c, SocketConnect, SrvUp'
  PROVE  SeqInv'
<1> USE DEF cmVars, netVars, clientVars, serverVars, workerVars, proxyVars, Out
<1>1. spc = "socket_connect"
  BY DEF SocketConnect
<1>2. /\ event_copy.type = "CONNECT_REQUEST" /\ Handles(c) /\ ~srecv[c]
      /\ cm[c] = "connected" /\ wpc[c] = "none" /\ sconn[c] = "live"
      /\ rsp[c] = 0 /\ crecv[c] /\ Delivered(c) /\ recvRegion[c] = c
  BY <1>1, Forwarding DEF Handling
<1>3. sock # "connected"
  BY Parts, <1>1, <1>2 DEF Handles
<1>4. /\ spc' = "send"
      /\ sock' = "connected"
      /\ UNCHANGED <<cmVars, netVars, clientVars, event_copy, ctx,
                    ctxConns, scq, sconn, srecv, recvRegion,
                    sendRegion, wc, cbuf, sock_rdma_data, workerVars,
                    proxyVars>>
      /\ \A d \in Clients : d # c => Own(d)
  BY Parts, <1>1, <1>2, <1>3, FunctionTypes DEF SocketConnect,
     ConnectsSocket, SrvUp, Own
<1>5. \A d \in Clients : d # c => cm[d] \in Out
  BY Parts, <1>1, <1>2, <1>3, Alone
<1>6. \A d \in Clients : d # c => Place(d)'
  BY Parts, <1>4, <1>5, Resting
<1>7. Place(c)'
  <2>1. ServerPlace(c)' /\ WorkerPlace(c)'
    BY Parts, <1>1, <1>2, <1>4 DEF Place, ServerPlace, BeforeAccept,
       BeforeConnection, Disconnect, Handling, TookEvent, Delivered,
       WorkerPlace, One
  <2>2. ClientPlace(c)' /\ ClientEvent(c)' /\ Sent(c)' /\ Accounted(c)' /\ Succeeded(c)'
    BY Parts, <1>4 DEF Place, ClientPlace, ClientEvent, Sent, Accounted,
       Succeeded
  <2> QED BY <2>1, <2>2 DEF Place
<1>8. OneActive'
  BY Parts, <1>1, <1>2, <1>3, <1>4, <1>5 DEF OneActive, Active, Own
<1>9. HandlerPlace'
  BY Parts, <1>1, <1>2, <1>3, <1>5, <1>4, Ids DEF HandlerPlace, Handles,
     Handling, Own
<1>10. ProxyPlace'
  BY Parts, <1>1, <1>3, <1>4 DEF ProxyPlace
<1>11. OneConnection'
  BY Parts, <1>2, <1>3, <1>5, <1>4 DEF OneConnection, Own
<1>12. Queue'
  BY Parts, <1>1, <1>2, <1>5, <1>4, Ids DEF Queue, EventDue, Removal, Own
<1> QED BY <1>6, <1>7, <1>8, <1>9, <1>10, <1>11, <1>12 DEF SeqInv

(* The request is sent to WANProxy once.                                   *)
LEMMA SeqSocketSend ==
  ASSUME Ready, NEW c \in Clients, event_copy.id = c, SocketSend
  PROVE  SeqInv'
<1> USE DEF cmVars, netVars, clientVars, serverVars, workerVars, proxyVars, Out
<1>1. spc = "send"
  BY DEF SocketSend
<1>2. /\ event_copy.type = "CONNECT_REQUEST" /\ Handles(c) /\ ~srecv[c]
      /\ cm[c] = "connected" /\ wpc[c] = "none" /\ sconn[c] = "live"
      /\ rsp[c] = 0 /\ crecv[c] /\ Delivered(c) /\ recvRegion[c] = c
  BY <1>1, Forwarding DEF Handling
<1>3. recvRegion[wc.conn] = c
  BY Parts, <1>1, <1>2 DEF Handles
<1>4. seen[c] = 0
  BY Parts, <1>1, <1>2, <1>3 DEF Handles
<1>5. /\ seen'[c] = seen[c] + 1
      /\ spc' = "read"
      /\ pending' = c
      /\ UNCHANGED <<cmVars, netVars, clientVars, event_copy, ctx,
                    ctxConns, scq, sconn, srecv, recvRegion,
                    sendRegion, wc, sock, cbuf, sock_rdma_data,
                    workerVars, reply>>
      /\ \A d \in Clients : d # c => Own(d)
  BY Parts, <1>1, <1>2, <1>3, <1>4, FunctionTypes DEF SocketSend, Own
<1>6. \A d \in Clients : d # c => cm[d] \in Out
  BY Parts, <1>1, <1>2, <1>3, <1>4, Alone
<1>7. \A d \in Clients : d # c => Place(d)'
  BY Parts, <1>5, <1>6, Resting
<1>8. Place(c)'
  <2>1. ServerPlace(c)' /\ WorkerPlace(c)'
    BY Parts, <1>1, <1>2, <1>4, <1>5 DEF Place, ServerPlace, BeforeAccept,
       BeforeConnection, Disconnect, Handling, TookEvent, Delivered,
       WorkerPlace, One
  <2>2. ClientPlace(c)' /\ ClientEvent(c)' /\ Sent(c)' /\ Accounted(c)' /\ Succeeded(c)'
    BY Parts, <1>5 DEF Place, ClientPlace, ClientEvent, Sent, Accounted,
       Succeeded
  <2> QED BY <2>1, <2>2 DEF Place
<1>9. OneActive'
  BY Parts, <1>1, <1>2, <1>3, <1>4, <1>5, <1>6 DEF OneActive, Active, Own
<1>10. HandlerPlace'
  BY Parts, <1>1, <1>2, <1>3, <1>4, <1>6, <1>5, Ids DEF HandlerPlace,
     Handles, Handling, Own
<1>11. ProxyPlace'
  BY Parts, <1>1, <1>2, <1>6, <1>5 DEF ProxyPlace, Handling
<1>12. Queue'
  BY Parts, <1>1, <1>2, <1>6, <1>5, Ids DEF Queue, EventDue, Removal, Own
<1>13. OneConnection'
  BY Parts, <1>5 DEF OneConnection
<1> QED BY <1>7, <1>8, <1>9, <1>10, <1>11, <1>12, <1>13 DEF SeqInv

(* The answer read is that of the request sent.                            *)
LEMMA SeqSocketRead ==
  ASSUME Ready, NEW c \in Clients, event_copy.id = c, SocketRead
  PROVE  SeqInv'
<1> USE DEF cmVars, netVars, clientVars, serverVars, workerVars, proxyVars, Out
<1>1. spc = "read" /\ reply # None
  BY DEF SocketRead
<1>2. /\ event_copy.type = "CONNECT_REQUEST" /\ Handles(c) /\ ~srecv[c]
      /\ cm[c] = "connected" /\ wpc[c] = "none" /\ sconn[c] = "live"
      /\ rsp[c] = 0 /\ crecv[c] /\ Delivered(c) /\ recvRegion[c] = c
  BY <1>1, Forwarding DEF Handling
<1>3. /\ reply \in Answers(c) /\ pending = None /\ sock = "connected"
      /\ sock_rdma_data' \in Answers(c)
  <2>1. reply \in Answers(c) /\ pending = None /\ cbuf = Empty
    BY Parts, <1>1, <1>2, FabricAssumption DEF ProxyPlace
  <2>2. sock_rdma_data' = reply
    BY <2>1 DEF SocketRead
  <2> QED BY Parts, <1>1, <1>2, <2>1, <2>2 DEF Handles
<1>4. /\ spc' = "get_event"
      /\ sock_rdma_data' \in Answers(c)
      /\ reply' = None
      /\ UNCHANGED <<cmVars, netVars, clientVars, event_copy, ctx,
                    ctxConns, scq, sconn, srecv, recvRegion,
                    sendRegion, wc, sock, workerVars, pending,
                    seen>>
      /\ \A d \in Clients : d # c => Own(d)
  BY Parts, <1>1, <1>2, <1>3, FunctionTypes DEF SocketRead, Own
<1>5. \A d \in Clients : d # c => cm[d] \in Out
  BY Parts, <1>1, <1>2, <1>3, Alone
<1>6. \A d \in Clients : d # c => Place(d)'
  BY Parts, <1>4, <1>5, Resting
<1>7. Place(c)'
  <2>1. ServerPlace(c)' /\ WorkerPlace(c)'
    BY Parts, <1>1, <1>2, <1>4 DEF Place, ServerPlace, BeforeAccept,
       BeforeConnection, Disconnect, Handling, TookEvent, Delivered,
       WorkerPlace, One
  <2>2. ClientPlace(c)' /\ ClientEvent(c)' /\ Sent(c)' /\ Accounted(c)' /\ Succeeded(c)'
    BY Parts, <1>4 DEF Place, ClientPlace, ClientEvent, Sent, Accounted,
       Succeeded
  <2> QED BY <2>1, <2>2 DEF Place
<1>8. OneActive'
  BY Parts, <1>1, <1>2, <1>3, <1>4, <1>5 DEF OneActive, Active, Own
<1>9. HandlerPlace'
  BY Parts, <1>1, <1>2, <1>5, <1>4, Ids DEF HandlerPlace, Handles, Handling,
     Own
<1>10. ProxyPlace'
  BY Parts, <1>1, <1>2, <1>3, <1>5, <1>4 DEF ProxyPlace, Handling
<1>11. Queue'
  BY Parts, <1>1, <1>2, <1>5, <1>4, Ids DEF Queue, EventDue, Removal, Own
<1>12. OneConnection'
  BY Parts, <1>4 DEF OneConnection
<1> QED BY <1>6, <1>7, <1>8, <1>9, <1>10, <1>11, <1>12 DEF SeqInv

(* The last connection is freed, so s_ctx is null and a new CQ is made.    *)
LEMMA SeqOnConnectRequest ==
  ASSUME Ready, NEW c \in Clients, event_copy.id = c, OnConnectRequest
  PROVE  SeqInv'
<1> USE DEF cmVars, netVars, clientVars, serverVars, workerVars, proxyVars, Out
<1>1. spc = "on_connect_request"
  BY DEF OnConnectRequest
<1>2. /\ event_copy.type = "CONNECT_REQUEST" /\ cm[c] = "requested"
      /\ \A d \in Clients : sconn[d] # "live"
  BY Parts, <1>1 DEF HandlerPlace
<1>3. ctx = FALSE /\ ctxConns = {} /\ sock # "connected"
  BY Parts, <1>1, <1>2 DEF OneConnection, TypeInv, TypeOK, ServerTypeOK
<1>4. /\ req[c] = "none" /\ wpc[c] = "none" /\ rsp[c] = 0 /\ c \notin rtu
      /\ seen[c] = 0
  BY Parts, <1>1, <1>2, <1>3 DEF Place, Sent, ServerPlace, Connected,
     Disconnect, BeforeAccept
<1>5. Len(NewCq.wcs) = 0 /\ NewCq.armed /\ NewCq.events = 0
  BY DEF NewCq
<1>6. /\ cm'[c] = "accepted"
      /\ sconn'[c] = "live"
      /\ srecv'[c] = TRUE
      /\ spc' = "get_cq_event"
      /\ ctx' = TRUE
      /\ ctxConns' = {c}
      /\ scq' = NewCq
      /\ UNCHANGED <<rtu, srvEvents, cliEvents, netVars, clientVars,
                    event_copy, recvRegion, sendRegion, wc, sock, cbuf,
                    sock_rdma_data, workerVars, proxyVars>>
      /\ \A d \in Clients : d # c => Own(d)
  BY Parts, <1>1, <1>2, <1>3, <1>4, <1>5, FunctionTypes DEF
     OnConnectRequest, ServerBuildContext, ServerPostReceives, Own
<1>7. \A d \in Clients : d # c => cm[d] \in Out
  BY Parts, <1>1, <1>2, <1>3, <1>4, <1>5, Alone
<1>8. \A d \in Clients : d # c => Place(d)'
  BY Parts, <1>6, <1>7, Resting
<1>9. Place(c)'
  <2>1. ClientPlace(c)' /\ ClientEvent(c)' /\ Sent(c)'
    BY Parts, <1>2, <1>4, <1>6 DEF Place, ClientPlace, BeforeConnection,
       ClientEvent, Sent, Connected, Disconnect
  <2>2. Accounted(c)'
    BY Parts, <1>2, <1>4, <1>6, Types DEF Place, Accounted,
       BeforeConnection, One
  <2>3. ServerPlace(c)' /\ WorkerPlace(c)'
    BY Parts, <1>1, <1>2, <1>4, <1>6 DEF Place, ServerPlace, BeforeAccept,
       BeforeConnection, Disconnect, Handling, TookEvent, Delivered,
       WorkerPlace, One
  <2>4. Succeeded(c)'
    BY Parts, <1>6 DEF Place, Succeeded
  <2> QED BY <2>1, <2>2, <2>3, <2>4 DEF Place
<1>10. OneActive'
  BY Parts, <1>1, <1>2, <1>3, <1>4, <1>5, <1>6, <1>7 DEF OneActive, Active,
     Own
<1>11. HandlerPlace'
  BY Parts, <1>1, <1>2, <1>3, <1>4, <1>5, <1>6, <1>7, Ids DEF HandlerPlace,
     Handles, Handling, Own, Place, ServerPlace, Connected, Disconnect,
     BeforeConnection, BeforeAccept
<1>12. ProxyPlace'
  BY Parts, <1>1, <1>2, <1>7, <1>6 DEF ProxyPlace, Handling
<1>13. OneConnection'
  BY Parts, <1>2, <1>3, <1>4, <1>7, <1>6 DEF OneConnection, Own
<1>14. Queue'
  BY Parts, <1>1, <1>2, <1>4, <1>7, <1>6, Ids DEF Queue, EventDue, Removal, Own
<1> QED BY <1>8, <1>9, <1>10, <1>11, <1>12, <1>13, <1>14 DEF SeqInv

(* No event waits behind ESTABLISHED while the worker runs.                *)
LEMMA SeqOnEstablished ==
  ASSUME Ready, NEW c \in Clients, event_copy.id = c, OnEstablished
  PROVE  SeqInv'
<1> USE DEF cmVars, netVars, clientVars, serverVars, workerVars, proxyVars, Out
<1>1. spc = "established"
  BY DEF OnEstablished
<1>2. /\ event_copy.type = "ESTABLISHED"
      /\ cm[c] = "connected" /\ wpc[c] = "none"
  BY Parts, <1>1 DEF HandlerPlace
<1>3. /\ sock_rdma_data \in Answers(c) /\ Delivered(c) /\ rsp[c] = 0 /\ crecv[c]
      /\ c \notin rtu /\ sconn[c] = "live"
  BY Parts, <1>1, <1>2 DEF Place, ServerPlace, Handling
<1>4. \A i \in 1 .. Len(srvEvents) : Removal(i)
  BY <1>1, <1>2, OnlyRemovals
<1>5. /\ wpc'[c] = "start"
      /\ spc' = "get_event"
      /\ sock' = "fresh" /\ cbuf' = Empty
      /\ UNCHANGED <<cmVars, netVars, clientVars, event_copy, ctx,
                    ctxConns, scq, sconn, srecv, recvRegion,
                    sendRegion, wc, sock_rdma_data, wconn,
                    proxyVars>>
      /\ \A d \in Clients : d # c => Own(d)
  BY Parts, <1>1, <1>2, <1>3, <1>4, FunctionTypes DEF OnEstablished,
     ClientThreadInit, Own
<1>6. \A d \in Clients : d # c => cm[d] \in Out
  BY Parts, <1>1, <1>2, <1>3, <1>4, Alone
<1>7. \A d \in Clients : d # c => Place(d)'
  BY Parts, <1>5, <1>6, Resting
<1>8. Place(c)'
  <2>1. ServerPlace(c)' /\ WorkerPlace(c)'
    BY Parts, <1>1, <1>2, <1>3, <1>4, <1>5 DEF Place, ServerPlace,
       BeforeAccept, BeforeConnection, Disconnect, Handling, TookEvent,
       Delivered, WorkerPlace, One
  <2>2. ClientPlace(c)' /\ ClientEvent(c)' /\ Sent(c)' /\ Accounted(c)' /\ Succeeded(c)'
    BY Parts, <1>5 DEF Place, ClientPlace, ClientEvent, Sent, Accounted,
       Succeeded
  <2> QED BY <2>1, <2>2 DEF Place
<1>9. OneActive'
  BY Parts, <1>1, <1>2, <1>3, <1>4, <1>5, <1>6 DEF OneActive, Active, Own
<1>10. HandlerPlace'
  BY Parts, <1>1, <1>2, <1>3, <1>6, <1>5, Ids DEF HandlerPlace, Handles,
     Handling, Own
<1>11. ProxyPlace'
  BY Parts, <1>1, <1>2, <1>6, <1>5 DEF ProxyPlace, Handling
<1>12. OneConnection'
  BY Parts, <1>2, <1>3, <1>6, <1>5 DEF OneConnection, Own
<1>13. Queue'
  BY Parts, <1>1, <1>2, <1>3, <1>4, <1>6, <1>5, Ids DEF Queue, EventDue,
     Removal, Own
<1> QED BY <1>7, <1>8, <1>9, <1>10, <1>11, <1>12, <1>13 DEF SeqInv

(* The connection freed is the only live one, and its worker is done.      *)
LEMMA SeqOnDisconnect ==
  ASSUME Ready, NEW c \in Clients, event_copy.id = c, OnDisconnect
  PROVE  SeqInv'
<1> USE DEF cmVars, netVars, clientVars, serverVars, workerVars, proxyVars, Out
<1>1. spc = "disconnected"
  BY DEF OnDisconnect
<1>2. /\ event_copy.type = "DISCONNECTED" /\ sconn[c] = "live"
      /\ cm[c] \in {"disconnected", "closed"}
  BY Parts, <1>1 DEF HandlerPlace
<1>3. \A d \in Clients : d # c => sconn[d] # "live" /\ cm[d] \notin {"accepted", "connected"}
  BY Parts, <1>1, <1>2 DEF OneConnection, Place, ServerPlace
<1>4. wpc[c] = "done"
  BY Parts, <1>1, <1>2, <1>3 DEF Place, ServerPlace, Disconnect
<1>5. /\ sconn'[c] = "freed"
      /\ srecv'[c] = FALSE
      /\ spc' = "get_event"
      /\ ctx' = FALSE
      /\ ctxConns' = {}
      /\ UNCHANGED <<cmVars, netVars, clientVars, event_copy, scq,
                    recvRegion, sendRegion, wc, sock, cbuf,
                    sock_rdma_data, workerVars, proxyVars>>
      /\ \A d \in Clients : d # c => Own(d)
  BY Parts, <1>1, <1>2, <1>3, <1>4, FunctionTypes DEF OnDisconnect,
     FreeConnection, Own
<1>6. \A d \in Clients : d # c => Place(d)'
  BY Parts, <1>3, <1>5, Resting
<1>7. Place(c)'
  <2>1. ServerPlace(c)' /\ WorkerPlace(c)'
    BY Parts, <1>1, <1>2, <1>3, <1>4, <1>5 DEF Place, ServerPlace,
       BeforeAccept, BeforeConnection, Disconnect, Handling, TookEvent,
       Delivered, WorkerPlace, One
  <2>2. ClientPlace(c)' /\ ClientEvent(c)' /\ Sent(c)' /\ Accounted(c)' /\ Succeeded(c)'
    BY Parts, <1>5 DEF Place, ClientPlace, ClientEvent, Sent, Accounted,
       Succeeded
  <2> QED BY <2>1, <2>2 DEF Place
<1>8. OneActive'
  BY Parts, <1>1, <1>2, <1>3, <1>4, <1>5 DEF OneActive, Active, Own
<1>9. HandlerPlace'
  BY Parts, <1>1, <1>2, <1>3, <1>4, <1>5, Ids DEF HandlerPlace, Handles,
     Handling, Own
<1>10. ProxyPlace'
  BY Parts, <1>1, <1>2, <1>5 DEF ProxyPlace, Handling
<1>11. OneConnection'
  BY Parts, <1>2, <1>3, <1>4, <1>5 DEF OneConnection, Own
<1>12. Queue'
  BY Parts, <1>1, <1>2, <1>3, <1>4, <1>5, Ids DEF Queue, EventDue, Removal, Own
<1> QED BY <1>6, <1>7, <1>8, <1>9, <1>10, <1>11, <1>12 DEF SeqInv

(* WANProxy answers the request it has.                                    *)
LEMMA SeqProxyAnswers ==
  ASSUME Ready, ProxyAnswers
  PROVE  SeqInv'
<1>0. /\ \A d \in Clients : Place(d)
      /\ OneActive /\ HandlerPlace /\ ProxyPlace /\ OneConnection /\ Queue
  BY Parts
<1>1. /\ pending # None /\ pending' = None
      /\ \/ reply' = pending
         \/ Faults /\ reply' = Empty
  BY DEF ProxyAnswers
<1>2. UNCHANGED <<seen, cmVars, netVars, clientVars, serverVars, workerVars>>
  BY DEF ProxyAnswers
<1> USE DEF cmVars, netVars, clientVars, serverVars, workerVars
<1>3. ASSUME NEW d \in Clients PROVE Place(d)'
  BY <1>0, <1>2, Elsewhere DEF Own
<1>4. OneActive' /\ OneConnection'
  BY <1>0, <1>2 DEF OneActive, Active, OneConnection
<1>5. HandlerPlace' /\ Queue'
  BY <1>0, <1>2 DEF HandlerPlace, Handles, Queue, EventDue, Removal
<1>6. ProxyPlace'
  BY <1>0, <1>1, <1>2 DEF ProxyPlace, Answers
<1> QED BY <1>3, <1>4, <1>5, <1>6 DEF SeqInv

(* The removal of the device waits behind the other events, or before them. *)
LEMMA SeqCmFault ==
  ASSUME Ready, CmFault
  PROVE  SeqInv'
<1>0. /\ \A d \in Clients : Place(d)
      /\ OneActive /\ HandlerPlace /\ ProxyPlace /\ OneConnection /\ Queue
  BY Parts
<1>1. /\ TellServer("DEVICE_REMOVAL", None) /\ Faults
      /\ UNCHANGED <<cm, rtu, cliEvents, netVars, clientVars, serverVars,
                     workerVars, proxyVars>>
  BY DEF CmFault, CmDeviceRemoval
<1> USE DEF netVars, clientVars, serverVars, workerVars, proxyVars
<1>2. ASSUME NEW d \in Clients PROVE Place(d)'
  BY <1>0, <1>1, Elsewhere DEF Own
<1>3. OneActive' /\ OneConnection' /\ HandlerPlace' /\ ProxyPlace'
  BY <1>0, <1>1 DEF OneActive, Active, OneConnection, HandlerPlace, Handles,
     ProxyPlace
<1>4. Queue'
  <2>1. SrvEvent("DEVICE_REMOVAL", None) \in SrvEventSet
    BY DEF SrvEventSet
  <2>2. \A e \in SrvEventSet : EventDue(e) => EventDue(e)'
    BY <1>1 DEF EventDue
  <2>3. \A e \in SrvEventSet : e.type = "DEVICE_REMOVAL" => EventDue(e)'
    BY <1>1 DEF EventDue
  <2> QED BY <1>1, <2>1, <2>2, <2>3, QueueGrows
<1> QED BY <1>2, <1>3, <1>4 DEF SeqInv

(* When the server takes an event, nothing it was doing needs the old one. *)
LEMMA SeqServerGetEvent ==
  ASSUME Ready, ServerGetEvent
  PROVE  SeqInv'
<1>0. /\ \A d \in Clients : Place(d)
      /\ OneActive /\ HandlerPlace /\ ProxyPlace /\ OneConnection /\ Queue
      /\ TypeInv
  BY Parts
<1> DEFINE e == srvEvents[1]
           n == Len(srvEvents)
<1>1. /\ spc = "get_event" /\ srvEvents # << >> /\ srvEvents \in Seq(SrvEventSet)
      /\ srvEvents' = Tail(srvEvents) /\ event_copy' = Head(srvEvents)
  BY <1>0 DEF ServerGetEvent, TypeInv, TypeOK, CmTypeOK
<1>2. /\ n > 0 /\ n \in Nat /\ event_copy' = e
      /\ Len(srvEvents') = n - 1
      /\ \A i \in 1 .. n - 1 : srvEvents'[i] = srvEvents[i + 1]
  BY <1>1
<1>3. 1 \in 1 .. n /\ \A i \in 1 .. n - 1 : i + 1 \in 1 .. n /\ 1 < i + 1
  BY <1>2
<1>4. EventDue(e) /\ (e.type # "DEVICE_REMOVAL" => e.id \in Clients)
  BY <1>3, Ids DEF Removal
<1>5. spc' = IF e.type = "CONNECT_REQUEST" THEN "on_connect_request"
             ELSE IF e.type = "ESTABLISHED" THEN "established"
             ELSE IF e.type = "DISCONNECTED" THEN "disconnected"
             ELSE "unknown"
  <2>1. Head(srvEvents) = e
    BY <1>1
  <2> HIDE DEF e
  <2>2. spc' = CASE e.type = "CONNECT_REQUEST" -> "on_connect_request"
                 [] e.type = "ESTABLISHED"     -> "established"
                 [] e.type = "DISCONNECTED"    -> "disconnected"
                 [] OTHER                      -> "unknown"
    BY <2>1 DEF ServerGetEvent
  <2> QED BY <2>2
<1>6. /\ UNCHANGED <<cm, rtu, cliEvents, ctx, ctxConns, scq, sconn, srecv,
                     recvRegion, sendRegion, wc, sock, cbuf, sock_rdma_data,
                     wpc, wconn, pending, reply, seen>>
      /\ UNCHANGED <<req, rsp, cpc, ppc, pwc, ccq, cconn, num, crecv, cregion>>
  BY DEF ServerGetEvent, netVars, clientVars, workerVars, proxyVars
<1>7. ASSUME NEW i \in 1 .. n, 1 < i
      PROVE  \/ e.type = "DEVICE_REMOVAL" \/ srvEvents[i].type = "DEVICE_REMOVAL"
             \/ e.type = "DISCONNECTED" /\ srvEvents[i].type = "CONNECT_REQUEST"
  BY <1>0, <1>3, <1>7 DEF Queue, Removal
<1>8. /\ e.type \in {"CONNECT_REQUEST", "ESTABLISHED", "DISCONNECTED",
                     "DEVICE_REMOVAL"}
      /\ spc' = "unknown" <=> e.type = "DEVICE_REMOVAL"
      /\ spc' = "established" <=> e.type = "ESTABLISHED"
      /\ spc' = "disconnected" <=> e.type = "DISCONNECTED"
      /\ spc' = "on_connect_request" <=> e.type = "CONNECT_REQUEST"
  BY <1>4, <1>5 DEF EventDue
<1> HIDE DEF e
<1>9. ASSUME NEW d \in Clients, cm[d] \in {"accepted", "connected"}
      PROVE  /\ cm[d] = "connected"
             /\ wpc[d] \in {"start", "copy", "post"} => spc' = "unknown"
             /\ wpc[d] = "none" =>
                  /\ sock_rdma_data \in Answers(d) /\ Delivered(d)
                  /\ rsp[d] = 0 /\ crecv[d]
                  /\ \/ spc' = "unknown"
                     \/ spc' = "established" /\ e.id = d
  <2>1. cm[d] = "connected" /\ sconn[d] = "live"
    BY <1>0, <1>1, <1>9 DEF Place, ServerPlace
  <2>2. wpc[d] \in {"start", "copy", "post"} => spc' = "unknown"
    BY <1>3, <1>8, <2>1, OnlyRemovals DEF Removal, e
  <2>3. ASSUME wpc[d] = "none"
        PROVE  /\ sock_rdma_data \in Answers(d) /\ Delivered(d)
               /\ rsp[d] = 0 /\ crecv[d]
               /\ spc' = "unknown" \/ (spc' = "established" /\ e.id = d)
    <3>1. \A b \in Clients : b # d => cm[b] \in Out
      BY <2>1, Alone DEF Out
    <3>2. CASE e.type # "DEVICE_REMOVAL"
      <4>1. e.type = "ESTABLISHED" /\ e.id = d
        BY <1>0, <1>4, <1>8, <2>1, <3>1, <3>2 DEF EventDue, OneConnection, Out
      <4> QED BY <1>0, <1>1, <1>8, <2>1, <2>3, <4>1 DEF Place, ServerPlace,
              Handling
    <3>3. CASE e.type = "DEVICE_REMOVAL"
      BY <1>0, <1>1, <1>8, <2>1, <2>3, <3>3 DEF Place, ServerPlace, Handling
    <3> QED BY <3>2, <3>3
  <2> QED BY <2>1, <2>2, <2>3
<1>10. ASSUME NEW d \in Clients PROVE Place(d)'
  <2>1. Place(d) /\ Own(d)
    BY <1>0, <1>6 DEF Own
  <2>2. CASE cm[d] \notin {"accepted", "connected"}
    BY <2>1, <2>2, Resting
  <2>3. CASE cm[d] \in {"accepted", "connected"}
    <3>1. ClientPlace(d)' /\ ClientEvent(d)' /\ Sent(d)'
      BY <2>1, <1>6 DEF Place, ClientPlace, ClientEvent, Sent
    <3>2. Accounted(d)' /\ Succeeded(d)'
      BY <2>1, <1>6 DEF Place, Accounted, Succeeded
    <3>3. cm[d] = "connected"
      BY <1>9, <2>3
    <3>4. spc' = "established" /\ e.id = d =>
            TookEvent("ESTABLISHED", d)' /\ d \notin rtu
      BY <1>2, <1>4, <1>8 DEF TookEvent, EventDue
    <3>5. ServerPlace(d)'
      <4>1. wpc[d] = "none" =>
              \/ spc' = "unknown" /\ sock_rdma_data \in Answers(d) /\ Delivered(d)
              \/ /\ spc' = "established" /\ TookEvent("ESTABLISHED", d)'
                 /\ d \notin rtu
                 /\ sock_rdma_data \in Answers(d) /\ Delivered(d)
        BY <1>9, <2>3, <3>4
      <4>2. d \in rtu => wpc[d] = "none" /\ spc' # "established"
        BY <1>8, <1>9, <2>1, <2>3, <4>1 DEF Place, ServerPlace
      <4> QED BY <1>6, <1>9, <2>1, <2>3, <3>3, <4>1, <4>2
              DEF Place, ServerPlace, Delivered, BeforeAccept,
                  BeforeConnection, Disconnect
    <3>6. WorkerPlace(d)'
      BY <1>6, <1>9, <2>1, <2>3, <3>3 DEF Place, WorkerPlace, Delivered
    <3> QED BY <3>1, <3>2, <3>5, <3>6 DEF Place
  <2> QED BY <2>2, <2>3
<1>11. OneActive' /\ ProxyPlace' /\ OneConnection'
  BY <1>0, <1>1, <1>5, <1>6 DEF OneActive, Active, ProxyPlace, OneConnection
<1>12. ASSUME e.type = "CONNECT_REQUEST", NEW d \in Clients
       PROVE  sconn[d] # "live"
  <2>1. cm[e.id] = "requested" /\ e.id \in Clients
    BY <1>4, <1>12 DEF EventDue
  <2>2. cm[d] \in CmStates /\ (d # e.id => cm[d] \in Out)
    BY <1>0, <2>1, Alone, Types DEF Out
  <2>3. CASE cm[d] = "closed"
    <3>1. ASSUME sconn[d] = "live" PROVE FALSE
      <4>1. PICK i \in 1 .. n :
              srvEvents[i].type = "DISCONNECTED" /\ srvEvents[i].id = d
        BY <1>0, <1>1, <2>3, <3>1 DEF Queue
      <4>2. 1 < i
        BY <1>2, <1>12, <4>1 DEF e
      <4> QED BY <1>7, <1>12, <4>1, <4>2
    <3> QED BY <3>1
  <2>4. CASE cm[d] # "closed"
    BY <1>0, <2>1, <2>2, <2>4 DEF Place, ServerPlace, BeforeAccept,
       BeforeConnection, Out
  <2> QED BY <2>3, <2>4
<1>13. HandlerPlace'
  BY <1>2, <1>4, <1>5, <1>6, <1>8, <1>12 DEF HandlerPlace, Handling, EventDue
<1>14. Queue'
  <2>1. ASSUME NEW i \in 1 .. Len(srvEvents') PROVE EventDue(srvEvents[i])'
    <3>1. i \in 1 .. n - 1 /\ i + 1 \in 1 .. n /\ 1 < i + 1
      BY <1>2, <1>3
    <3>2. EventDue(srvEvents[i + 1]) /\ srvEvents'[i] = srvEvents[i + 1]
      BY <1>0, <1>2, <3>1 DEF Queue
    <3> QED BY <1>6, <1>7, <1>8, <3>1, <3>2 DEF EventDue
  <2>2. ASSUME NEW i \in 1 .. Len(srvEvents'), NEW j \in 1 .. Len(srvEvents'),
               i < j
        PROVE  \/ Removal(i)' \/ Removal(j)'
               \/ /\ srvEvents'[i].type = "DISCONNECTED"
                  /\ srvEvents'[j].type = "CONNECT_REQUEST"
    <3>1. /\ i \in 1 .. n - 1 /\ i + 1 \in 1 .. n
          /\ j \in 1 .. n - 1 /\ j + 1 \in 1 .. n /\ i + 1 < j + 1
      BY <1>2, <2>2
    <3>2. srvEvents'[i] = srvEvents[i + 1] /\ srvEvents'[j] = srvEvents[j + 1]
      BY <1>2, <3>1
    <3> QED BY <1>0, <3>1, <3>2 DEF Queue, Removal
  <2>3. ASSUME NEW d \in Clients, cm'[d] \in {"disconnected", "closed"},
               sconn'[d] = "live"
        PROVE  \/ spc' \in {"disconnected", "unknown"}
               \/ \E i \in 1 .. Len(srvEvents') :
                    srvEvents'[i].type = "DISCONNECTED" /\ srvEvents'[i].id = d
    <3>1. PICK i \in 1 .. n :
            srvEvents[i].type = "DISCONNECTED" /\ srvEvents[i].id = d
      BY <1>0, <1>1, <1>6, <2>3 DEF Queue
    <3>2. CASE i = 1
      BY <1>8, <3>1, <3>2 DEF e
    <3>3. CASE i # 1
      <4>1. i - 1 \in 1 .. n - 1 /\ (i - 1) + 1 = i
        BY <1>2, <3>3
      <4>2. srvEvents'[i - 1] = srvEvents[i] /\ i - 1 \in 1 .. Len(srvEvents')
        BY <1>2, <4>1
      <4> QED BY <3>1, <4>2
    <3> QED BY <3>2, <3>3
  <2> QED BY <2>1, <2>2, <2>3 DEF Queue
<1> QED BY <1>10, <1>11, <1>13, <1>14 DEF SeqInv

(* What cannot happen: a message always finds its receive, and no fault    *)
(* and no death is allowed.                                                *)
LEMMA MeetsReceive ==
  ASSUME Ready, NEW c \in Clients
  PROVE  /\ req[c] = "posted" => ServerQpReady(c) /\ ~Ended(c)
         /\ rsp[c] > 0 => rsp[c] = 1 /\ ClientQpReady(c)
<1>0. Place(c) /\ HandlerPlace /\ TypeInv
  BY Parts
<1>1. SrvUp
  BY <1>0 DEF SrvUp, HandlerPlace
<1>2. ASSUME req[c] = "posted" PROVE ServerQpReady(c) /\ ~Ended(c)
  <2>1. cm[c] = "connected"
    BY <1>0, <1>2 DEF Place, Sent, Connected
  <2>2. sconn[c] = "live" /\ srecv[c]
    BY <1>0, <1>2, <2>1 DEF Place, ServerPlace
  <2>3. cpc[c] = "loop"
    BY <2>1, Alone DEF Out
  <2> QED BY <1>1, <2>2, <2>3 DEF ServerQpReady, Ended
<1>3. ASSUME rsp[c] > 0 PROVE rsp[c] = 1 /\ ClientQpReady(c)
  <2>1. wpc[c] = "done" /\ cregion[c] = None
    BY <1>0, <1>3, Types DEF Place, ServerPlace, WorkerPlace, WorkerPcs,
         CmStates,
       BeforeAccept, BeforeConnection, Disconnect, One
  <2>2. cm[c] = "connected" /\ rsp[c] = 1
    BY <1>0, <1>3, <2>1, Types, FabricAssumption DEF Place, Sent, ServerPlace,
       WorkerPlace, CmStates, BeforeAccept, BeforeConnection, Disconnect, One
  <2>3. cpc[c] = "loop"
    BY <2>2, Alone DEF Out
  <2>4. cconn[c] = "live" /\ crecv[c]
    BY <1>0, <2>1, <2>2, <2>3 DEF Place, ClientPlace, Sent, BeforeConnection
  <2> QED BY <2>2, <2>3, <2>4 DEF ClientQpReady, Ended
<1> QED BY <1>2, <1>3

(* So none of the steps is ever taken that a death, a lost message or the  *)
(* end of the server causes.                                               *)
LEMMA NoFailure ==
  ASSUME Ready
  PROVE  /\ \A c \in Clients :
              /\ ~ClientCrash(c)
              /\ ~CmServerGone(c) /\ ~CmClientGone(c) /\ ~CmTimeout(c)
              /\ ~FailRequest(c) /\ ~FailResponse(c)
<1>0. /\ \A d \in Clients : Place(d)
      /\ HandlerPlace /\ ~Crashes
  BY Parts
<1>1. ASSUME NEW c \in Clients
      PROVE  ~ClientCrash(c) /\ ~CmTimeout(c) /\ ~CmServerGone(c) /\ ~CmClientGone(c)
  BY <1>0 DEF ClientCrash, CmTimeout, CmServerGone, CmClientGone, SrvUp,
     HandlerPlace, Place, ClientPlace
<1>2. ASSUME NEW c \in Clients PROVE ~FailRequest(c) /\ ~FailResponse(c)
  BY MeetsReceive DEF FailRequest, FailResponse
<1> QED BY <1>1, <1>2

(* Without faults there are fewer still.                                   *)
LEMMA NoFault ==
  ASSUME Ready, ~Faults
  PROVE  /\ \A c \in Clients :
              /\ ~OnUnknownEvent(c)
              /\ cpc[c] # "died" /\ (cpc[c] = "exited" => cm[c] = "closed")
              /\ Launch(c) => cpc'[c] = "loop"
              /\ Answers(c) = {c}
         /\ ~OnUnknown /\ ~CmFault
         /\ SocketConnect => SrvUp'
         /\ ProxyAnswers => reply' = pending
<1>0. /\ \A d \in Clients : Place(d)
      /\ HandlerPlace /\ TypeInv /\ ~Faults
  BY Parts
<1>1. ASSUME NEW c \in Clients, OnUnknownEvent(c) PROVE FALSE
  <2>1. GetsEvent(c, {"ADDR_ERROR", "ROUTE_ERROR", "REJECTED", "UNREACHABLE"})
    BY <1>1 DEF OnUnknownEvent
  <2> QED BY <1>0, <2>1, SeqExpected
<1>2. ASSUME NEW c \in Clients
      PROVE  /\ cpc[c] # "died" /\ (cpc[c] = "exited" => cm[c] = "closed")
             /\ Launch(c) => cpc'[c] = "loop"
             /\ Answers(c) = {c}
  BY <1>0, FunctionTypes DEF Place, ClientPlace, Launch, Answers
<1>3. ~OnUnknown /\ ~CmFault
  BY <1>0 DEF OnUnknown, CmFault, CmDeviceRemoval, HandlerPlace
<1>4. ASSUME SocketConnect PROVE SrvUp'
  <2>1. sock # "connected"
    BY <1>0, <1>4 DEF SocketConnect, HandlerPlace, Handling, Handles
  <2> QED BY <1>0, <1>4, <2>1 DEF SocketConnect, SrvUp
<1>5. ProxyAnswers => reply' = pending
  BY <1>0 DEF ProxyAnswers
<1> QED BY <1>1, <1>2, <1>3, <1>4, <1>5

(* Every step keeps SeqInv.                                                *)
LEMMA SeqStep ==
  ASSUME Ready, [Next]_vars, SrvUp'
  PROVE  SeqInv'
<1>1. ASSUME NEW c \in Clients, ClientMain(c) PROVE SeqInv'
  BY <1>1, NoFailure, SeqOnAddrResolved, SeqOnRouteResolved,
       SeqOnConnectionReqSock,
     SeqClientOnDisconnect, SeqOnUnknownEvent, SeqClientExit DEF ClientMain
<1>2. ASSUME NEW c \in Clients, Poller(c) PROVE SeqInv'
  BY <1>2, SeqPollerGetEvent, SeqPollerReqNotify, SeqPollerPollTakes,
     SeqPollerPollWaits, SeqPollerCounts, SeqPollerDisconnects DEF Poller
<1>3. ASSUME NEW c \in Clients, CmStep(c) PROVE SeqInv'
  <2>1. \/ CmAddr(c) \/ CmRoute(c) \/ CmRequest(c) \/ CmReply(c) \/ CmRtu(c)
        \/ CmDreq(c) \/ CmDrep(c)
    BY <1>3, NoFailure DEF CmStep
  <2> QED
    BY <1>3, <2>1, SeqCmAddr, SeqCmRoute, SeqCmRequest, SeqCmReply, SeqCmRtu,
          SeqCmDreq, SeqCmDrep
<1>4. ASSUME NEW c \in Clients, Adapter(c) PROVE SeqInv'
  BY <1>4, NoFailure, SeqDeliverRequest, SeqAckRequest, SeqDeliverResponse
     DEF Adapter
<1>5. ASSUME NEW c \in Clients, Worker(c) PROVE SeqInv'
  BY <1>5, SeqWorkerStart, SeqWorkerCopy, SeqWorkerPost DEF Worker
<1>6. ASSUME ServerThread PROVE SeqInv'
  <2>1. CASE ServerGetEvent
    BY <2>1, SeqServerGetEvent
  <2>2. CASE ~ServerGetEvent
    <3>1. /\ \/ OnConnectRequest \/ ServerGetCqEvent \/ ServerReqNotify
             \/ ServerPoll \/ SocketConnect \/ SocketSend \/ SocketRead
             \/ OnEstablished \/ OnDisconnect
      BY <1>6, <2>2 DEF ServerThread, OnUnknown, SrvUp
    <3>2. spc \in Handling \cup {"on_connect_request", "established",
       "disconnected"}
      BY <3>1 DEF OnConnectRequest, ServerGetCqEvent, ServerReqNotify,
           ServerPoll,
         SocketConnect, SocketSend, SocketRead, OnEstablished, OnDisconnect,
            Handling
    <3>3. event_copy.id \in Clients
      BY <3>2, Parts, Ids DEF HandlerPlace
    <3> QED BY <3>1, <3>3, SeqOnConnectRequest, SeqServerGetCqEvent,
            SeqServerReqNotify, SeqServerPoll, SeqSocketConnect, SeqSocketSend,
            SeqSocketRead, SeqOnEstablished, SeqOnDisconnect
  <2> QED BY <2>1, <2>2
<1>7. CASE UNCHANGED vars
  <2>0. /\ \A d \in Clients : Place(d)
        /\ OneActive /\ HandlerPlace /\ ProxyPlace /\ OneConnection /\ Queue
    BY Parts
  <2> USE <1>7 DEF vars, cmVars, netVars, clientVars, serverVars, workerVars,
     proxyVars
  <2>1. ASSUME NEW d \in Clients PROVE Place(d)'
    BY <2>0, Elsewhere DEF Own
  <2>2. OneActive'
    BY <2>0 DEF OneActive, Active
  <2>3. HandlerPlace' /\ ProxyPlace' /\ OneConnection' /\ Queue'
    BY Quiet
  <2> QED BY <2>1, <2>2, <2>3 DEF SeqInv
<1> QED BY <1>1, <1>2, <1>3, <1>4, <1>5, <1>6, <1>7, NoFailure, SeqLaunch,
        SeqLaunchFails, SeqProxyAnswers, SeqCmFault DEF Next

(* Nothing has happened yet.                                               *)
LEMMA SeqInit == Init => SeqInv
<1> SUFFICES ASSUME Init PROVE SeqInv
  OBVIOUS
<1> USE DEF Init, FabricInit, ClientInit, ServerInit, NewCq
<1>1. ASSUME NEW c \in Clients PROVE Place(c)
  <2>1. ClientPlace(c) /\ ClientEvent(c) /\ Succeeded(c)
    BY DEF ClientPlace, ClientEvent, Succeeded, BeforeConnection
  <2>2. Sent(c) /\ Accounted(c)
    BY DEF Sent, Accounted, BeforeConnection, Disconnect
  <2>3. ServerPlace(c) /\ WorkerPlace(c)
    BY DEF ServerPlace, WorkerPlace, Disconnect
  <2> QED BY <2>1, <2>2, <2>3 DEF Place
<1>2. OneActive /\ HandlerPlace /\ ProxyPlace
  BY DEF OneActive, Active, HandlerPlace, Handling, ProxyPlace
<1>3. OneConnection
  BY DEF OneConnection
<1>4. Queue
  BY DEF Queue
<1> QED BY <1>1, <1>2, <1>3, <1>4 DEF SeqInv

(* The only step that writes a client's receive buffer.                    *)
LEMMA ArrivalFrame ==
  ASSUME [Next]_vars, \A c \in Clients : ~DeliverResponse(c)
  PROVE  cregion' = cregion
<1> USE DEF clientVars
<1>1. ASSUME NEW c \in Clients, Launch(c) \/ ClientCrash(c)
      PROVE  cregion' = cregion
  BY <1>1 DEF Launch, ClientCrash
<1>2. ASSUME NEW c \in Clients, ClientMain(c) PROVE cregion' = cregion
  BY <1>2 DEF ClientMain, OnAddrResolved, OnRouteResolved,
     OnConnectionReqSock, ClientOnDisconnect, OnUnknownEvent, ClientExit
<1>3. ASSUME NEW c \in Clients, Poller(c) PROVE cregion' = cregion
  BY <1>3 DEF Poller, PollerGetEvent, PollerReqNotify, PollerPoll,
     PollerOnCompletion
<1>4. ASSUME NEW c \in Clients, CmStep(c) PROVE cregion' = cregion
  BY <1>4 DEF CmStep
<1>5. ASSUME NEW c \in Clients, Adapter(c) PROVE cregion' = cregion
  BY <1>5 DEF Adapter, DeliverRequest, AckRequest, FailRequest, FailResponse
<1>6. ASSUME NEW c \in Clients, Worker(c) PROVE cregion' = cregion
  BY <1>6 DEF Worker, WorkerStart, WorkerCopy, WorkerPost
<1>7. ASSUME ServerThread PROVE cregion' = cregion
  BY <1>7 DEF ServerThread, ServerGetEvent, OnConnectRequest,
     ServerGetCqEvent, ServerReqNotify, ServerPoll, SocketConnect, SocketSend,
     SocketRead, OnEstablished, OnDisconnect, OnUnknown
<1>8. ASSUME ProxyAnswers \/ CmFault PROVE cregion' = cregion
  BY <1>8 DEF ProxyAnswers, CmFault
<1>9. CASE UNCHANGED vars
  BY <1>9 DEF vars
<1> QED BY <1>1, <1>2, <1>3, <1>4, <1>5, <1>6, <1>7, <1>8, <1>9 DEF Next

(* A server that has ended stays so, and the answers that have arrived too. *)
LEMMA DownStaysDown ==
  ASSUME ~SrvUp, [Next]_vars
  PROVE  ~SrvUp' /\ cregion' = cregion
<1> USE DEF serverVars, SrvUp
<1>1. cregion' = cregion
  <2>1. ASSUME NEW c \in Clients PROVE ~DeliverResponse(c)
    BY DEF DeliverResponse
  <2> QED BY <2>1, ArrivalFrame
<1>2. ASSUME NEW c \in Clients, Launch(c) \/ ClientCrash(c) PROVE ~SrvUp'
  BY <1>2 DEF Launch, ClientCrash
<1>3. ASSUME NEW c \in Clients, ClientMain(c) PROVE ~SrvUp'
  BY <1>3 DEF ClientMain, OnAddrResolved, OnRouteResolved,
     OnConnectionReqSock, ClientOnDisconnect, OnUnknownEvent, ClientExit
<1>4. ASSUME NEW c \in Clients, Poller(c) PROVE ~SrvUp'
  BY <1>4 DEF Poller, PollerGetEvent, PollerReqNotify, PollerPoll,
     PollerOnCompletion
<1>5. ASSUME NEW c \in Clients, CmStep(c) PROVE ~SrvUp'
  BY <1>5 DEF CmStep
<1>6. ASSUME NEW c \in Clients, Adapter(c) PROVE ~SrvUp'
  BY <1>6 DEF Adapter, DeliverRequest, AckRequest, FailRequest,
     DeliverResponse, FailResponse
<1>7. ASSUME NEW c \in Clients PROVE ~Worker(c)
  BY DEF Worker, WorkerStart, WorkerCopy, WorkerPost
<1>8. ~ServerThread
  BY DEF ServerThread, ServerGetEvent, OnConnectRequest, ServerGetCqEvent,
     ServerReqNotify, ServerPoll, SocketConnect, SocketSend, SocketRead,
     OnEstablished, OnDisconnect, OnUnknown
<1>9. ASSUME ProxyAnswers \/ CmFault PROVE ~SrvUp'
  BY <1>9 DEF ProxyAnswers, CmFault
<1>10. CASE UNCHANGED vars
  BY <1>1, <1>10 DEF vars
<1> QED BY <1>1, <1>2, <1>3, <1>4, <1>5, <1>6, <1>7, <1>8, <1>9, <1>10
        DEF Next

(* Without faults no step ends the server.                                 *)
LEMMA UpStaysUp ==
  ASSUME Ready, ~Faults, [Next]_vars
  PROVE  SrvUp'
<1> USE DEF serverVars, SrvUp
<1>0. /\ spc # "exited" /\ HandlerPlace /\ \A d \in Clients : Place(d)
  BY Parts DEF HandlerPlace
<1>1. ASSUME NEW c \in Clients, Launch(c) PROVE SrvUp'
  BY <1>0, <1>1 DEF Launch
<1>2. ASSUME NEW c \in Clients, ClientMain(c) PROVE SrvUp'
  BY <1>0, <1>2 DEF ClientMain, OnAddrResolved, OnRouteResolved,
     OnConnectionReqSock, ClientOnDisconnect, OnUnknownEvent, ClientExit
<1>3. ASSUME NEW c \in Clients, Poller(c) PROVE SrvUp'
  BY <1>0, <1>3 DEF Poller, PollerGetEvent, PollerReqNotify, PollerPoll,
     PollerOnCompletion
<1>4. ASSUME NEW c \in Clients, CmStep(c) PROVE SrvUp'
  BY <1>0, <1>4 DEF CmStep
<1>5. ASSUME NEW c \in Clients, Adapter(c) PROVE SrvUp'
  BY <1>0, <1>5 DEF Adapter, DeliverRequest, AckRequest, FailRequest,
     DeliverResponse, FailResponse
<1>6. ASSUME NEW c \in Clients, Worker(c) PROVE SrvUp'
  <2>1. wpc[c] \in {"start", "copy", "post"}
    BY <1>6 DEF Worker, WorkerStart, WorkerCopy, WorkerPost
  <2>2. /\ sconn[c] = "live" /\ spc # "unknown"
        /\ wpc[c] \in {"copy", "post"} => wconn[c] = c
        /\ event_copy.id = c /\ sock_rdma_data # None
    BY <1>0, <2>1, NoFault, FabricAssumption DEF Place, WorkerPlace,
       ServerPlace, TookEvent, HandlerPlace
  <2> QED BY <1>0, <1>6, <2>2, FabricAssumption DEF Worker, WorkerStart,
          WorkerCopy, WorkerPost
<1>7. ASSUME ServerThread PROVE SrvUp'
  <2>1. CASE ServerGetEvent
    BY <2>1 DEF ServerGetEvent
  <2>2. CASE OnConnectRequest
    BY <1>0, <2>2 DEF OnConnectRequest, HandlerPlace
  <2>3. CASE ServerPoll
    BY <2>3 DEF ServerPoll
  <2> QED BY <1>7, <2>1, <2>2, <2>3, NoFault DEF ServerThread,
          ServerGetCqEvent, ServerReqNotify, SocketSend, SocketRead,
          OnEstablished, OnDisconnect
<1>8. ASSUME ProxyAnswers PROVE SrvUp'
  BY <1>0, <1>8 DEF ProxyAnswers
<1>9. CASE UNCHANGED vars
  BY <1>0, <1>9 DEF vars
<1> QED BY <1>1, <1>2, <1>3, <1>4, <1>5, <1>6, <1>7, <1>8, <1>9, NoFailure,
        NoFault DEF Next

(* The last answer may arrive in the step in which the server is not yet   *)
(* down; afterwards none does.                                             *)
LEMMA SafeStep ==
  ASSUME OneAtATime, TypeInv, SafeInv, [Next]_vars
  PROVE  SafeInv'
<1>1. CASE SrvUp
  <2>1. Ready
    BY <1>1 DEF SafeInv, Ready
  <2>2. SrvUp' => SeqInv'
    BY <2>1, SeqStep
  <2>3. Faults \/ SrvUp'
    BY <2>1, UpStaysUp
  <2>4. OwnAnswer'
    <3>1. CASE \E c \in Clients : DeliverResponse(c)
      <4>1. PICK c \in Clients : DeliverResponse(c)
        BY <3>1
      <4>2. SrvUp'
        BY <4>1 DEF DeliverResponse, SrvUp
      <4>3. OneAtATime' /\ TypeInv' /\ SeqInv'
        BY <2>2, <4>2, StepTypeInv DEF OneAtATime
      <4>4. \A d \in Clients : Sent(d)'
        BY <4>3 DEF SeqInv, Place
      <4> QED BY <4>4 DEF Sent, OwnAnswer, Answers
    <3>2. CASE \A c \in Clients : ~DeliverResponse(c)
      <4>1. cregion' = cregion
        BY <3>2, ArrivalFrame
      <4> QED BY <4>1 DEF SafeInv, OwnAnswer
    <3> QED BY <3>1, <3>2
  <2> QED BY <2>2, <2>3, <2>4 DEF SafeInv
<1>2. CASE ~SrvUp
  BY <1>2, DownStaysDown DEF SafeInv, OwnAnswer
<1> QED BY <1>1, <1>2

(* SafeInv holds throughout, if runs do not overlap and no client is       *)
(* killed.                                                                 *)
LEMMA SafeInvariance ==
  ASSUME OneAtATime
  PROVE  Spec => [](TypeInv /\ SafeInv)
<1>1. Init => TypeInv /\ SafeInv
  <2>1. Init => OwnAnswer /\ SrvUp
    BY DEF Init, ClientInit, ServerInit, OwnAnswer, SrvUp
  <2> QED BY <2>1, InitTypeInv, SeqInit DEF SafeInv
<1>2. TypeInv /\ SafeInv /\ [Next]_vars => (TypeInv /\ SafeInv)'
  BY StepTypeInv, SafeStep
<1> QED BY <1>1, <1>2, PTL DEF Spec

(* And if nothing else fails, the server is up and SeqInv holds.           *)
LEMMA SeqInvariance ==
  ASSUME Sequential
  PROVE  Spec => [](TypeInv /\ SeqInv)
<1>1. TypeInv /\ SafeInv => TypeInv /\ SeqInv
  BY DEF SafeInv, Sequential
<1>2. OneAtATime
  BY DEF Sequential
<1> QED BY <1>1, <1>2, SafeInvariance, PTL

(* Each client gets the answer to its own request, or has none yet, or     *)
(* with faults an empty one: the worker reads sock_rdma_data before the    *)
(* main loop can overwrite it.                                             *)
THEOREM AnswersAreOwn == OneAtATime => (Spec => []OwnAnswer)
<1> SUFFICES ASSUME OneAtATime PROVE Spec => []OwnAnswer
  OBVIOUS
<1>1. TypeInv /\ SafeInv => OwnAnswer
  BY DEF SafeInv
<1> QED BY <1>1, SafeInvariance, PTL

(* The event_copy a worker was given a pointer to is not overwritten before *)
(* the worker has read it.                                                 *)
THEOREM WorkersKeepTheirEvent == Sequential => (Spec => []WorkerHasItsEvent)
<1> SUFFICES ASSUME Sequential PROVE Spec => []WorkerHasItsEvent
  OBVIOUS
<1>1. TypeInv /\ SeqInv => WorkerHasItsEvent
  <2> SUFFICES ASSUME Ready, ~Faults PROVE WorkerHasItsEvent
    BY DEF Ready, Sequential
  <2>1. /\ event_copy \in SrvEventSet /\ \A c \in Clients : Place(c)
        /\ spc # "unknown"
    BY Parts DEF TypeInv, TypeOK, ServerTypeOK, HandlerPlace
  <2>2. ASSUME NEW c \in Clients, wpc[c] = "start"
        PROVE  event_copy = SrvEvent("ESTABLISHED", c)
    BY <2>1, <2>2 DEF Place, WorkerPlace, TookEvent, SrvEvent, SrvEventSet
  <2> QED BY <2>1, <2>2 DEF WorkerHasItsEvent, Place, WorkerPlace
<1> QED BY <1>1, SeqInvariance, PTL

(* A worker is done before the main loop frees the connection it uses.     *)
THEOREM WorkersKeepTheirConnection == OneAtATime => (Spec => []WorkerUsesLiveConnection)
<1> SUFFICES ASSUME OneAtATime PROVE Spec => []WorkerUsesLiveConnection
  OBVIOUS
<1>1. TypeInv /\ SafeInv => WorkerUsesLiveConnection
  <2> SUFFICES ASSUME SrvUp => Ready PROVE WorkerUsesLiveConnection
    BY DEF Ready, SafeInv
  <2>1. ASSUME SrvUp, NEW c \in Clients, wpc[c] \in {"copy", "post"}
        PROVE  sconn[wconn[c]] = "live"
    BY <2>1, Parts DEF Place, WorkerPlace, ServerPlace
  <2> QED BY <2>1 DEF WorkerUsesLiveConnection
<1> QED BY <1>1, SafeInvariance, PTL

(* The wc the main loop looks at holds the request of the client it has     *)
(* just accepted, not yet forwarded.                                       *)
THEOREM RequestsForwardedOnce == OneAtATime => (Spec => []ForwardsNewRequest)
<1> SUFFICES ASSUME OneAtATime PROVE Spec => []ForwardsNewRequest
  OBVIOUS
<1>1. TypeInv /\ SafeInv => ForwardsNewRequest
  <2> SUFFICES ASSUME SrvUp => Ready PROVE ForwardsNewRequest
    BY DEF Ready, SafeInv
  <2>1. ASSUME spc \in {"socket_connect", "send"}
        PROVE  event_copy = SrvEvent("CONNECT_REQUEST",
           wc.conn) /\ seen[wc.conn] = 0
    <3>1. event_copy.type = "CONNECT_REQUEST" /\ Handles(event_copy.id)
      BY <2>1, Parts DEF SrvUp, HandlerPlace, Handling
    <3>2. wc.conn = event_copy.id /\ seen[event_copy.id] = 0
      BY <2>1, <3>1 DEF Handles
    <3>3. event_copy \in SrvEventSet
      BY <2>1, Parts DEF SrvUp, TypeInv, TypeOK, ServerTypeOK
    <3> QED BY <3>1, <3>2, <3>3 DEF SrvEvent, SrvEventSet
  <2> QED BY <2>1 DEF ForwardsNewRequest
<1> QED BY <1>1, SafeInvariance, PTL

(* The poller has handled its last completion before the main thread frees  *)
(* the connection: DISCONNECTED comes only after the second.               *)
THEOREM PollerKeepsItsConnection == Sequential => (Spec => []PollerUsesLiveConnection)
<1> SUFFICES ASSUME Sequential PROVE Spec => []PollerUsesLiveConnection
  OBVIOUS
<1>1. TypeInv /\ SeqInv => PollerUsesLiveConnection
  <2> SUFFICES ASSUME Ready, ~Faults PROVE PollerUsesLiveConnection
    BY DEF Ready, Sequential
  <2>1. ASSUME NEW c \in Clients, ppc[c] = "handle" PROVE cconn[c] = "live"
    BY <2>1, Handled
  <2> QED BY <2>1 DEF PollerUsesLiveConnection
<1> QED BY <1>1, SeqInvariance, PTL

(* One posted receive per side is enough, with a retry count of zero.      *)
THEOREM MessagesMeetReceives == OneAtATime => (Spec => []ReceiveIsPosted)
<1> SUFFICES ASSUME OneAtATime PROVE Spec => []ReceiveIsPosted
  OBVIOUS
<1>1. TypeInv /\ SafeInv => ReceiveIsPosted
  <2> SUFFICES ASSUME SrvUp => Ready PROVE ReceiveIsPosted
    BY DEF Ready, SafeInv
  <2> QED BY MeetsReceive DEF ReceiveIsPosted
<1> QED BY <1>1, SafeInvariance, PTL

(* The socket is replaced before the next request needs one.               *)
THEOREM SocketIsFresh == OneAtATime => (Spec => []ConnectsFreshSocket)
<1> SUFFICES ASSUME OneAtATime PROVE Spec => []ConnectsFreshSocket
  OBVIOUS
<1>1. TypeInv /\ SafeInv => ConnectsFreshSocket
  <2> SUFFICES ASSUME SrvUp => Ready PROVE ConnectsFreshSocket
    BY DEF Ready, SafeInv
  <2>1. ASSUME spc = "socket_connect" PROVE sock = "fresh"
    <3>1. Handles(event_copy.id) /\ sock \in {"fresh", "connected"}
      BY <2>1, Parts DEF SrvUp, HandlerPlace, Handling, TypeInv, TypeOK,
         ServerTypeOK
    <3> QED BY <2>1, <3>1 DEF Handles
  <2> QED BY <2>1 DEF ConnectsFreshSocket
<1> QED BY <1>1, SafeInvariance, PTL

(* No path that ends ./server is taken.                                    *)
THEOREM ServerNeverExits == Sequential => (Spec => []ServerStaysUp)
<1> SUFFICES ASSUME Sequential PROVE Spec => []ServerStaysUp
  OBVIOUS
<1>1. TypeInv /\ SeqInv => ServerStaysUp
  <2> SUFFICES ASSUME Ready, ~Faults PROVE ServerStaysUp
    BY DEF Ready, Sequential
  <2> QED BY Parts DEF HandlerPlace, ServerStaysUp, SrvUp
<1> QED BY <1>1, SeqInvariance, PTL

(* The steps that allocate or free a connection of ./client.               *)
LEMMA FreeFrame ==
  ASSUME [Next]_vars
  PROVE  \/ \E c \in Clients : \/ OnAddrResolved(c) \/ ClientOnDisconnect(c)
         \/ UNCHANGED <<cconn>>
<1> USE DEF clientVars
<1>1. ASSUME NEW c \in Clients, Launch(c) PROVE UNCHANGED <<cconn>>
  BY <1>1 DEF Launch
<1>2. ASSUME NEW c \in Clients, ClientCrash(c) PROVE UNCHANGED <<cconn>>
  BY <1>2 DEF ClientCrash, Die
<1>3. ASSUME NEW c \in Clients, ClientMain(c)
      PROVE  \/ OnAddrResolved(c)
             \/ ClientOnDisconnect(c)
             \/ UNCHANGED <<cconn>>
  BY <1>3 DEF ClientMain, OnRouteResolved, GetsEvent, OnConnectionReqSock,
     OnUnknownEvent, Die, ClientExit
<1>4. ASSUME NEW c \in Clients, Poller(c)
      PROVE  UNCHANGED <<cconn>>
  BY <1>4 DEF Poller, PollerGetEvent, PollerReqNotify, PollerPoll,
     PollerOnCompletion, RdmaDisconnect, Die
<1>5. ASSUME NEW c \in Clients, CmStep(c)
      PROVE  UNCHANGED <<cconn>>
  BY <1>5 DEF CmStep
<1>6. ASSUME NEW c \in Clients, Adapter(c)
      PROVE  UNCHANGED <<cconn>>
  BY <1>6 DEF Adapter, DeliverRequest, ServerCompletes, AckRequest,
     FailRequest, DeliverResponse, FailResponse
<1>7. ASSUME NEW c \in Clients, Worker(c)
      PROVE  UNCHANGED <<cconn>>
  BY <1>7 DEF Worker, WorkerStart, WorkerCopy, WorkerPost
<1>8. ASSUME ServerThread
      PROVE  UNCHANGED <<cconn>>
  BY <1>8 DEF ServerThread, ServerGetEvent, OnConnectRequest,
     ServerBuildContext, ServerPostReceives, ServerGetCqEvent,
     ServerReqNotify, ServerPoll, SocketConnect, ConnectsSocket, SocketSend,
     SocketRead, OnEstablished, ClientThreadInit, OnDisconnect,
     FreeConnection, OnUnknown
<1>9. ASSUME ProxyAnswers PROVE UNCHANGED <<cconn>>
  BY <1>9 DEF ProxyAnswers
<1>10. ASSUME CmFault PROVE UNCHANGED <<cconn>>
  BY <1>10 DEF CmFault
<1>11. CASE UNCHANGED vars
  BY <1>11 DEF vars
<1> QED BY <1>1, <1>2, <1>3, <1>4, <1>5, <1>6, <1>7, <1>8, <1>9, <1>10,
       <1>11 DEF Next

(* A client frees its connection only after both completions, and with the *)
(* answer in its buffer.                                                   *)
THEOREM FreesAfterAnswer == Sequential => (Spec => FreedOnlyServed)
<1> SUFFICES ASSUME Sequential PROVE Spec => FreedOnlyServed
  OBVIOUS
<1> DEFINE Served == \A c \in Clients : cconn[c] = "live" /\ cconn'[c] = "freed"
                       => num[c] = 2 /\ cregion[c] # None
<1>1. TypeInv /\ SeqInv /\ [Next]_vars => Served
  <2> SUFFICES ASSUME Ready, ~Faults, [Next]_vars, NEW c \in Clients,
                      cconn[c] = "live", cconn'[c] = "freed"
               PROVE  num[c] = 2 /\ cregion[c] # None
    BY DEF Ready, Sequential
  <2>1. cconn \in [Clients -> {"none", "live", "freed"}]
    BY Parts, FunctionTypes
  <2>2. PICK d \in Clients : OnAddrResolved(d) \/ ClientOnDisconnect(d)
    BY FreeFrame
  <2>3. d = c /\ ClientOnDisconnect(c)
    BY <2>1, <2>2 DEF OnAddrResolved, ClientOnDisconnect
  <2>4. GetsEvent(c, {"DISCONNECTED"})
    BY <2>3 DEF ClientOnDisconnect
  <2>5. cm[c] = "closed"
    BY <2>4, SeqExpected
  <2> QED BY <2>5, AllCounted, FabricAssumption DEF Disconnect
<1>2. TypeInv /\ SeqInv /\ [Next]_vars => [Served]_vars
  BY <1>1
<1> HIDE DEF Served
<1>3. [][Served]_vars => FreedOnlyServed
  BY PTL DEF FreedOnlyServed, Served
<1> QED BY <1>2, <1>3, SeqInvariance, PTL DEF Spec
-----------------------------------------------------------------------------
(* The bridge implements the safety half of RequestService.                *)

(* The client the main loop is busy with.                                  *)
LEMMA Busy ==
  ASSUME Ready, spc \in Handling \cup {"established"}
  PROVE  event_copy.id \in Clients
<1>1. HandlerPlace
  BY Parts
<1>2. event_copy.type # "DEVICE_REMOVAL"
  BY <1>1 DEF HandlerPlace
<1> QED BY <1>2, Ids

(* Where the CONNECT_REQUEST branch has not asked WANProxy yet.            *)
Asks == Handling \ {"read"}

(* For a client that has its worker the branch is over.                    *)
LEMMA MainIsFree ==
  ASSUME Ready, NEW c \in Clients, cm[c] = "connected", wpc[c] # "none"
  PROVE  spc \notin Handling
<1> SUFFICES ASSUME spc \in Handling PROVE FALSE
  OBVIOUS
<1>1. event_copy.id \in Clients /\ HandlerPlace
  BY Busy, Parts
<1>2. cm[event_copy.id] \in {"accepted", "connected"} /\ wpc[event_copy.id] = "none"
  BY <1>1 DEF HandlerPlace, Handles
<1>3. event_copy.id = c
  BY <1>1, <1>2, Alone DEF Out
<1> QED BY <1>2, <1>3

(* The branch goes on until it asks, unless the server ends.               *)
LEMMA AsksFirst ==
  ASSUME Ready, [Next]_vars, SrvUp', ~SocketSend
  PROVE  /\ seen' = seen
         /\ spc \in Asks => spc' \in Asks
<1> USE DEF serverVars, proxyVars, Asks, Handling
<1> DEFINE Goal == seen' = seen /\ (spc \in Asks => spc' \in Asks)
<1>1. ASSUME NEW c \in Clients, Launch(c) PROVE Goal
  BY <1>1 DEF Launch
<1>2. ASSUME NEW c \in Clients, ClientMain(c) PROVE Goal
  BY <1>2 DEF ClientMain, OnAddrResolved, OnRouteResolved,
     OnConnectionReqSock, ClientOnDisconnect, OnUnknownEvent, ClientExit
<1>3. ASSUME NEW c \in Clients, Poller(c) PROVE Goal
  BY <1>3 DEF Poller, PollerGetEvent, PollerReqNotify, PollerPoll,
     PollerOnCompletion
<1>4. ASSUME NEW c \in Clients, CmStep(c) PROVE Goal
  BY <1>4 DEF CmStep
<1>5. ASSUME NEW c \in Clients, Adapter(c) PROVE Goal
  BY <1>5 DEF Adapter, DeliverRequest, AckRequest, FailRequest,
     DeliverResponse, FailResponse
<1>6. ASSUME NEW c \in Clients, Worker(c) PROVE Goal
  BY <1>6 DEF Worker, WorkerStart, WorkerCopy, WorkerPost, SrvUp
<1>7. ASSUME ServerPoll PROVE Goal
  <2>1. PICK c \in Clients : event_copy.id = c
    BY <1>7, Busy DEF ServerPoll
  <2>2. Handles(c) /\ ~srecv[c]
    BY <1>7, <2>1, Forwarding DEF ServerPoll
  <2>3. Len(scq.wcs) = 1 /\ scq.wcs[1].ok /\ scq.wcs[1].op = "RECV"
    BY <1>7, <2>2 DEF Handles, ServerPoll
  <2>4. HasCompletion(scq) /\ Oldest(scq) = scq.wcs[1]
    BY <2>3, Parts, ServerCq
  <2> QED BY <1>7, <2>3, <2>4 DEF ServerPoll
<1>8. ASSUME ServerThread, ~ServerPoll PROVE Goal
  BY <1>8 DEF ServerThread, ServerGetEvent, OnConnectRequest,
     ServerGetCqEvent, ServerReqNotify, SocketConnect, SocketRead,
     OnEstablished, OnDisconnect, OnUnknown, SrvUp
<1>9. ASSUME ProxyAnswers \/ CmFault PROVE Goal
  BY <1>9 DEF ProxyAnswers, CmFault
<1>10. CASE UNCHANGED vars
  BY <1>10 DEF vars
<1> QED BY <1>1, <1>2, <1>3, <1>4, <1>5, <1>6, <1>7, <1>8, <1>9, <1>10,
        NoFailure DEF Next

(* A client is connected once it is accepted.                              *)
LEMMA ConnectsAccepted ==
  ASSUME Ready, [Next]_vars, NEW d \in Clients, cm'[d] = "connected"
  PROVE  cm[d] \in {"accepted", "connected"}
<1> DEFINE Goal == cm[d] \in {"accepted", "connected"}
<1>0. cm \in [Clients -> CmStates]
  BY Parts, FunctionTypes
<1>1. ASSUME NEW c \in Clients,
             Launch(c) \/ OnAddrResolved(c) \/ OnRouteResolved(c)
      PROVE  Goal
  BY <1>0, <1>1 DEF Launch, OnAddrResolved, OnRouteResolved
<1>2. ASSUME NEW c \in Clients, PollerOnCompletion(c) PROVE Goal
  <2>1. cm' = cm \/ cm' = [cm EXCEPT ![c] = "disconnecting"]
    BY <1>2 DEF PollerOnCompletion, RdmaDisconnect
  <2> QED BY <1>0, <2>1
<1>3. ASSUME NEW c \in Clients, CmStep(c) PROVE Goal
  <2>1. \/ CmAddr(c) \/ CmRoute(c) \/ CmRequest(c) \/ CmReply(c) \/ CmRtu(c)
        \/ CmDreq(c) \/ CmDrep(c)
    BY <1>3, NoFailure DEF CmStep
  <2>2. CASE CmAddr(c) \/ CmRoute(c) \/ CmRequest(c) \/ CmReply(c)
    BY <1>0, <2>2 DEF CmAddr, CmRoute, CmRequest, CmReply
  <2>3. CASE CmRtu(c) \/ CmDreq(c) \/ CmDrep(c)
    BY <1>0, <2>3 DEF CmRtu, CmDreq, CmDrep
  <2> QED BY <2>1, <2>2, <2>3
<1>4. ASSUME OnConnectRequest PROVE Goal
  BY <1>0, <1>4 DEF OnConnectRequest
<1> QED BY <1>1, <1>2, <1>3, <1>4, CmFrame

(* Heard is kept by every step that does not end the server.               *)
LEMMA HeardStep ==
  ASSUME Ready, \A c \in Clients : Heard(c), [Next]_vars, SrvUp',
         NEW d \in Clients
  PROVE  Heard(d)'
<1>1. CASE SocketSend
  <2>1. PICK c \in Clients : event_copy.id = c
    BY <1>1, Busy DEF SocketSend, Handling
  <2>2. cm[c] = "connected" /\ recvRegion[wc.conn] = c
    BY <1>1, <2>1, Forwarding DEF SocketSend, Handling, Handles
  <2>3. /\ seen' = [seen EXCEPT ![c] = @ + 1] /\ cm' = cm
        /\ seen \in [Clients -> Nat]
    BY <1>1, <2>2, Parts, FunctionTypes DEF SocketSend, cmVars
  <2>4. seen'[c] > 0
    BY <2>3
  <2>5. d # c => cm'[d] # "connected"
    BY <2>2, <2>3, Alone DEF Out
  <2> QED BY <2>4, <2>5 DEF Heard
<1>2. CASE ~SocketSend
  <2>1. seen' = seen /\ (spc \in Asks => spc' \in Asks)
    BY <1>2, AsksFirst
  <2>2. cm[d] = "accepted" => spc \in Asks
    BY Parts DEF Place, ServerPlace, Asks, Handling
  <2>3. Heard(d)
    OBVIOUS
  <2> QED BY <2>1, <2>2, <2>3, ConnectsAccepted DEF Heard, Asks
<1> QED BY <1>1, <1>2

(* Once the server has ended nothing arrives for it.                       *)
LEMMA FreshStays ==
  ASSUME \A c \in Clients : Fresh(c), ~SrvUp', [Next]_vars, TypeInv,
         NEW d \in Clients
  PROVE  Fresh(d)'
<1> USE DEF serverVars, clientVars, proxyVars, SrvUp
<1> DEFINE Goal ==
      /\ pending' = pending /\ seen' = seen
      /\ cpc'[d] = "idle" =>
           cpc[d] = "idle" /\ (ppc[d] = "none" => ppc'[d] = "none")
<1>0. /\ cpc \in [Clients -> ClientPcs] /\ ppc \in [Clients -> PollerPcs]
      /\ Fresh(d)
  BY FunctionTypes
<1>1. ASSUME NEW c \in Clients PROVE ~DeliverResponse(c)
  BY DEF DeliverResponse
<1>2. cregion' = cregion
  BY <1>1, ArrivalFrame
<1>3. ASSUME NEW c \in Clients, cpc' = [cpc EXCEPT ![c] = "died"],
             ppc' = [ppc EXCEPT ![c] = "none"], UNCHANGED <<pending, seen>>
      PROVE  Goal
  BY <1>0, <1>3
<1>4. ASSUME NEW c \in Clients, Launch(c) \/ ClientCrash(c) PROVE Goal
  <2>1. CASE Launch(c)
    <3>1. /\ cpc[c] = "idle" /\ ppc' = ppc /\ UNCHANGED <<pending, seen>>
          /\ \/ cpc' = [cpc EXCEPT ![c] = "loop"]
             \/ cpc' = [cpc EXCEPT ![c] = "exited"]
      BY <2>1 DEF Launch
    <3> QED BY <1>0, <3>1
  <2>2. CASE ClientCrash(c)
    BY <1>3, <2>2 DEF ClientCrash, Die
  <2> QED BY <1>4, <2>1, <2>2
<1>5. ASSUME NEW c \in Clients, ClientMain(c) PROVE Goal
  <2>1. CASE OnAddrResolved(c)
    <3>1. cpc[c] = "loop" /\ cpc' = cpc /\ UNCHANGED <<pending, seen>>
          /\ ppc' = [ppc EXCEPT ![c] = "wait"]
      BY <2>1 DEF OnAddrResolved, GetsEvent, ClientBuildContext
    <3> QED BY <1>0, <3>1
  <2>2. CASE OnUnknownEvent(c)
    BY <1>3, <2>2 DEF OnUnknownEvent, Die
  <2>3. CASE ClientOnDisconnect(c)
    <3>1. cpc' = [cpc EXCEPT ![c] = "leaving"] /\ UNCHANGED <<ppc, pending, seen>>
      BY <2>3 DEF ClientOnDisconnect
    <3> QED BY <1>0, <3>1
  <2>4. CASE ClientExit(c)
    <3>1. /\ cpc' = [cpc EXCEPT ![c] = "exited"]
          /\ ppc' = [ppc EXCEPT ![c] = "none"]
          /\ UNCHANGED <<pending, seen>>
      BY <2>4 DEF ClientExit
    <3> QED BY <1>0, <3>1
  <2>5. CASE OnRouteResolved(c) \/ OnConnectionReqSock(c)
    BY <2>5 DEF OnRouteResolved, OnConnectionReqSock
  <2> QED BY <1>5, <2>1, <2>2, <2>3, <2>4, <2>5 DEF ClientMain
<1>6. ASSUME NEW c \in Clients, Poller(c) PROVE Goal
  <2>1. CASE cpc' = cpc
    <3>1. /\ ppc[c] # "none" /\ UNCHANGED <<pending, seen>>
          /\ \A e \in Clients : e # c => ppc'[e] = ppc[e]
      BY <1>0, <1>6 DEF Poller, PollerGetEvent, PollerReqNotify, PollerPoll,
         PollerOnCompletion, Die
    <3> QED BY <2>1, <3>1
  <2>2. CASE cpc' # cpc
    BY <1>3, <1>6, <2>2 DEF Poller, PollerGetEvent, PollerReqNotify,
       PollerPoll, PollerOnCompletion, Die
  <2> QED BY <2>1, <2>2
<1>7. ASSUME NEW c \in Clients, CmStep(c) PROVE Goal
  BY <1>7 DEF CmStep
<1>8. ASSUME NEW c \in Clients, Adapter(c) PROVE Goal
  BY <1>1, <1>8 DEF Adapter, DeliverRequest, AckRequest, FailRequest,
     FailResponse
<1>9. ASSUME NEW c \in Clients, Worker(c) PROVE Goal
  BY <1>9 DEF Worker, WorkerStart, WorkerCopy, WorkerPost
<1>10. ASSUME ServerThread PROVE Goal
  BY <1>10 DEF ServerThread, ServerGetEvent, OnConnectRequest,
     ServerGetCqEvent, ServerReqNotify, ServerPoll, SocketConnect, SocketSend,
     SocketRead, OnEstablished, OnDisconnect, OnUnknown
<1>11. ASSUME ProxyAnswers \/ CmFault PROVE Goal
  BY <1>11 DEF ProxyAnswers, CmFault
<1>12. ASSUME UNCHANGED vars PROVE Goal
  BY <1>12 DEF vars
<1>13. Goal
  BY <1>4, <1>5, <1>6, <1>7, <1>8, <1>9, <1>10, <1>11, <1>12 DEF Next
<1> HIDE DEF Goal
<1>14. SUFFICES ASSUME cpc'[d] = "idle"
                PROVE  ppc'[d] = "none" /\ cregion'[d] = None
                       /\ pending' # d /\ seen'[d] = 0
  BY DEF Fresh
<1> QED BY <1>0, <1>2, <1>13, <1>14 DEF Goal, Fresh

(* What the refinement may assume of every state.                          *)
LEMMA ServiceInvariance ==
  ASSUME OneAtATime
  PROVE  Spec => [](TypeInv /\ SafeInv /\ ServiceInv)
<1>1. Init => ServiceInv
  <2> SUFFICES ASSUME Init PROVE ServiceInv
    OBVIOUS
  <2>1. \A c \in Clients : Fresh(c)
    BY FabricAssumption DEF Init, FabricInit, ClientInit, Fresh
  <2>2. \A c \in Clients : Heard(c)
    BY DEF Init, FabricInit, Heard
  <2> QED BY <2>1, <2>2 DEF ServiceInv
<1>2. TypeInv /\ SafeInv /\ ServiceInv /\ [Next]_vars /\ (TypeInv /\ SafeInv)'
        => ServiceInv'
  <2> SUFFICES ASSUME TypeInv, SafeInv, ServiceInv, [Next]_vars,
                      TypeInv', SafeInv'
               PROVE  ServiceInv'
    OBVIOUS
  <2>1. CASE SrvUp'
    <3>1. SrvUp
      BY <2>1, DownStaysDown
    <3>2. Ready /\ \A c \in Clients : Heard(c)
      BY <3>1 DEF SafeInv, Ready, ServiceInv
    <3>3. \A c \in Clients : Heard(c)'
      BY <2>1, <3>2, HeardStep
    <3>4. ASSUME NEW c \in Clients PROVE Fresh(c)'
      <4>1. SeqInv'
        BY <2>1 DEF SafeInv
      <4>2. SUFFICES ASSUME cpc'[c] = "idle"
                     PROVE  ppc'[c] = "none" /\ cregion'[c] = None
                            /\ pending' # c /\ seen'[c] = 0
        BY DEF Fresh
      <4>3. Place(c)' /\ cm'[c] = "idle"
        BY <4>1, <4>2 DEF SeqInv, Place, ClientPlace
      <4>4. ppc'[c] = "none" /\ cregion'[c] = None /\ seen'[c] = 0
        BY <4>3 DEF Place, ClientPlace, Sent, ServerPlace, Connected,
           Disconnect, BeforeAccept, BeforeConnection
      <4>5. ASSUME pending' = c PROVE FALSE
        <5>1. spc' = "read" /\ event_copy'.id = c
          BY <4>1, <4>5, FabricAssumption DEF SeqInv, ProxyPlace
        <5>2. cm'[c] \in {"accepted", "connected"}
          BY <4>1, <5>1 DEF SeqInv, HandlerPlace, Handling, Handles
        <5> QED BY <4>3, <5>2
      <4> QED BY <4>4, <4>5
    <3> QED BY <3>3, <3>4 DEF ServiceInv
  <2>2. CASE ~SrvUp'
    BY <2>2, FreshStays DEF ServiceInv
  <2> QED BY <2>1, <2>2
<1> QED BY <1>1, <1>2, SafeInvariance, PTL DEF Spec

(* While the branch of a client waits for WANProxy, or has yet to ask it,  *)
(* the client is in its loop and has no answer.                            *)
LEMMA Asking ==
  ASSUME Ready, spc \in {"send", "read"}, NEW c \in Clients, event_copy.id = c
  PROVE  /\ cm[c] = "connected" /\ cpc[c] = "loop" /\ cregion[c] = None
         /\ recvRegion[wc.conn] = c \/ spc = "read"
<1>1. Handles(c) /\ cm[c] = "connected" /\ crecv[c] /\ recvRegion[c] = c /\ Place(c)
  BY Forwarding, Parts DEF Handling
<1>2. cpc[c] = "loop"
  BY <1>1, Alone DEF Out
<1>3. cregion[c] = None
  BY <1>1 DEF Place, Sent, BeforeConnection
<1> QED BY <1>1, <1>2, <1>3 DEF Handles

(* A run ends by itself or dies.                                           *)
Leaves(c) ==
  \/ OnUnknownEvent(c) \/ ClientExit(c)
  \/ PollerOnCompletion(c) /\ cpc' # cpc

(* The steps that move the stage of a client, or could.                    *)
LEMMA StageFrame ==
  ASSUME ~Crashes, [Next]_vars
  PROVE  \/ \E c \in Clients : \/ Launch(c) \/ ClientOnDisconnect(c)
                               \/ Leaves(c) \/ DeliverResponse(c)
         \/ SocketSend \/ ProxyAnswers
         \/ UNCHANGED <<cpc, cregion, pending, seen>>
<1> USE DEF cmVars, netVars, clientVars, serverVars, workerVars, proxyVars
<1> DEFINE Quietly == UNCHANGED <<cpc, cregion, pending, seen>>
<1>1. ASSUME NEW c \in Clients, ClientMain(c), ~ClientOnDisconnect(c), ~Leaves(c)
      PROVE  Quietly
  BY <1>1 DEF ClientMain, OnAddrResolved, OnRouteResolved,
     OnConnectionReqSock, Leaves
<1>2. ASSUME NEW c \in Clients, Poller(c), ~Leaves(c) PROVE Quietly
  BY <1>2 DEF Poller, PollerGetEvent, PollerReqNotify, PollerPoll,
     PollerOnCompletion, Leaves
<1>3. ASSUME NEW c \in Clients, CmStep(c) PROVE Quietly
  BY <1>3 DEF CmStep
<1>4. ASSUME NEW c \in Clients, Adapter(c), ~DeliverResponse(c) PROVE Quietly
  BY <1>4 DEF Adapter, DeliverRequest, AckRequest, FailRequest, FailResponse
<1>5. ASSUME NEW c \in Clients, Worker(c) PROVE Quietly
  BY <1>5 DEF Worker, WorkerStart, WorkerCopy, WorkerPost
<1>6. ASSUME ServerThread, ~SocketSend PROVE Quietly
  BY <1>6 DEF ServerThread, ServerGetEvent, OnConnectRequest,
     ServerGetCqEvent, ServerReqNotify, ServerPoll, SocketConnect, SocketRead,
     OnEstablished, OnDisconnect, OnUnknown
<1>7. ASSUME CmFault PROVE Quietly
  BY <1>7 DEF CmFault
<1>8. ASSUME UNCHANGED vars PROVE Quietly
  BY <1>8 DEF vars
<1>9. ASSUME NEW c \in Clients PROVE ~ClientCrash(c)
  BY DEF ClientCrash
<1> QED BY <1>1, <1>2, <1>3, <1>4, <1>5, <1>6, <1>7, <1>8, <1>9 DEF Next

(* One client moves, as an action of RequestService moves it.              *)
Moves(c, from, to) ==
  /\ Stage(c) = from /\ Stage(c)' = to
  /\ \A d \in Clients : d # c => Stage(d)' = Stage(d)

Stay == \A d \in Clients : Stage(d)' = Stage(d)

(* The next run asks, or finds no request file.                            *)
LEMMA LaunchAsks ==
  ASSUME TypeInv, NEW c \in Clients, Fresh(c), Launch(c)
  PROVE  Moves(c, "idle", "asked") \/ (Faults /\ Moves(c, "idle", "ended"))
<1>1. /\ cpc[c] = "idle" /\ cregion[c] = None /\ pending # c /\ seen[c] = 0
      /\ UNCHANGED <<cregion, pending, seen>>
  BY DEF Launch, Fresh, proxyVars
<1>2. \A d \in Clients : d # c => cpc'[d] = cpc[d]
  BY FunctionTypes DEF Launch
<1>3. cpc'[c] = "loop" \/ (Faults /\ cpc'[c] = "exited")
  BY FunctionTypes DEF Launch
<1>4. ASSUME NEW d \in Clients, d # c PROVE Stage(d)' = Stage(d)
  BY <1>1, <1>2, <1>4 DEF Stage, Ended
<1>5. Stage(c) = "idle"
  BY <1>1 DEF Stage
<1>6. CASE cpc'[c] = "loop"
  <2>1. Stage(c)' = "asked"
    BY <1>1, <1>6, FabricAssumption DEF Stage, Ended
  <2> QED BY <1>4, <1>5, <2>1 DEF Moves
<1>7. CASE Faults /\ cpc'[c] = "exited"
  <2>1. Stage(c)' = "ended"
    BY <1>7 DEF Stage, Ended
  <2> QED BY <1>4, <1>5, <1>7, <2>1 DEF Moves
<1> QED BY <1>3, <1>6, <1>7

(* The main loop sends the request, and WANProxy has no other.             *)
LEMMA SendForwards ==
  ASSUME Ready, NEW c \in Clients, event_copy.id = c, SocketSend
  PROVE  /\ Moves(c, "asked", "forwarded")
         /\ \A d \in Clients : Stage(d) # "forwarded"
<1>1. spc = "send" /\ ProxyPlace /\ HandlerPlace
  BY Parts DEF SocketSend
<1>2. cpc[c] = "loop" /\ cregion[c] = None /\ recvRegion[wc.conn] = c
  BY <1>1, Asking
<1>3. seen[c] = 0 /\ pending = None
  BY <1>1 DEF HandlerPlace, Handling, Handles, ProxyPlace
<1>4. /\ pending' = c /\ UNCHANGED <<cpc, cregion>>
      /\ seen' = [seen EXCEPT ![c] = @ + 1]
  BY <1>2 DEF SocketSend, clientVars
<1>5. \A d \in Clients : d # c => seen'[d] = seen[d]
  BY <1>4, Parts, FunctionTypes
<1>6. Moves(c, "asked", "forwarded")
  BY <1>2, <1>3, <1>4, <1>5, FabricAssumption DEF Moves, Stage, Ended
<1>7. \A d \in Clients : Stage(d) # "forwarded"
  BY <1>3, FabricAssumption DEF Stage
<1> QED BY <1>6, <1>7

(* WANProxy answers the one it has, or closes the connection.              *)
LEMMA ProxyMoves ==
  ASSUME Ready, NEW c \in Clients, Heard(c), ProxyAnswers, event_copy.id = c
  PROVE  Moves(c, "forwarded", "answered")
<1>1. pending = c /\ spc = "read"
  BY Parts DEF ProxyAnswers, ProxyPlace
<1>2. cm[c] = "connected" /\ cpc[c] = "loop" /\ cregion[c] = None
  BY <1>1, Asking
<1>3. seen[c] > 0
  BY <1>1, <1>2 DEF Heard
<1>4. pending' = None /\ UNCHANGED <<cpc, cregion, seen>>
  BY DEF ProxyAnswers, clientVars
<1> QED BY <1>1, <1>2, <1>3, <1>4, FabricAssumption DEF Moves, Stage, Ended

(* The answer arrives; an empty one serves nobody.                         *)
LEMMA ResponseServes ==
  ASSUME Ready, NEW c \in Clients, Heard(c), DeliverResponse(c)
  PROVE  Moves(c, "answered", "served") \/ (Faults /\ Stay)
<1>1. /\ rsp[c] > 0 /\ crecv[c]
      /\ Place(c) /\ HandlerPlace /\ ProxyPlace /\ TypeInv
  BY Parts DEF DeliverResponse, ClientQpReady
<1>2. wpc[c] = "done" /\ cregion[c] = None
  BY <1>1, Types DEF Place, ServerPlace, WorkerPlace, WorkerPcs,
     CmStates, BeforeAccept, BeforeConnection, Disconnect, One
<1>3. cm[c] = "connected" /\ sendRegion[c] \in Answers(c)
  BY <1>1, <1>2, Types, FabricAssumption DEF Place, Sent, ServerPlace,
     WorkerPlace, CmStates, BeforeAccept, BeforeConnection, Disconnect, One
<1>4. cpc[c] = "loop"
  BY <1>3, Alone DEF Out
<1>5. spc \notin Handling
  BY <1>2, <1>3, MainIsFree
<1>6. pending # c /\ seen[c] > 0
  BY <1>1, <1>3, <1>5, FabricAssumption DEF ProxyPlace, Handling, Heard
<1>7. /\ cregion' = [cregion EXCEPT ![c] = sendRegion[c]]
      /\ UNCHANGED <<cpc, pending, seen>>
  BY DEF DeliverResponse, proxyVars
<1>8. /\ cregion'[c] = sendRegion[c]
      /\ \A d \in Clients : d # c => cregion'[d] = cregion[d]
  BY <1>7, Parts, FunctionTypes
<1>9. ASSUME NEW d \in Clients, d # c PROVE Stage(d)' = Stage(d)
  BY <1>7, <1>8, <1>9 DEF Stage, Ended
<1>10. Stage(c) = "answered"
  BY <1>2, <1>4, <1>6, FabricAssumption DEF Stage, Ended
<1>11. CASE sendRegion[c] = c
  <2>1. Stage(c)' = "served"
    BY <1>4, <1>7, <1>8, <1>11 DEF Stage, Ended
  <2> QED BY <1>9, <1>10, <2>1 DEF Moves
<1>12. CASE sendRegion[c] # c
  <2>1. Faults /\ sendRegion[c] = Empty
    BY <1>3, <1>12 DEF Answers
  <2>2. Stage(c)' = "answered"
    BY <1>4, <1>6, <1>7, <1>8, <1>12 DEF Stage, Ended
  <2> QED BY <1>9, <1>10, <2>1, <2>2 DEF Stay
<1> QED BY <1>11, <1>12

(* Without faults a run ends only when it has been served.                 *)
LEMMA LeavesServed ==
  ASSUME Ready, ~Faults, NEW c \in Clients, Leaves(c)
  PROVE  cpc[c] = "leaving" /\ cregion[c] = c
<1>1. ~OnUnknownEvent(c)
  BY NoFault
<1>2. ASSUME PollerOnCompletion(c), cpc' # cpc PROVE FALSE
  <2>1. pwc[c].ok /\ cconn[c] = "live"
    BY <1>2, Handled DEF PollerOnCompletion
  <2> QED BY <1>2, <2>1 DEF PollerOnCompletion
<1>3. cpc[c] = "leaving" /\ Place(c)
  BY <1>1, <1>2, Parts DEF Leaves, ClientExit
<1>4. cm[c] = "closed"
  BY <1>3 DEF Place, ClientPlace
<1>5. cregion[c] = c
  BY <1>3, <1>4, AllCounted, NoFault DEF Disconnect, Place, Sent
<1> QED BY <1>3, <1>5

(* With faults it may end at any stage.                                    *)
LEMMA LeavesEnds ==
  ASSUME OneAtATime, TypeInv, SafeInv, NEW c \in Clients, Fresh(c), Leaves(c)
  PROVE  \/ Stay
         \/ Moves(c, "served", "ended")
         \/ Faults /\ \E s \in {"asked", "forwarded", "answered"} :
                        Moves(c, s, "ended")
<1>1. /\ cpc'[c] \in {"exited", "died"}
      /\ \A d \in Clients : d # c => cpc'[d] = cpc[d]
      /\ UNCHANGED <<cregion, pending, seen>>
  BY FunctionTypes DEF Leaves, OnUnknownEvent, ClientExit, PollerOnCompletion,
     Die, proxyVars
<1>2. cpc[c] # "idle"
  BY DEF Leaves, OnUnknownEvent, GetsEvent, ClientExit, PollerOnCompletion,
     Fresh
<1>3. Stage(c)' = "ended"
  BY <1>1 DEF Stage, Ended
<1>4. ASSUME NEW d \in Clients, d # c PROVE Stage(d)' = Stage(d)
  BY <1>1, <1>4 DEF Stage, Ended
<1>5. CASE Ended(c)
  <2>1. Stage(c) = "ended"
    BY <1>2, <1>5 DEF Stage
  <2> QED BY <1>3, <1>4, <2>1 DEF Stay
<1>6. CASE ~Ended(c) /\ Faults
  <2>1. Stage(c) \in {"asked", "forwarded", "answered", "served"}
    BY <1>2, <1>6 DEF Stage
  <2> QED BY <1>3, <1>4, <1>6, <2>1 DEF Moves
<1>7. CASE ~Ended(c) /\ ~Faults
  <2>1. Ready
    BY <1>7 DEF Ready, SafeInv
  <2>2. cregion[c] = c
    BY <1>7, <2>1, LeavesServed
  <2>3. Stage(c) = "served"
    BY <1>2, <1>7, <2>2 DEF Stage
  <2> QED BY <1>3, <1>4, <2>3 DEF Moves
<1> QED BY <1>5, <1>6, <1>7

(* A client that leaves its loop is not yet ended.                         *)
LEMMA DisconnectStays ==
  ASSUME TypeInv, NEW c \in Clients, ClientOnDisconnect(c)
  PROVE  Stay
<1>1. cpc[c] = "loop"
  BY DEF ClientOnDisconnect, GetsEvent
<1>2. cpc' = [cpc EXCEPT ![c] = "leaving"]
      /\ UNCHANGED <<cregion, pending, seen>>
  BY DEF ClientOnDisconnect, proxyVars
<1>3. cpc'[c] = "leaving" /\ \A d \in Clients : d # c => cpc'[d] = cpc[d]
  BY <1>2, FunctionTypes
<1> QED BY <1>1, <1>2, <1>3 DEF Stay, Stage, Ended

(* A move changes the abstract state at one client.                        *)
LEMMA MoveRefines ==
  ASSUME NEW c \in Clients, NEW from, NEW to, Moves(c, from, to)
  PROVE  Service!Move(c, from, to)
BY DEF Moves, Service!Move

(* The bridge, used as run_client.sh uses it, takes each request through   *)
(* RequestService's stages in order: forwarded once, one at a time,        *)
(* answered, and only then served.  With faults a run may find nothing to  *)
(* ask, or end before it is served, and nothing else changes: neither the  *)
(* end of the server nor an empty answer lets a request be forwarded again *)
(* or a client be served out of turn.                                      *)
THEOREM BridgeKeepsOrder == OneAtATime => (Spec => KeepsOrder)
<1> SUFFICES ASSUME OneAtATime PROVE Spec => KeepsOrder
  OBVIOUS
<1> DEFINE stages == [c \in Clients |-> Stage(c)]
<1>1. Init => Service!Init
  BY DEF Init, ClientInit, Service!Init, Stage
<1>2. TypeInv /\ SafeInv /\ ServiceInv /\ [Next]_vars => [Service!Next]_stages
  <2> SUFFICES ASSUME TypeInv, SafeInv, ServiceInv, [Next]_vars
               PROVE  Service!Next \/ UNCHANGED stages
    OBVIOUS
  <2>0. /\ \A c \in Clients : Fresh(c)
        /\ SrvUp => Ready /\ \A c \in Clients : Heard(c)
    BY DEF ServiceInv, SafeInv, Ready
  <2>1. ASSUME NEW c \in Clients, Launch(c)
        PROVE  Service!Ask(c) \/ Service!Refuse(c)
    BY <2>0, <2>1, LaunchAsks, MoveRefines DEF Service!Ask, Service!Refuse
  <2>2. ASSUME SocketSend PROVE \E c \in Clients : Service!Forward(c)
    <3>1. Ready
      BY <2>0, <2>2 DEF SocketSend, SrvUp
    <3>2. PICK c \in Clients : event_copy.id = c
      BY <2>2, <3>1, Busy DEF SocketSend, Handling
    <3>3. \A d \in Clients : stages[d] # "forwarded"
      BY <2>2, <3>1, <3>2, SendForwards
    <3>4. Service!Forward(c)
      BY <2>2, <3>1, <3>2, <3>3, SendForwards, MoveRefines DEF Service!Forward
    <3> QED BY <3>4
  <2>3. ASSUME ProxyAnswers PROVE \E c \in Clients : Service!Answer(c)
    <3>1. Ready /\ \A c \in Clients : Heard(c)
      BY <2>0, <2>3 DEF ProxyAnswers
    <3>2. spc = "read"
      BY <2>3, <3>1, Parts DEF ProxyAnswers, ProxyPlace
    <3>3. PICK c \in Clients : event_copy.id = c
      BY <3>1, <3>2, Busy DEF Handling
    <3>4. Service!Answer(c)
      BY <2>3, <3>1, <3>3, ProxyMoves, MoveRefines DEF Service!Answer
    <3> QED BY <3>4
  <2>4. ASSUME NEW c \in Clients, DeliverResponse(c)
        PROVE  Service!Serve(c) \/ UNCHANGED stages
    <3>1. Ready /\ Heard(c)
      BY <2>0, <2>4 DEF DeliverResponse
    <3> QED BY <2>4, <3>1, ResponseServes, MoveRefines DEF Service!Serve, Stay
  <2>5. ASSUME NEW c \in Clients, Leaves(c)
        PROVE  Service!End(c) \/ Service!GiveUp(c) \/ UNCHANGED stages
    <3>1. CASE Stay
      BY <3>1 DEF Stay
    <3>2. CASE Moves(c, "served", "ended")
      BY <3>2, MoveRefines DEF Service!End
    <3>3. CASE Faults /\ \E s \in {"asked", "forwarded", "answered"} :
                           Moves(c, s, "ended")
      BY <3>3, MoveRefines DEF Service!GiveUp
    <3> QED BY <2>0, <2>5, <3>1, <3>2, <3>3, LeavesEnds
  <2>6. ASSUME NEW c \in Clients, ClientOnDisconnect(c) PROVE UNCHANGED stages
    BY <2>6, DisconnectStays DEF Stay
  <2>7. ASSUME UNCHANGED <<cpc, cregion, pending, seen>> PROVE UNCHANGED stages
    BY <2>7 DEF Stage, Ended
  <2>8. ~Crashes
    BY DEF OneAtATime
  <2> QED BY <2>1, <2>2, <2>3, <2>4, <2>5, <2>6, <2>7, <2>8, StageFrame
          DEF Service!Next, Service!Step
<1> QED BY <1>1, <1>2, ServiceInvariance, PTL DEF Spec, KeepsOrder, Service!Order
==============================================================================
