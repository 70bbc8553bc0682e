------------------------------ MODULE BasicEcho ------------------------------
(***************************************************************************)
(* The first client and server, src/01_basic-client-server, with the TCP   *)
(* server of its test directory.  Client and server greet each other; the  *)
(* server's poller forwards the client's message over a TCP connection of  *)
(* its own (socket_send), which it waits for inside the draining loop.     *)
(*                                                                         *)
(* The event thread knows nothing of that: it frees a connection as soon   *)
(* as its client disconnects, with the message still in the CQ, which      *)
(* drops it, or in the poller's hands, which then forwards freed memory.   *)
(*                                                                         *)
(* A client takes its completions one by one, in one step each, and in any *)
(* order; CompletionQueue is used for the server, whose clients share one. *)
(* The connections share nothing else, and their CM events may be taken in *)
(* any order.                                                              *)
(***************************************************************************)
EXTENDS CompletionQueue, FiniteSets

CONSTANTS
  Clients,     \* the runs of ./client
  None,
  MaxCrashes   \* how many of them may crash

ASSUME BasicAssumption == None \notin Clients /\ MaxCrashes \in Nat

VARIABLES
  cst,        \* [Clients -> idle, running, exited, died (die) or crashed]
  cm,         \* [Clients -> CmStates], the connection
  request,    \* [Clients -> none, posted or done], the client's message
  greeting,   \* the server's
  wcs,        \* [Clients -> SUBSET ClientWcs], the client's CQ
  num_completions,
  sctx,       \* id->context of the server: none, live or freed
  cq,         \* s_ctx->cq of the server
  spc, cur,   \* its poller, and the connection whose message it forwards;
              \* died by die, or fault, by the use of freed memory
  tcp,        \* the TCP server: accept, read, close or gone
  got         \* [Clients -> Nat], whole messages the TCP server has read

cliVars  == <<cst, num_completions>>
connVars == <<cm, request, greeting>>
tcpVars  == <<tcp, got>>
vars == <<cliVars, connVars, wcs, sctx, cq, spc, cur, tcpVars>>

CmStates  == {"none", "addr", "route", "requested", "accepted", "rtu",
              "connected", "disconnecting", "disconnected", "rejected"}
ClientWcs == {"SEND", "RECV", "failed"}
Ended     == {"exited", "died", "crashed"}

ServerUp   == spc \notin {"died", "fault"}
Running(c) == cst[c] = "running"

Init ==
  /\ cst = [c \in Clients |-> "idle"]
  /\ cm = [c \in Clients |-> "none"]
  /\ request = [c \in Clients |-> "none"]
  /\ greeting = [c \in Clients |-> "none"]
  /\ wcs = [c \in Clients |-> {}]
  /\ num_completions = [c \in Clients |-> 0]
  /\ sctx = [c \in Clients |-> "none"]
  /\ cq = NewCq
  /\ spc = "none" /\ cur = None
  /\ tcp = "accept"
  /\ got = [c \in Clients |-> 0]

Connection(c, from, to) == cm[c] = from /\ cm' = [cm EXCEPT ![c] = to]
Add(c, w) == wcs' = [wcs EXCEPT ![c] = @ \cup {w}]
-----------------------------------------------------------------------------
(* A client.                                                               *)

(* main, up to its event loop.                                             *)
Start(c) ==
  /\ cst[c] = "idle"
  /\ cst' = [cst EXCEPT ![c] = "running"]
  /\ Connection(c, "none", "addr")
  /\ UNCHANGED <<num_completions, request, greeting, wcs, sctx, cq, spc, cur,
                 tcpVars>>

(* on_addr_resolved posts the receive.                                     *)
ClientOnAddrResolved(c) ==
  /\ Running(c) /\ Connection(c, "addr", "route")
  /\ UNCHANGED <<cliVars, request, greeting, wcs, sctx, cq, spc, cur, tcpVars>>

ClientOnRouteResolved(c) ==
  /\ Running(c) /\ Connection(c, "route", "requested")
  /\ UNCHANGED <<cliVars, request, greeting, wcs, sctx, cq, spc, cur, tcpVars>>

(* ADDR_ERROR or ROUTE_ERROR, unknown to on_event: die.                    *)
ClientOnResolveError(c) ==
  /\ Running(c)
  /\ cm[c] \in {"addr", "route"}
  /\ cst' = [cst EXCEPT ![c] = "died"]
  /\ UNCHANGED <<num_completions, connVars, wcs, sctx, cq, spc, cur, tcpVars>>

(* on_connection posts the message.                                        *)
ClientOnConnection(c) ==
  /\ Running(c) /\ Connection(c, "accepted", "rtu")
  /\ request' = [request EXCEPT ![c] = "posted"]
  /\ UNCHANGED <<cliVars, greeting, wcs, sctx, cq, spc, cur, tcpVars>>

(* rdma_disconnect flushes what is not done.                               *)
Disconnect(c) ==
  /\ cm' = IF cm[c] \in {"rtu", "connected"} THEN [cm EXCEPT ![c] = "disconnecting"]
           ELSE cm
  /\ wcs' = [wcs EXCEPT ![c] = IF request[c] = "done" /\ greeting[c] = "done"
               THEN {} ELSE {"failed"}]

(* A variant of ClientOnCompletion with a fault: the client disconnects at *)
(* its first completion.                                                   *)
ClientOnCompletionFirst(c) ==
  /\ Running(c) /\ wcs[c] # {}
  /\ num_completions' = [num_completions EXCEPT ![c] = @ + 1]
  /\ IF "failed" \in wcs[c]
       THEN cst' = [cst EXCEPT ![c] = "died"] /\ UNCHANGED <<cm, wcs>>
       ELSE Disconnect(c) /\ UNCHANGED cst
  /\ UNCHANGED <<request, greeting, sctx, cq, spc, cur, tcpVars>>

(* on_completion: die if it failed, disconnect at the second.              *)
ClientOnCompletion(c) ==
  /\ Running(c)
  /\ \E w \in wcs[c] :
       \/ /\ w = "failed"
          /\ cst' = [cst EXCEPT ![c] = "died"]
          /\ UNCHANGED <<num_completions, cm, wcs>>
       \/ /\ w # "failed"
          /\ num_completions' = [num_completions EXCEPT ![c] = @ + 1]
          /\ IF num_completions[c] = 1 THEN Disconnect(c)
             ELSE wcs' = [wcs EXCEPT ![c] = @ \ {w}] /\ UNCHANGED cm
          /\ UNCHANGED cst
  /\ UNCHANGED <<request, greeting, sctx, cq, spc, cur, tcpVars>>

(* on_disconnect ends the loop, and main the process; the kernel           *)
(* disconnects the clients of a server that has ended.                     *)
ClientOnDisconnect(c) ==
  /\ Running(c)
  /\ \/ cm[c] = "disconnected"
     \/ ~ServerUp /\ cm[c] \in {"rtu", "connected", "disconnecting"}
  /\ cst' = [cst EXCEPT ![c] = "exited"]
  /\ UNCHANGED <<num_completions, connVars, wcs, sctx, cq, spc, cur, tcpVars>>

(* The server has ended: REJECTED or UNREACHABLE is unknown to on_event.   *)
ClientOnUnknownEvent(c) ==
  /\ Running(c)
  /\ ~ServerUp /\ cm[c] \in {"requested", "accepted"}
  /\ cst' = [cst EXCEPT ![c] = "died"]
  /\ UNCHANGED <<num_completions, connVars, wcs, sctx, cq, spc, cur, tcpVars>>

ClientCrash(c) ==
  /\ Running(c)
  /\ Cardinality({d \in Clients : cst[d] = "crashed"}) < MaxCrashes
  /\ cst' = [cst EXCEPT ![c] = "crashed"]
  /\ UNCHANGED <<num_completions, connVars, wcs, sctx, cq, spc, cur, tcpVars>>

Client(c) ==
  \/ ClientOnAddrResolved(c) \/ ClientOnRouteResolved(c)
  \/ ClientOnResolveError(c)
  \/ ClientOnConnection(c) \/ ClientOnCompletion(c)
  \/ ClientOnDisconnect(c) \/ ClientOnUnknownEvent(c)
-----------------------------------------------------------------------------
(* The event thread of the server.                                         *)

(* build_context starts the poller at the first request.                   *)
OnConnectRequest(c) ==
  /\ ServerUp /\ Running(c)
  /\ Connection(c, "requested", "accepted")
  /\ sctx' = [sctx EXCEPT ![c] = "live"]
  /\ spc' = IF spc = "none" THEN "get_cq_event" ELSE spc
  /\ UNCHANGED <<cliVars, request, greeting, wcs, cq, cur, tcpVars>>

(* A variant of OnConnection with a fault: no greeting.                    *)
OnConnectionSilent(c) ==
  /\ ServerUp
  /\ Connection(c, "rtu", "connected")
  /\ UNCHANGED <<cliVars, request, greeting, wcs, sctx, cq, spc, cur, tcpVars>>

OnConnection(c) ==
  /\ ServerUp
  /\ Connection(c, "rtu", "connected")
  /\ greeting' = [greeting EXCEPT ![c] = "posted"]
  /\ UNCHANGED <<cliVars, request, wcs, sctx, cq, spc, cur, tcpVars>>

(* rdma_destroy_qp takes the completions of connection c out of the CQ:    *)
(* the others move up and keep their order.                                *)
Purge(q, c) ==
  LET kept == {i \in 1 .. Len(q.wcs) : q.wcs[i].conn # c}
      n    == Cardinality(kept)
  IN  {[q EXCEPT !.wcs = [i \in 1 .. n |-> q.wcs[f[i]]]] :
         f \in {g \in [1 .. n -> kept] :
                 \A i, j \in 1 .. n : i < j => g[i] < g[j]}}

(* on_disconnect frees the connection.                                     *)
OnDisconnect(c) ==
  /\ ServerUp
  /\ Connection(c, "disconnecting", "disconnected")
  /\ cq' \in Purge(cq, c)
  /\ greeting' = [greeting EXCEPT ![c] = "done"]
  /\ sctx' = [sctx EXCEPT ![c] = "freed"]
  /\ UNCHANGED <<cliVars, request, wcs, spc, cur, tcpVars>>

OnUnknownEvent(c) ==
  /\ ServerUp
  /\ cm[c] = "rejected"
  /\ spc' = "died"
  /\ UNCHANGED <<cliVars, connVars, wcs, sctx, cq, cur, tcpVars>>

EventThread(c) ==
  OnConnectRequest(c) \/ OnConnection(c) \/ OnDisconnect(c) \/ OnUnknownEvent(c)
-----------------------------------------------------------------------------
(* Its poller.                                                             *)

GetCqEvent ==
  /\ spc = "get_cq_event" /\ HasEvent(cq)
  /\ cq' = TakeEvent(cq)
  /\ spc' = "req_notify"
  /\ UNCHANGED <<cliVars, connVars, wcs, sctx, cur, tcpVars>>

ReqNotify ==
  /\ spc = "req_notify"
  /\ cq' = Arm(cq)
  /\ spc' = "poll"
  /\ UNCHANGED <<cliVars, connVars, wcs, sctx, cur, tcpVars>>

(* poll_cq, and die if the completion is one of a failure.                 *)
PollCq ==
  /\ spc = "poll"
  /\ IF HasCompletion(cq)
       THEN LET w == Oldest(cq) IN
            /\ cq' = Poll(cq)
            /\ spc' = IF ~w.ok THEN "died"
                      ELSE IF w.op = "RECV" THEN "on_completion" ELSE "poll"
            /\ cur' = IF w.op = "RECV" THEN w.conn ELSE cur
       ELSE spc' = "get_cq_event" /\ UNCHANGED <<cq, cur>>
  /\ UNCHANGED <<cliVars, connVars, wcs, sctx, tcpVars>>

(* on_completion prints what is in the region of the connection: either    *)
(* may have been freed since the completion was taken out of the CQ.       *)
OnCompletion ==
  /\ spc = "on_completion"
  /\ spc' \in IF sctx[cur] = "live" THEN {"connect"} ELSE {"connect", "fault"}
  /\ UNCHANGED <<cliVars, connVars, wcs, sctx, cq, cur, tcpVars>>

(* socket_send: connect, which is refused when nobody listens; then send.  *)
(* A connection made while the TCP server closes is never accepted.        *)
SocketConnect ==
  /\ spc = "connect"
  /\ spc' = IF tcp = "gone" THEN "poll" ELSE "send"
  /\ UNCHANGED <<cliVars, connVars, wcs, sctx, cq, cur, tcpVars>>

(* The region the poller sends from may have been freed meanwhile.         *)
SocketSend ==
  /\ spc = "send"
  /\ IF sctx[cur] = "live"
       THEN /\ spc' = "read"
            /\ got' = IF tcp = "accept" THEN [got EXCEPT ![cur] = @ + 1] ELSE got
       ELSE spc' \in {"read", "fault"} /\ UNCHANGED got
  /\ tcp' = IF tcp = "accept" /\ spc' = "read" THEN "read" ELSE tcp
  /\ UNCHANGED <<cliVars, connVars, wcs, sctx, cq, cur>>

(* read, until the TCP server closes the connection or resets it.          *)
SocketRead ==
  /\ spc = "read" /\ tcp \in {"close", "gone"}
  /\ spc' = "poll"
  /\ UNCHANGED <<cliVars, connVars, wcs, sctx, cq, cur, tcpVars>>

Poller ==
  \/ GetCqEvent \/ ReqNotify \/ PollCq
  \/ OnCompletion \/ SocketConnect \/ SocketSend \/ SocketRead

(* test_server: one connection, one read, then both descriptors closed.    *)
TestServer ==
  /\ \/ tcp = "read" /\ tcp' = "close"
     \/ tcp = "close" /\ tcp' = "gone"
  /\ UNCHANGED <<cliVars, connVars, wcs, sctx, cq, spc, cur, got>>
-----------------------------------------------------------------------------
(* The connection manager and the adapters.                                *)

(* The process of a client has ended before it disconnected.               *)
CmClientGone(c) ==
  /\ cst[c] \in {"crashed", "died"}
  /\ \/ cm[c] \in {"requested", "accepted"} /\ cm' = [cm EXCEPT ![c] = "rejected"]
     \/ Connection(c, "connected", "disconnecting")
  /\ UNCHANGED <<cliVars, request, greeting, wcs, sctx, cq, spc, cur, tcpVars>>

(* The message arrives, perhaps before the server hears ESTABLISHED.       *)
DeliverRequest(c) ==
  /\ Running(c) /\ request[c] = "posted"
  /\ request' = [request EXCEPT ![c] = "done"]
  /\ IF ServerUp
       THEN Add(c, "SEND") /\ cq' = Complete(cq, [op |-> "RECV", ok |-> TRUE, conn |-> c])
       ELSE Add(c, "failed") /\ UNCHANGED cq
  /\ UNCHANGED <<cliVars, cm, greeting, sctx, spc, cur, tcpVars>>

(* The greeting arrives, or fails because the client is gone.              *)
DeliverGreeting(c) ==
  /\ ServerUp /\ greeting[c] = "posted"
  /\ greeting' = [greeting EXCEPT ![c] = "done"]
  /\ cq' = Complete(cq, [op |-> "SEND", ok |-> Running(c), conn |-> c])
  /\ IF Running(c) THEN Add(c, "RECV") ELSE UNCHANGED wcs
  /\ UNCHANGED <<cliVars, cm, request, sctx, spc, cur, tcpVars>>

Net(c) == CmClientGone(c) \/ DeliverRequest(c) \/ DeliverGreeting(c)
-----------------------------------------------------------------------------
Next ==
  \/ \E c \in Clients :
       Start(c) \/ ClientCrash(c) \/ Client(c) \/ EventThread(c) \/ Net(c)
  \/ Poller \/ TestServer

Spec == Init /\ [][Next]_vars

(* Threads run and the network moves.  Nothing is assumed of the TCP       *)
(* server, which need not read or close.                                   *)
FairSpec ==
  /\ Spec
  /\ WF_vars(Poller)
  /\ \A c \in Clients : WF_vars(Client(c)) /\ WF_vars(EventThread(c)) /\ WF_vars(Net(c))
-----------------------------------------------------------------------------
(* Every variable has values of its type.                                  *)
TypeOK ==
  /\ cst \in [Clients -> {"idle", "running"} \cup Ended]
  /\ cm \in [Clients -> CmStates]
  /\ request \in [Clients -> {"none", "posted", "done"}]
  /\ greeting \in [Clients -> {"none", "posted", "done"}]
  /\ wcs \in [Clients -> SUBSET ClientWcs]
  /\ num_completions \in [Clients -> 0..2]
  /\ sctx \in [Clients -> {"none", "live", "freed"}]
  /\ cq \in CompletionQueues(WorkCompletion(Clients))
  /\ spc \in {"none", "get_cq_event", "req_notify", "poll", "on_completion",
              "connect", "send", "read", "died", "fault"}
  /\ cur \in Clients \cup {None}
  /\ tcp \in {"accept", "read", "close", "gone"}
  /\ got \in [Clients -> Nat]

(* Unless a client crashed or the server used freed memory, a client ends  *)
(* with die only because it did not find its server, and the server never  *)
(* does: no completion fails, whatever order the two messages, their       *)
(* completions and the disconnect come in, and a client that dies before   *)
(* it is connected leaves the server nothing that could end it.            *)
NobodyDies ==
  (spc # "fault" /\ \A c \in Clients : cst[c] # "crashed") =>
    /\ spc # "died"
    /\ \A c \in Clients : cst[c] = "died" => cm[c] \in {"addr", "route"}

(* Every client ends, also when the poller is blocked in socket_send: the  *)
(* greeting and the disconnect are the event thread's alone.               *)
EveryClientEnds == \A c \in Clients : Running(c) ~> cst[c] \in Ended

(* A message in the CQ is never left to a poller that waits for an event   *)
(* that has been taken: those that come while socket_send keeps the poller *)
(* out of ibv_get_cq_event are announced or drained, and a message is only *)
(* lost when its connection is freed first.                                *)
NoWakeupLost == spc \in {"none", "get_cq_event"} /\ HasCompletion(cq) => HasEvent(cq)
=============================================================================
