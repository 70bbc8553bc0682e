----------------------------- MODULE RdmaClient -----------------------------
(***************************************************************************)
(* ./client of wanproxy_server_side: rdma_client.c and client_main.c.      *)
(*                                                                         *)
(* One run of it is two threads that share the connection structure.  The  *)
(* main thread, rdma_sock_linker, takes CM events one at a time and ends   *)
(* after the first DISCONNECTED.  The poller thread, poll_cq, is started   *)
(* by the first build_context; it counts completions and disconnects at    *)
(* the second.  A handler is one action where the other thread cannot see  *)
(* its middle.                                                             *)
(***************************************************************************)
EXTENDS Fabric

ClientPcs == {"idle", "loop", "leaving", "exited", "died"}
PollerPcs == {"none", "wait", "arm", "poll", "handle"}

Active(c) == cpc[c] \notin {"idle", "exited", "died"}

ClientInit ==
  /\ cpc = [c \in Clients |-> "idle"]
  /\ ppc = [c \in Clients |-> "none"]
  /\ pwc = [c \in Clients |-> NoWc]
  /\ ccq = [c \in Clients |-> NewCq]
  /\ cconn = [c \in Clients |-> "none"]
  /\ num = [c \in Clients |-> 0]
  /\ crecv = [c \in Clients |-> FALSE]
  /\ cregion = [c \in Clients |-> None]

(* die: exit(EXIT_FAILURE) ends both threads.                              *)
Die(c) ==
  /\ cpc' = [cpc EXCEPT ![c] = "died"]
  /\ ppc' = [ppc EXCEPT ![c] = "none"]

(* The next run of run_client.sh: rdma_sock_linker reads request.txt and   *)
(* either returns at once or goes through rdma_init to the event loop.     *)
Launch(c) ==
  /\ cpc[c] = "idle"
  /\ Overlap \/ \A d \in Clients : ~Active(d)
  /\ \/ /\ cpc' = [cpc EXCEPT ![c] = "loop"]
        /\ cm' = [cm EXCEPT ![c] = "resolving_addr"]
     \/ /\ Faults
        /\ cpc' = [cpc EXCEPT ![c] = "exited"]
        /\ UNCHANGED cm
  /\ UNCHANGED <<rtu, srvEvents, cliEvents, netVars, ppc, pwc, ccq, cconn,
                 num, crecv, cregion, serverVars, workerVars, proxyVars>>

(* The process dies: a signal, or a failed TEST_NZ or TEST_Z in either     *)
(* thread.                                                                 *)
ClientCrash(c) ==
  /\ Crashes
  /\ Active(c)
  /\ Die(c)
  /\ UNCHANGED <<cmVars, netVars, pwc, ccq, cconn, num, crecv, cregion,
                 serverVars, workerVars, proxyVars>>
-----------------------------------------------------------------------------
(* The main thread: rdma_get_cm_event, then on_event.                      *)

GetsEvent(c, types) ==
  /\ cpc[c] = "loop"
  /\ cliEvents[c] # << >>
  /\ Head(cliEvents[c]) \in types
  /\ cliEvents' = [cliEvents EXCEPT ![c] = Tail(@)]

(* build_context, which starts the poller.  s_ctx is null: the process     *)
(* resolves one address.                                                   *)
ClientBuildContext(c) ==
  /\ ccq' = [ccq EXCEPT ![c] = NewCq]
  /\ ppc' = [ppc EXCEPT ![c] = "wait"]

(* register_memory and post_receives: one receive is posted.               *)
ClientPostReceives(c) == crecv' = [crecv EXCEPT ![c] = TRUE]

(* build_context, the QP, the connection, rdma_resolve_route.              *)
OnAddrResolved(c) ==
  /\ GetsEvent(c, {"ADDR_RESOLVED"})
  /\ ClientBuildContext(c)
  /\ cconn' = [cconn EXCEPT ![c] = "live"]
  /\ num' = [num EXCEPT ![c] = 0]
  /\ ClientPostReceives(c)
  /\ cm' = [cm EXCEPT ![c] = "resolving_route"]
  /\ UNCHANGED <<rtu, srvEvents, netVars, cpc, pwc, cregion,
                 serverVars, workerVars, proxyVars>>

OnRouteResolved(c) ==
  /\ GetsEvent(c, {"ROUTE_RESOLVED"})
  /\ cm' = [cm EXCEPT ![c] = "connecting"]
  /\ UNCHANGED <<rtu, srvEvents, netVars, clientVars,
                 serverVars, workerVars, proxyVars>>

(* on_connection_req_sock: a signaled SEND_WITH_IMM of the request.        *)
OnConnectionReqSock(c) ==
  /\ GetsEvent(c, {"ESTABLISHED"})
  /\ req' = [req EXCEPT ![c] = "posted"]
  /\ UNCHANGED <<cm, rtu, srvEvents, rsp, clientVars,
                 serverVars, workerVars, proxyVars>>

(* on_disconnect destroys the QP, with what it has in the CQ, and frees    *)
(* the connection; its return value ends the loop.                         *)
ClientOnDisconnect(c) ==
  /\ GetsEvent(c, {"DISCONNECTED"})
  /\ cconn' = [cconn EXCEPT ![c] = "freed"]
  /\ crecv' = [crecv EXCEPT ![c] = FALSE]
  /\ ccq' = [ccq EXCEPT ![c] = Flush(@)]
  /\ cpc' = [cpc EXCEPT ![c] = "leaving"]
  /\ UNCHANGED <<cm, rtu, srvEvents, netVars, ppc, pwc, num, cregion,
                 serverVars, workerVars, proxyVars>>

(* UNREACHABLE and every event on_event has no branch for.                 *)
OnUnknownEvent(c) ==
  /\ GetsEvent(c, {"ADDR_ERROR", "ROUTE_ERROR", "REJECTED", "UNREACHABLE"})
  /\ Die(c)
  /\ UNCHANGED <<cm, rtu, srvEvents, netVars, pwc, ccq, cconn, num, crecv,
                 cregion, serverVars, workerVars, proxyVars>>

(* rdma_destroy_event_channel and the return from main, which also ends    *)
(* the poller.                                                             *)
ClientExit(c) ==
  /\ cpc[c] = "leaving"
  /\ cpc' = [cpc EXCEPT ![c] = "exited"]
  /\ ppc' = [ppc EXCEPT ![c] = "none"]
  /\ UNCHANGED <<cmVars, netVars, pwc, ccq, cconn, num, crecv, cregion,
                 serverVars, workerVars, proxyVars>>

ClientMain(c) ==
  \/ OnAddrResolved(c) \/ OnRouteResolved(c) \/ OnConnectionReqSock(c)
  \/ ClientOnDisconnect(c) \/ OnUnknownEvent(c) \/ ClientExit(c)
-----------------------------------------------------------------------------
(* The poller thread.                                                      *)

(* ibv_get_cq_event and ibv_ack_cq_events.                                 *)
PollerGetEvent(c) ==
  /\ ppc[c] = "wait"
  /\ HasEvent(ccq[c])
  /\ ccq' = [ccq EXCEPT ![c] = TakeEvent(@)]
  /\ ppc' = [ppc EXCEPT ![c] = "arm"]
  /\ UNCHANGED <<cmVars, netVars, cpc, pwc, cconn, num, crecv, cregion,
                 serverVars, workerVars, proxyVars>>

PollerReqNotify(c) ==
  /\ ppc[c] = "arm"
  /\ ccq' = [ccq EXCEPT ![c] = Arm(@)]
  /\ ppc' = [ppc EXCEPT ![c] = "poll"]
  /\ UNCHANGED <<cmVars, netVars, cpc, pwc, cconn, num, crecv, cregion,
                 serverVars, workerVars, proxyVars>>

(* while (ibv_poll_cq(cq, 1, &wc)).                                        *)
PollerPoll(c) ==
  /\ ppc[c] = "poll"
  /\ \/ /\ HasCompletion(ccq[c])
        /\ pwc' = [pwc EXCEPT ![c] = Oldest(ccq[c])]
        /\ ccq' = [ccq EXCEPT ![c] = Poll(@)]
        /\ ppc' = [ppc EXCEPT ![c] = "handle"]
     \/ /\ ~HasCompletion(ccq[c])
        /\ ppc' = [ppc EXCEPT ![c] = "wait"]
        /\ UNCHANGED <<pwc, ccq>>
  /\ UNCHANGED <<cmVars, netVars, cpc, cconn, num, crecv, cregion,
                 serverVars, workerVars, proxyVars>>

(* rdma_disconnect also errs the client's QP; no receive is posted then.   *)
RdmaDisconnect(c) ==
  cm' = IF cm[c] = "connected" THEN [cm EXCEPT ![c] = "disconnecting"] ELSE cm

(* A variant of LastCompletion with a fault: the answer is not awaited.    *)
LastCompletionOne == 1

(* The count at which on_completion disconnects: the send of the request   *)
(* and the receive of the answer.                                          *)
LastCompletion == 2

(* on_completion.  If the main thread has already freed the connection,    *)
(* the counter is read and written in freed memory: the process dies or    *)
(* the step has no effect that outlives it.                                *)
PollerOnCompletion(c) ==
  /\ ppc[c] = "handle"
  /\ \/ /\ ~pwc[c].ok
        /\ Die(c)
        /\ UNCHANGED <<num, cm>>
     \/ /\ pwc[c].ok /\ cconn[c] = "live"
        /\ num' = [num EXCEPT ![c] = @ + 1]
        /\ IF num[c] + 1 = LastCompletion THEN RdmaDisconnect(c) ELSE UNCHANGED cm
        /\ ppc' = [ppc EXCEPT ![c] = "poll"]
        /\ UNCHANGED cpc
     \/ /\ pwc[c].ok /\ cconn[c] # "live"
        /\ \/ Die(c)
           \/ ppc' = [ppc EXCEPT ![c] = "poll"] /\ UNCHANGED cpc
        /\ UNCHANGED <<num, cm>>
  /\ UNCHANGED <<rtu, srvEvents, cliEvents, netVars, pwc, ccq, cconn, crecv,
                 cregion, serverVars, workerVars, proxyVars>>

Poller(c) ==
  \/ PollerGetEvent(c) \/ PollerReqNotify(c)
  \/ PollerPoll(c) \/ PollerOnCompletion(c)
=============================================================================
