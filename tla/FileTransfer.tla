---------------------------- MODULE FileTransfer -----------------------------
(***************************************************************************)
(* The file transfer of src/03_file-transfer/rdma-file-transfer: client.c, *)
(* server.c and the event loop and poller of common.c that both use.       *)
(*                                                                         *)
(* A client writes the name, then the chunks, then nothing, each with one  *)
(* RDMA WRITE WITH IMM into the one buffer the server has for it, and each *)
(* only when the server's last message allows it: MR for the name, READY   *)
(* for a chunk.  The server answers the empty write with DONE.             *)
(*                                                                         *)
(* Each process has an event thread (event_loop) and a poller (poll_cq).   *)
(* The wait for a completion, the re-arming and the draining loop are one  *)
(* step here, the next completion; CompletionQueue and the modules above   *)
(* it have them apart.  The completion of a write or of a message comes    *)
(* when its acknowledgement does, at any time after it was delivered.      *)
(* Completions of different connections may be taken in any order: the     *)
(* connections share the poller, the directory and the descriptors.        *)
(***************************************************************************)
EXTENDS Integers, Sequences

CONSTANTS
  Clients,     \* the runs of ./client
  Names,       \* file names, as the server sees them
  MaxChunks,   \* the longest file, in buffers of BUFFER_SIZE
  Args,        \* the command lines to choose from, as values of arg
  Fds,         \* the descriptors that the server's open may return
  Crashers,    \* the clients that may crash
  None

ASSUME FileTransferAssumption ==
  /\ MaxChunks \in Nat
  /\ Args \subseteq [Clients -> [name : Names, size : 0..MaxChunks]]
  /\ Fds \subseteq Nat /\ Crashers \subseteq Clients
  /\ None \notin Clients /\ None \notin Names /\ None \notin Fds

VARIABLES
  arg,       \* [Clients -> [name, size]], the client's file; never changes
  \* ---- the connections
  cm,        \* [Clients -> CmStates]
  writes,    \* [Clients -> Seq], the client's writes under way: 0 is the
             \* name, i a chunk, and one more than the size the empty write
  placed,    \* the data of the oldest of them is in the server's buffer
  sends,     \* [Clients -> Nat], the server's messages under way
  \* ---- a client process
  cst,       \* idle, running, exited, died (rc_die), crashed, or fault, by
             \* the use of freed memory
  cpc,       \* its poller: none, idle, handle or repost
  ccq,       \* completions of its CQ: recv or failed
  cack,      \* whether its poller has yet to see the completion of a write
             \* that was delivered
  cposted,   \* posted receives
  cmsg,      \* ctx->msg->id
  sent,      \* chunks it has read from its file
  \* ---- the server process
  spc,       \* its poller: none, idle, handle, reply; or how the process
             \* ended: failed (open or write), died (any other rc_die), or
             \* fault (freed or uninitialised memory)
  swc, sop,  \* the completion in hand: whose, and which
  scq,       \* completions of its CQ by connection: data, eof or failed
  sack,      \* whether its poller has yet to see the completion of a message
             \* that was delivered
  sposted,   \* posted receives
  sctx,      \* id->context: none, live, freed, or used after that
  buffer,    \* ctx->buffer
  smsg,      \* ctx->msg->id
  fname,     \* ctx->file_name
  fd,        \* ctx->fd, None as long as it is not set
  fds,       \* [Fds -> Names or None], the file that a descriptor is open for
  owner,     \* [Names -> Clients or None], the server's directory: who
  data       \* created the file, and what is in it

connVars   == <<cm, writes, placed, sends>>
clientVars == <<cst, cpc, ccq, cack, cposted, cmsg, sent>>
pollerVars == <<spc, swc, sop>>
ctxVars    == <<scq, sack, sposted, sctx, buffer, smsg, fname, fd>>
fileVars   == <<fds, owner, data>>
vars == <<arg, connVars, clientVars, pollerVars, ctxVars, fileVars>>

CmStates == {"none", "addr", "route", "requested", "accepted", "connected",
             "disconnecting", "disconnected", "rejected"}
Messages == {"INVALID", "MR", "READY", "DONE"}

ServerUp   == spc \notin {"failed", "died", "fault"}
Running(c) == cst[c] = "running"

Init ==
  /\ arg \in Args
  /\ cm = [c \in Clients |-> "none"]
  /\ writes = [c \in Clients |-> << >>]
  /\ placed = [c \in Clients |-> FALSE]
  /\ sends = [c \in Clients |-> 0]
  /\ cst = [c \in Clients |-> "idle"]
  /\ cpc = [c \in Clients |-> "none"]
  /\ ccq = [c \in Clients |-> << >>]
  /\ cack = [c \in Clients |-> FALSE]
  /\ cposted = [c \in Clients |-> 0]
  /\ cmsg = [c \in Clients |-> "INVALID"]
  /\ sent = [c \in Clients |-> 0]
  /\ spc = "none" /\ swc = None /\ sop = "data"
  /\ scq = [c \in Clients |-> << >>]
  /\ sack = [c \in Clients |-> FALSE]
  /\ sposted = [c \in Clients |-> 0]
  /\ sctx = [c \in Clients |-> "none"]
  /\ buffer = [c \in Clients |-> None]
  /\ smsg = [c \in Clients |-> "INVALID"]
  /\ fname = [c \in Clients |-> None]
  /\ fd = [c \in Clients |-> None]
  /\ fds = [f \in Fds |-> None]
  /\ owner = [n \in Names |-> None]
  /\ data = [n \in Names |-> << >>]

Connection(c, from, to) == cm[c] = from /\ cm' = [cm EXCEPT ![c] = to]
-----------------------------------------------------------------------------
(* A client's event thread.                                                *)

(* main and rc_client_loop, up to the event loop.                          *)
Start(c) ==
  /\ cst[c] = "idle"
  /\ cst' = [cst EXCEPT ![c] = "running"]
  /\ Connection(c, "none", "addr")
  /\ UNCHANGED <<arg, writes, placed, sends, cpc, ccq, cack, cposted, cmsg,
                 sent, pollerVars, ctxVars, fileVars>>

(* build_connection starts the poller; on_pre_conn posts a receive.        *)
ClientOnAddrResolved(c) ==
  /\ Running(c)
  /\ Connection(c, "addr", "route")
  /\ cpc' = [cpc EXCEPT ![c] = "idle"]
  /\ cposted' = [cposted EXCEPT ![c] = 1]
  /\ UNCHANGED <<arg, writes, placed, sends, cst, ccq, cack, cmsg, sent,
                 pollerVars, ctxVars, fileVars>>

ClientOnRouteResolved(c) ==
  /\ Running(c)
  /\ Connection(c, "route", "requested")
  /\ UNCHANGED <<arg, writes, placed, sends, clientVars, pollerVars, ctxVars,
                 fileVars>>

(* ADDR_ERROR or ROUTE_ERROR, unknown to event_loop: rc_die.               *)
ClientOnResolveError(c) ==
  /\ Running(c)
  /\ cm[c] \in {"addr", "route"}
  /\ cst' = [cst EXCEPT ![c] = "died"]
  /\ UNCHANGED <<arg, connVars, cpc, ccq, cack, cposted, cmsg, sent,
                 pollerVars, ctxVars, fileVars>>

(* exit_on_disconnect: the loop ends, main returns, and the poller ends    *)
(* with it, or it reads the id of a write that completed after the id was  *)
(* destroyed.  The kernel disconnects the clients of a server that is gone.*)
ClientOnDisconnect(c) ==
  /\ Running(c)
  /\ \/ cm[c] = "disconnected"
     \/ ~ServerUp /\ cm[c] \in {"connected", "disconnecting"}
  /\ \/ cst' = [cst EXCEPT ![c] = "exited"]
     \/ cack[c] /\ cst' = [cst EXCEPT ![c] = "fault"]
  /\ UNCHANGED <<arg, connVars, cpc, ccq, cack, cposted, cmsg, sent,
                 pollerVars, ctxVars, fileVars>>

(* Nothing listens, or the server has ended: REJECTED or UNREACHABLE is an *)
(* unknown event.                                                          *)
ClientOnUnknownEvent(c) ==
  /\ Running(c)
  /\ ~ServerUp /\ cm[c] \in {"requested", "accepted"}
  /\ cst' = [cst EXCEPT ![c] = "died"]
  /\ UNCHANGED <<arg, connVars, cpc, ccq, cack, cposted, cmsg, sent,
                 pollerVars, ctxVars, fileVars>>

(* A signal, a failed read or a failed verbs call ends the process, and    *)
(* its queue pair goes with it.                                            *)
ClientCrash(c) ==
  /\ c \in Crashers /\ Running(c)
  /\ cst' = [cst EXCEPT ![c] = "crashed"]
  /\ writes' = [writes EXCEPT ![c] = << >>]
  /\ placed' = [placed EXCEPT ![c] = FALSE]
  /\ cpc' = [cpc EXCEPT ![c] = "none"]
  /\ ccq' = [ccq EXCEPT ![c] = << >>]
  /\ cack' = [cack EXCEPT ![c] = FALSE]
  /\ cposted' = [cposted EXCEPT ![c] = 0]
  /\ UNCHANGED <<arg, cm, sends, cmsg, sent, pollerVars, ctxVars, fileVars>>
-----------------------------------------------------------------------------
(* A client's poller.                                                      *)

(* poll_cq: rc_die at a completion that failed.                            *)
ClientPoll(c) ==
  /\ Running(c)
  /\ cpc[c] = "idle" /\ ccq[c] # << >>
  /\ ccq' = [ccq EXCEPT ![c] = Tail(@)]
  /\ \/ /\ Head(ccq[c]) = "recv"
        /\ cpc' = [cpc EXCEPT ![c] = "handle"]
        /\ UNCHANGED cst
     \/ /\ Head(ccq[c]) = "failed"
        /\ cst' = [cst EXCEPT ![c] = "died"]
        /\ UNCHANGED cpc
  /\ UNCHANGED <<arg, connVars, cack, cposted, cmsg, sent, pollerVars, ctxVars,
                 fileVars>>

(* The completion of a write that was acknowledged: on_completion ignores  *)
(* it.  Completions of writes that follow each other are one here.         *)
ClientPollWrite(c) ==
  /\ Running(c)
  /\ cpc[c] = "idle" /\ cack[c] /\ cm[c] = "connected"
  /\ cack' = [cack EXCEPT ![c] = FALSE]
  /\ UNCHANGED <<arg, connVars, cst, cpc, ccq, cposted, cmsg, sent, pollerVars,
                 ctxVars, fileVars>>

Writes(c, i) == writes' = [writes EXCEPT ![c] = Append(@, i)]

(* send_file_name.                                                         *)
SendFileName(c) == Writes(c, 0) /\ UNCHANGED sent

(* A variant of SendNextChunk with a fault: two chunks at a time.          *)
SendNextTwoChunks(c) ==
  LET n == sent[c] + 1 IN
    /\ writes' = [writes EXCEPT ![c] = @ \o <<n, n + 1>>]
    /\ sent' = [sent EXCEPT ![c] = n + 1]

(* send_next_chunk: read gives the next chunk, or nothing at the end.      *)
SendNextChunk(c) ==
  /\ Writes(c, sent[c] + 1)
  /\ sent' = IF sent[c] < arg[c].size THEN [sent EXCEPT ![c] = @ + 1] ELSE sent

(* A variant of ClientOnMessage with a fault: the client disconnects when  *)
(* it has sent the empty write, not when it is told that it is done.       *)
ClientOnMessageEarly(c) ==
  /\ Running(c)
  /\ cpc[c] = "handle"
  /\ \/ cmsg[c] = "MR" /\ SendFileName(c)
     \/ cmsg[c] = "READY" /\ SendNextChunk(c)
  /\ IF cmsg[c] = "READY" /\ sent[c] = arg[c].size
       THEN cm' = [cm EXCEPT ![c] = "disconnecting"] ELSE UNCHANGED cm
  /\ cpc' = [cpc EXCEPT ![c] = "repost"]
  /\ UNCHANGED <<arg, placed, sends, cst, ccq, cack, cposted, cmsg, pollerVars,
                 ctxVars, fileVars>>

(* on_completion sends what the message asks for and goes on to re-post.   *)
ClientOnMessage(c) ==
  /\ Running(c)
  /\ cpc[c] = "handle"
  /\ \/ cmsg[c] = "MR" /\ SendFileName(c)
     \/ cmsg[c] = "READY" /\ SendNextChunk(c)
  /\ cpc' = [cpc EXCEPT ![c] = "repost"]
  /\ UNCHANGED <<arg, cm, placed, sends, cst, ccq, cack, cposted, cmsg,
                 pollerVars, ctxVars, fileVars>>

(* A variant of ClientOnDone with a fault: no return, so that a receive is *)
(* re-posted and flushed.                                                  *)
ClientOnDoneReposts(c) ==
  /\ Running(c)
  /\ cpc[c] = "handle" /\ cmsg[c] = "DONE"
  /\ cm' = IF cm[c] = "connected" THEN [cm EXCEPT ![c] = "disconnecting"] ELSE cm
  /\ ccq' = [ccq EXCEPT ![c] = Append(@, "failed")]
  /\ cpc' = [cpc EXCEPT ![c] = "idle"]
  /\ UNCHANGED <<arg, writes, placed, sends, cst, cack, cposted, cmsg, sent,
                 pollerVars, ctxVars, fileVars>>

(* on_completion, DONE: rdma_disconnect, which flushes what is still       *)
(* posted and, unless it has completed by then, a write that the server    *)
(* has received and that is not acknowledged; and return.                  *)
ClientOnDone(c) ==
  /\ Running(c)
  /\ cpc[c] = "handle" /\ cmsg[c] = "DONE"
  /\ cm' = IF cm[c] = "connected" THEN [cm EXCEPT ![c] = "disconnecting"] ELSE cm
  /\ \/ /\ cposted[c] > 0 \/ cack[c]
        /\ ccq' = [ccq EXCEPT ![c] = Append(@, "failed")]
     \/ cposted[c] = 0 /\ UNCHANGED ccq
  /\ cpc' = [cpc EXCEPT ![c] = "idle"]
  /\ UNCHANGED <<arg, writes, placed, sends, cst, cack, cposted, cmsg, sent,
                 pollerVars, ctxVars, fileVars>>

(* post_receive, after the write was posted: the server's answer may be    *)
(* there before the receive, and then waits (rnr_retry_count = 7).         *)
ClientPostReceive(c) ==
  /\ Running(c)
  /\ cpc[c] = "repost"
  /\ cposted' = [cposted EXCEPT ![c] = @ + 1]
  /\ cpc' = [cpc EXCEPT ![c] = "idle"]
  /\ UNCHANGED <<arg, connVars, cst, ccq, cack, cmsg, sent, pollerVars,
                 ctxVars, fileVars>>

ClientStep(c) ==
  \/ ClientOnAddrResolved(c) \/ ClientOnRouteResolved(c)
  \/ ClientOnResolveError(c) \/ ClientOnDisconnect(c) \/ ClientOnUnknownEvent(c)
  \/ ClientPoll(c) \/ ClientPollWrite(c) \/ ClientOnMessage(c) \/ ClientOnDone(c)
  \/ ClientPostReceive(c)
-----------------------------------------------------------------------------
(* The server's event thread.                                              *)

(* The message is transferred from ctx->msg, which send_message names.     *)
SendMessage(c, m) ==
  /\ smsg' = [smsg EXCEPT ![c] = m]
  /\ sends' = [sends EXCEPT ![c] = @ + 1]

(* build_connection starts the poller at the first request; on_pre_conn    *)
(* makes the context, with no name in it and with whatever malloc left in  *)
(* fd, and posts a receive; rdma_accept.                                   *)
ServerOnConnectRequest(c) ==
  /\ ServerUp /\ Running(c)
  /\ Connection(c, "requested", "accepted")
  /\ spc' = IF spc = "none" THEN "idle" ELSE spc
  /\ sctx' = [sctx EXCEPT ![c] = "live"]
  /\ fname' = [fname EXCEPT ![c] = None]
  /\ fd' = [fd EXCEPT ![c] = None]
  /\ sposted' = [sposted EXCEPT ![c] = 1]
  /\ UNCHANGED <<arg, writes, placed, sends, clientVars, swc, sop, scq, sack,
                 buffer, smsg, fileVars>>

(* on_connection sends the address and key of the buffer.                  *)
ServerOnEstablished(c) ==
  /\ ServerUp /\ Running(c)
  /\ Connection(c, "accepted", "connected")
  /\ SendMessage(c, "MR")
  /\ UNCHANGED <<arg, writes, placed, clientVars, pollerVars, scq, sack,
                 sposted, sctx, buffer, fname, fd, fileVars>>

ServerDies(how) == spc' = how

(* close of descriptor f, or of a number that is no file's.                *)
CloseFile(f) == fds' = IF f \in Fds THEN [fds EXCEPT ![f] = None] ELSE fds

(* on_disconnect closes ctx->fd, also when no name has come that would     *)
(* have set it.  Then it is any number: of no descriptor, of a file, or of *)
(* an event channel, without which the process ends.                       *)
CloseContext(c) ==
  \/ fname[c] # None /\ CloseFile(fd[c]) /\ UNCHANGED <<fd, spc>>
  \/ /\ fname[c] = None
     /\ \E f \in Fds \cup {None} :
          fd' = [fd EXCEPT ![c] = f] /\ CloseFile(f)
     /\ UNCHANGED spc \/ ServerDies("fault")

(* rdma_destroy_qp drops the QP's completions and work; on_disconnect      *)
(* closes the file and frees the context, and rdma_destroy_id the id.      *)
ServerOnDisconnect(c) ==
  /\ ServerUp
  /\ Connection(c, "disconnecting", "disconnected")
  /\ CloseContext(c)
  /\ sctx' = [sctx EXCEPT ![c] = "freed"]
  /\ scq' = [scq EXCEPT ![c] = << >>]
  /\ sack' = [sack EXCEPT ![c] = FALSE]
  /\ sposted' = [sposted EXCEPT ![c] = 0]
  /\ sends' = [sends EXCEPT ![c] = 0]
  /\ UNCHANGED <<arg, writes, placed, clientVars, swc, sop, buffer, smsg,
                 fname, owner, data>>

(* A client that is gone before it was connected: the connection fails,    *)
(* which is an unknown event.                                              *)
ServerOnUnknownEvent(c) ==
  /\ ServerUp
  /\ cm[c] = "rejected"
  /\ ServerDies("died")
  /\ UNCHANGED <<arg, connVars, clientVars, swc, sop, ctxVars, fileVars>>
-----------------------------------------------------------------------------
(* The server's poller.                                                    *)

(* poll_cq: rc_die at a completion that failed.                            *)
ServerPoll(c) ==
  /\ spc = "idle" /\ scq[c] # << >>
  /\ scq' = [scq EXCEPT ![c] = Tail(@)]
  /\ swc' = c /\ sop' = Head(scq[c])
  /\ IF Head(scq[c]) = "failed" THEN ServerDies("died") ELSE spc' = "handle"
  /\ UNCHANGED <<arg, connVars, clientVars, sack, sposted, sctx, buffer, smsg,
                 fname, fd, fileVars>>

(* The completion of a message that was acknowledged; messages that follow *)
(* each other are one here, too.                                           *)
ServerPollMessage(c) ==
  /\ spc = "idle" /\ sack[c]
  /\ sack' = [sack EXCEPT ![c] = FALSE]
  /\ swc' = c /\ sop' = "sent"
  /\ spc' = "handle"
  /\ UNCHANGED <<arg, connVars, clientVars, scq, sposted, sctx, buffer, smsg,
                 fname, fd, fileVars>>

(* open gives the lowest number that is free.                              *)
LowestFree(f) == fds[f] = None /\ \A g \in Fds : g < f => fds[g] # None

(* A variant of OpenFile with a fault: no O_EXCL.                          *)
OpenFileNotExclusive(c) ==
  /\ fname' = [fname EXCEPT ![c] = arg[c].name]
  /\ owner' = [owner EXCEPT ![arg[c].name] = c]
  /\ \E f \in Fds : /\ LowestFree(f)
                    /\ fd' = [fd EXCEPT ![c] = f]
                    /\ fds' = [fds EXCEPT ![f] = arg[c].name]
  /\ spc' = "reply"
  /\ UNCHANGED data

(* The write that comes before a name is known is the name: open with      *)
(* O_EXCL, and rc_die if the file exists or for any other reason.          *)
OpenFile(c) ==
  /\ fname' = [fname EXCEPT ![c] = arg[c].name]
  /\ \/ /\ owner[arg[c].name] = None
        /\ owner' = [owner EXCEPT ![arg[c].name] = c]
        /\ \E f \in Fds : /\ LowestFree(f)
                          /\ fd' = [fd EXCEPT ![c] = f]
                          /\ fds' = [fds EXCEPT ![f] = arg[c].name]
        /\ spc' = "reply"
     \/ ServerDies("failed") /\ UNCHANGED <<owner, fd, fds>>
  /\ UNCHANGED data

(* write to the file that descriptor f is open for.                        *)
WriteTo(f, x) ==
  /\ f \in Fds /\ fds[f] # None
  /\ data' = [data EXCEPT ![fds[f]] = Append(@, x)]

(* write, which may fail, be short or have no open descriptor: rc_die.     *)
WriteChunk(c) ==
  /\ \/ WriteTo(fd[c], buffer[c]) /\ spc' = "reply"
     \/ ServerDies("failed") /\ UNCHANGED data
  /\ UNCHANGED <<owner, fname, fd, fds>>

ServerHandles(c, op) == spc = "handle" /\ swc = c /\ sop = op

(* on_completion with data in the buffer, up to the file operation.        *)
ServerOnData(c) ==
  /\ ServerHandles(c, "data") /\ sctx[c] = "live"
  /\ IF fname[c] = None THEN OpenFile(c) ELSE WriteChunk(c)
  /\ UNCHANGED <<arg, connVars, clientVars, swc, sop, scq, sack, sposted, sctx,
                 buffer, smsg>>

(* A variant of ServerReady with a fault: the receive is not posted again. *)
ServerReadyNoReceive(c) ==
  /\ spc = "reply" /\ swc = c /\ sctx[c] = "live"
  /\ SendMessage(c, "READY")
  /\ spc' = "idle"
  /\ UNCHANGED <<arg, cm, writes, placed, clientVars, swc, sop, scq, sack,
                 sposted, sctx, buffer, fname, fd, fileVars>>

(* The rest of it: post_receive, and READY.                                *)
ServerReady(c) ==
  /\ spc = "reply" /\ swc = c /\ sctx[c] = "live"
  /\ sposted' = [sposted EXCEPT ![c] = @ + 1]
  /\ SendMessage(c, "READY")
  /\ spc' = "idle"
  /\ UNCHANGED <<arg, cm, writes, placed, clientVars, swc, sop, scq, sack,
                 sctx, buffer, fname, fd, fileVars>>

(* on_completion of the empty write: DONE, and no receive.                 *)
ServerOnEof(c) ==
  /\ ServerHandles(c, "eof") /\ sctx[c] = "live"
  /\ SendMessage(c, "DONE")
  /\ spc' = "idle"
  /\ UNCHANGED <<arg, cm, writes, placed, clientVars, swc, sop, scq, sack,
                 sposted, sctx, buffer, fname, fd, fileVars>>

(* on_completion of a send: it reads the id, and no more.                  *)
ServerOnSent(c) ==
  /\ ServerHandles(c, "sent") /\ sctx[c] = "live"
  /\ spc' = "idle"
  /\ UNCHANGED <<arg, connVars, clientVars, swc, sop, ctxVars, fileVars>>

(* on_completion when the event thread has freed the id and the context    *)
(* under it: the process ends, or the step leaves nothing behind, or it    *)
(* has written to the descriptor it found in the context.                  *)
ServerOnFreed(c) ==
  /\ spc \in {"handle", "reply"} /\ swc = c /\ sctx[c] # "live"
  /\ ServerDies("fault") \/ spc' = "idle"
  /\ sctx' = IF ServerHandles(c, "sent") THEN sctx
             ELSE [sctx EXCEPT ![c] = "used"]
  /\ \/ ServerHandles(c, "data") /\ \E f \in Fds : WriteTo(f, buffer[c])
     \/ UNCHANGED data
  /\ UNCHANGED <<arg, connVars, clientVars, swc, sop, scq, sack, sposted,
                 buffer, smsg, fname, fd, fds, owner>>

ServerStep(c) ==
  \/ ServerOnConnectRequest(c) \/ ServerOnEstablished(c)
  \/ ServerOnDisconnect(c) \/ ServerOnUnknownEvent(c)
  \/ ServerPoll(c) \/ ServerPollMessage(c)
  \/ ServerOnData(c) \/ ServerReady(c) \/ ServerOnEof(c) \/ ServerOnSent(c)
  \/ ServerOnFreed(c)
-----------------------------------------------------------------------------
(* The connection manager and the adapters.                                *)

QpsLive(c) == ServerUp /\ sctx[c] = "live" /\ Running(c)

(* The process of a client has ended before its disconnect: the kernel     *)
(* gives its connection up.                                                *)
CmClientGone(c) ==
  /\ cst[c] \in {"crashed", "died"}
  /\ \/ cm[c] \in {"requested", "accepted"} /\ cm' = [cm EXCEPT ![c] = "rejected"]
     \/ Connection(c, "connected", "disconnecting")
  /\ UNCHANGED <<arg, writes, placed, sends, clientVars, pollerVars, ctxVars,
                 fileVars>>

(* The data of a write is placed before its receive is looked for.         *)
PlaceWrite(c) ==
  /\ QpsLive(c)
  /\ writes[c] # << >> /\ ~placed[c]
  /\ placed' = [placed EXCEPT ![c] = TRUE]
  /\ buffer' = IF Head(writes[c]) > arg[c].size THEN buffer
               ELSE [buffer EXCEPT ![c] = <<c, Head(writes[c])>>]
  /\ UNCHANGED <<arg, cm, writes, sends, clientVars, pollerVars, scq, sack,
                 sposted, sctx, smsg, fname, fd, fileVars>>

(* The immediate value, the length, consumes a receive; the client's       *)
(* adapter hears of it later.                                              *)
DeliverWrite(c) ==
  /\ QpsLive(c)
  /\ placed[c] /\ sposted[c] > 0
  /\ writes' = [writes EXCEPT ![c] = Tail(@)]
  /\ placed' = [placed EXCEPT ![c] = FALSE]
  /\ sposted' = [sposted EXCEPT ![c] = @ - 1]
  /\ scq' = [scq EXCEPT ![c] = Append(@,
               IF Head(writes[c]) > arg[c].size THEN "eof" ELSE "data")]
  /\ cack' = [cack EXCEPT ![c] = TRUE]
  /\ UNCHANGED <<arg, cm, sends, cst, cpc, ccq, cposted, cmsg, sent,
                 pollerVars, sack, sctx, buffer, smsg, fname, fd, fileVars>>

FailWrite(c) ==
  /\ Running(c) /\ ~ServerUp
  /\ writes[c] # << >>
  /\ writes' = [writes EXCEPT ![c] = Tail(@)]
  /\ placed' = [placed EXCEPT ![c] = FALSE]
  /\ ccq' = [ccq EXCEPT ![c] = Append(@, "failed")]
  /\ UNCHANGED <<arg, cm, sends, cst, cpc, cack, cposted, cmsg, sent,
                 pollerVars, ctxVars, fileVars>>

(* The server's adapter, too, hears later of a message that arrived.       *)
DeliverMessage(c) ==
  /\ QpsLive(c)
  /\ sends[c] > 0 /\ cposted[c] > 0
  /\ sends' = [sends EXCEPT ![c] = @ - 1]
  /\ cposted' = [cposted EXCEPT ![c] = @ - 1]
  /\ cmsg' = [cmsg EXCEPT ![c] = smsg[c]]
  /\ ccq' = [ccq EXCEPT ![c] = Append(@, "recv")]
  /\ sack' = [sack EXCEPT ![c] = TRUE]
  /\ UNCHANGED <<arg, cm, writes, placed, cst, cpc, cack, sent, pollerVars,
                 scq, sposted, sctx, buffer, smsg, fname, fd, fileVars>>

(* retry_count is 0: a message to a client that is gone fails, unless the  *)
(* event thread hears of it first.                                         *)
FailMessage(c) ==
  /\ ServerUp /\ sctx[c] = "live"
  /\ cst[c] \notin {"idle", "running"}
  /\ sends[c] > 0
  /\ sends' = [sends EXCEPT ![c] = @ - 1]
  /\ scq' = [scq EXCEPT ![c] = Append(@, "failed")]
  /\ UNCHANGED <<arg, cm, writes, placed, clientVars, pollerVars, sack,
                 sposted, sctx, buffer, smsg, fname, fd, fileVars>>

NetStep(c) ==
  \/ CmClientGone(c)
  \/ PlaceWrite(c) \/ DeliverWrite(c) \/ FailWrite(c)
  \/ DeliverMessage(c) \/ FailMessage(c)
-----------------------------------------------------------------------------
Next ==
  \E c \in Clients :
    Start(c) \/ ClientCrash(c) \/ ClientStep(c) \/ ServerStep(c) \/ NetStep(c)

Spec == Init /\ [][Next]_vars

(* The threads of the clients and of the server are scheduled, and the     *)
(* network moves; nobody has to start a client, and nothing has to fail.   *)
FairSpec ==
  /\ Spec
  /\ \A c \in Clients :
       WF_vars(ClientStep(c)) /\ WF_vars(ServerStep(c)) /\ WF_vars(NetStep(c))
-----------------------------------------------------------------------------
(* Every variable has values of its type.                                  *)
TypeOK ==
  /\ arg \in [Clients -> [name : Names, size : 0..MaxChunks]]
  /\ cm \in [Clients -> CmStates]
  /\ writes \in [Clients -> Seq(0..MaxChunks + 1)]
  /\ placed \in [Clients -> BOOLEAN]
  /\ sends \in [Clients -> Nat]
  /\ cst \in [Clients -> {"idle", "running", "exited", "died", "crashed", "fault"}]
  /\ cpc \in [Clients -> {"none", "idle", "handle", "repost"}]
  /\ ccq \in [Clients -> Seq({"recv", "failed"})]
  /\ cack \in [Clients -> BOOLEAN]
  /\ cposted \in [Clients -> Nat]
  /\ cmsg \in [Clients -> Messages]
  /\ sent \in [Clients -> 0..MaxChunks]
  /\ spc \in {"none", "idle", "handle", "reply", "failed", "died", "fault"}
  /\ swc \in Clients \cup {None}
  /\ sop \in {"data", "eof", "sent", "failed"}
  /\ scq \in [Clients -> Seq({"data", "eof", "failed"})]
  /\ sack \in [Clients -> BOOLEAN]
  /\ sposted \in [Clients -> Nat]
  /\ sctx \in [Clients -> {"none", "live", "freed", "used"}]
  /\ buffer \in [Clients -> (Clients \X (0..MaxChunks)) \cup {None}]
  /\ smsg \in [Clients -> Messages]
  /\ fname \in [Clients -> Names \cup {None}]
  /\ fd \in [Clients -> Fds \cup {None}]
  /\ fds \in [Fds -> Names \cup {None}]
  /\ owner \in [Names -> Clients \cup {None}]
  /\ data \in [Names -> Seq((Clients \X (0..MaxChunks)) \cup {None})]

(* While what a write brought waits in the buffer to be used, the client   *)
(* has no further write under way: a write that has not yet found a        *)
(* receive would already have overwritten it.  (on_completion in server.c  *)
(* says READY after write; client.c sends one write for each message.)     *)
DataWaits(c) == sctx[c] = "live" /\
  ((\E i \in DOMAIN scq[c] : scq[c][i] = "data") \/ ServerHandles(c, "data"))
BufferHeld == \A c \in Clients : DataWaits(c) => writes[c] = << >>

(* The poller never works on a connection that the event thread has freed, *)
(* unless its client crashed: a client that runs its protocol disconnects  *)
(* only when the server has no more to do for it than to see that DONE was *)
(* sent.  That completion it may indeed see too late: on_completion reads  *)
(* the id of every completion before it looks at what it is.               *)
HandlesLiveContext ==
  spc \in {"handle", "reply"} =>
    \/ sctx[swc] = "live" \/ cst[swc] = "crashed"
    \/ sop = "sent" /\ cmsg[swc] = "DONE"

(* What ends a client by rc_die although nothing fails around it: its      *)
(* server is not found, or the acknowledgement of its last write comes     *)
(* after DONE, so that rdma_disconnect flushes the write.                  *)
Unresolved(c) == cst[c] = "died" /\ cm[c] \in {"addr", "route"}
Flushed(c)    == cst[c] = "died" /\ cmsg[c] = "DONE" /\ cack[c]

(* Nothing else ends anybody with rc_die, whatever the order of the        *)
(* threads' steps and of the completions, as long as no client crashes, no *)
(* open or write fails and the server has not used a freed id: no receive  *)
(* is missing, flushed or left over, and no client that ends takes the     *)
(* server with it.                                                         *)
NobodyDies ==
  (spc \notin {"failed", "fault"} /\ \A c \in Clients : cst[c] # "crashed") =>
    /\ spc # "died"
    /\ \A c \in Clients : cst[c] = "died" => Unresolved(c) \/ Flushed(c)

Copied(c) ==
  LET n == arg[c].name IN
    /\ owner[n] = c
    /\ data[n] = [i \in 1..arg[c].size |-> <<c, i>>]

(* Every client that was started ends, and with its file on the server,    *)
(* unless it did not find the server, some client crashed or the server    *)
(* ended: one process that stops never leaves another waiting.  A client   *)
(* that has its file there exits, or falls over the completion of its last *)
(* write: flushed, or seen when the id is gone.                            *)
EveryTransferEnds ==
  \A c \in Clients :
    Running(c) ~>
      \/ Copied(c) /\ (cst[c] = "exited" \/ (cst[c] \in {"died", "fault"} /\ cack[c]))
      \/ Unresolved(c)
      \/ ~Running(c) /\ (~ServerUp \/ \E d \in Clients : cst[d] = "crashed")

(* The crash of client c has made the server use memory that it must not:  *)
(* its poller acted on the freed context, or on_disconnect closed a file   *)
(* through a descriptor that was never set.                                *)
Spoils(c) ==
  /\ cst[c] = "crashed"
  /\ \/ sctx[c] = "used"
     \/ sctx[c] = "freed" /\ fname[c] = None /\ fd[c] # None
Spoiled == \E c \in Clients : Spoils(c)

(* The transfer implements FileCopy: with the messages, the buffers and    *)
(* the crashes out of sight, files have one creator each, grow chunk by    *)
(* chunk in order, and DONE is received only for a complete file.  What a  *)
(* chunk is and whose is not promised once a client crashed before its     *)
(* name was there and another's file was closed for it (server.c, line     *)
(* 137), or crashed while the poller was at its data.                      *)
FC == INSTANCE FileCopy WITH told   <- {c \in Clients : cmsg[c] = "DONE"},
                             broken <- Spoiled
ImplementsFileCopy == FC!Spec
=============================================================================
