# The RDMA bridge of rdma_delee, in TLA+

The repository is a set of experiments that carry a request of a client over
RDMA to a server, from there over TCP to WANProxy, and the answer back.  Most
directories are copies or steps of the same program.  The modules describe its
newest complete version, `wanproxy_server_side`, in most detail, and the four
programs that work differently: the two-thread bridge before it, the file
transfer, the shared receive queue test and the first client and server.

## The system

### The bridge

| Part | Code | State | Operations |
|---|---|---|---|
| RDMA client | `rdma_client.c`, `client_main.c` | a connection with its `num_completions` and receive buffer; `s_ctx` with a completion queue (CQ); two threads | `on_event` and its handlers in the main thread; `poll_cq`, `on_completion` in the poller |
| RDMA server | `rdma_server.c`, `server_main.c` | `s_ctx`, the local `event_copy` and `wc` of `rdma_sock_thread`, one connection structure per client, the globals `c_info` and `sock_rdma_data` | the branches of the loop of `rdma_sock_thread` |
| Workers | `sock_rdma_thread`, `on_connection` | the connection they found | one thread per ESTABLISHED event: copy the answer, post a send |
| TCP side | `socket.c` | the socket and buffer of `c_info` | `client_thread_init`, `socket_connect`, `socket_send_message` |
| Connection manager, adapters | librdmacm, libibverbs | connections, event channels, posted sends and receives | resolve, connect, accept, RTU, disconnect; deliver, acknowledge, fail |
| WANProxy | not in the repository | a request it has not answered | answer, close |

How they interact: the client connects (CM events go to both sides), the server
accepts and blocks in `ibv_get_cq_event` for the request, sends it to WANProxy
and blocks in `read` for the answer, which `sock_rdma_data` then points to.  The
ESTABLISHED event, which the request may have overtaken, starts a worker that is
given the address of `event_copy` and sends what `sock_rdma_data` points to.
The client disconnects when it has counted two completions; the server's
DISCONNECTED branch frees the connection and drops `s_ctx`.

What is hard here: the client's two threads share a connection that one of them
frees; the worker shares `event_copy` and `sock_rdma_data` with a loop that goes
on; one thread waits in turn for three different sources; completion
notifications are one-shot; `ibv_poll_cq`'s result is ignored on the server; one
receive is posted per side and nothing is retried.  `PROJECT.json` lists these
hazards, and those of the other programs, at their lines.

### The other programs

| Part | Code | State | Operations |
|---|---|---|---|
| File transfer | `03_file-transfer/rdma-file-transfer` | per connection a buffer, a message each way, one receive; the server's files | `event_loop` and `poll_cq` of `common.c`, with the callbacks of `client.c` and `server.c` |
| Two-thread bridge | `wanproxy_client_side/rdma_server.c`, `test_plain_server` | the global `sock_rdma_data`, set by one thread and waited for by the other | `sock_rdma_thread` (CM events, answers), `rdma_sock_thread` (completions, WANProxy) |
| Shared receive queue test | `test_seperate_polling/rdma_srq.c` | `max_wr` receives for all connections; two counters | `run_server`, `run_client`, `await_completion` |
| First client and server | `01_basic-client-server` | a connection each, shared by event thread and poller; a TCP connection per message | handlers of `on_event`, `poll_cq`, `on_completion`, `socket_send` |

In the file transfer the client writes straight into the server's memory, so that
only the order of messages keeps it from overwriting a chunk that is not yet in
the file.  In the two-thread bridge nothing orders the two threads.  In the SRQ
test one message per batch stands for all the credits, and is awaited on a channel
that can hold events for completions that were polled before.  In the first server
the poller blocks on a TCP server while the event thread frees the connection it
works for.

## Modules

| Module | What it models |
|---|---|
| `CompletionQueue` | a CQ with its completion channel: completions, the armed flag, queued events |
| `Fabric` | all variables; the connection manager, the adapters and WANProxy |
| `RdmaClient` | `./client`: one action per handler of the main thread, one per step of the poller |
| `RdmaServer` | `./server`: the loop of `rdma_sock_thread` step by step where another thread can see the middle, and the workers |
| `WanBridge` | the composition, its fairness, its properties |
| `RequestService` | what a client is promised, without threads or queues, and where it may give up |
| `MCWanBridge` | the instances for TLC |
| `WanBridgeSequential` | the inductive invariant for runs that do not overlap and are not killed |
| `CompletionQueue_proof` | facts about the operations of a CQ |
| `WanBridge_proof` | type correctness |
| `WanBridgeAlways_proof` | what holds however the bridge is used: `./client`'s inductive invariant (no lost wakeup, no early disconnect) and `./server`'s (requests are read from live connections) |
| `WanBridgeSequential_proof` | the invariant of `WanBridgeSequential` proved inductive; the safety of runs that do not overlap, and the safety half of `RequestService` |
| `FileCopy` | what copying files promises: one creator, chunks in order, told when complete; and what is left when that promise is broken (`Break`, `Spoil`, `Mislead`) |
| `FileTransfer` | the file transfer: clients and server, event thread and poller each, RDMA WRITE WITH IMM |
| `MCFileTransfer` | its command lines for TLC |
| `FileTransfer_proof` | its inductive invariant, its safety properties, and that it implements `FileCopy` |
| `TwoThreadBridge` | the two-thread bridge with its clients and WANProxy |
| `TwoThreadBridge_proof` | what becomes of `sock_rdma_data` |
| `SrqFlow` | both sides of the shared receive queue test |
| `SrqFlow_proof` | the phases of a batch; the flow control for all options |
| `BasicEcho` | the first client and server, and the TCP server of its test |
| `BasicEcho_proof` | its inductive invariant; the poller's wakeups, and what may end a process |

The four programs are independent of each other and of the bridge; all but
`FileTransfer` use `CompletionQueue`.

### From the code to the model

Of the bridge:

* A client is one run of `./client`, and its request and the answer to it bear
  its name.  `None` is a null pointer or memory nobody wrote, `Empty` a zeroed
  buffer.  Message contents and lengths are abstracted to this.
* Program counters `cpc` (client main thread), `ppc` (poller), `spc` (server
  loop) and `wpc` (workers) name the blocking calls and the points between which
  another thread can interleave.  `cconn` and `sconn` say whether a connection
  structure is allocated; using one that is freed, or null, is an outcome of its
  own: the process dies, or on the client the step has no lasting effect.
* `scq` is the CQ that the server's `s_ctx` names; `ctxConns` are the
  connections whose queue pairs complete on it.  After `s_ctx = NULL` the next
  `build_context` makes a new one, and completions on the old one go nowhere.
* The server's sends have a zeroed `wr_id`, so their completions have
  `conn = None`; receives carry their connection.
* The client's message may be transferred before the server has seen the
  ready-to-use message.  The acknowledgement of the request may come after the
  response.
* A dead process is cleaned up by the kernel: `CmClientGone`, `CmServerGone`.
* `socket_end` also closes `server_fd`, which was never initialised; the model
  gives that no effect.

Of the others:

* `FileTransfer`: the name is write 0, chunk `i` write `i`, and the empty write at
  the end of a file of `n` chunks write `n + 1`.  A write is placed in the buffer
  before its immediate value finds a receive, so a write that came too early would
  spoil the buffer even while it waits.  Both pollers are one action per
  completion, up to the file operation, and one for what follows it.  The
  completion of a write (`cack`) or of a message (`sack`) may be seen at any time
  after it was delivered; `on_completion` does nothing with it, but it is not
  without effect.  The server reads `id->context` before it looks at what
  completed (`server.c:86`), so it may see that DONE was sent when the event
  thread has freed the id (`common.c:120`).  The client's `rdma_disconnect` at DONE
  flushes a last write that is not acknowledged yet, and the failed completion is
  `rc_die` (`common.c:145`); or the poller handles that write's completion when the
  id is destroyed.  Addresses and routes may not resolve (`ClientOnResolveError`).
  The context is `malloc`ed and `fd` set only when a name comes, but
  `on_disconnect` closes it in any case (`server.c:137`): `CloseContext` lets it
  then be no descriptor, any of `Fds`, or an event channel, without which the
  process ends.  Using a context that was freed ends the process, or leaves
  nothing behind, or writes through a descriptor found there (`ServerOnFreed`);
  other things that later allocations may put there are not modelled.  A message
  counts as delivered when the client has it, and nothing that two living
  processes send is lost on the way.
* `TwoThreadBridge`: a region or buffer is whose answer it holds, copied in one
  step.  `s_info->socket` is never set and `cm_params` never initialised, so the
  read may return anything or nothing, and `rdma_accept` may fail.  A client that
  ends by `die` is a client that crashes.
* `SrqFlow`: messages have no content; which connection one takes is only printed.
  `i`, `send_count` and `recv_count` are the code's.  The two sides are given the
  same options.
* `BasicEcho`: a client takes a completion in one step, in any order; the server's
  poller is modelled step by step.  Freeing a connection removes its completions
  from the CQ (`rdma_destroy_qp`); printing (`OnCompletion`) or forwarding
  (`SocketSend`) freed memory works or ends the process.  Addresses and routes may
  not resolve, which ends the client.
* In all of them the CM events of different connections may be taken in any order.
  A client may crash between any two steps (in `FileTransfer` those of `Crashers`);
  in `SrqFlow` nobody does.

The names ending in what went wrong (`LastCompletionOne`, `ArmForgotten`, ...)
are faulty variants of the definition below them.  No specification uses them;
substituting one shows that a property notices the fault.

## What is checked

The runs whose name starts with `wan_` are `MCWanBridge` with one `.cfg` each.
Deadlock is not an error in any run: the systems stop when every client has ended.

| Run | Instance | Shows |
|---|---|---|
| `wan_sequential` | 3 clients, no faults, no overlap | the use `run_client.sh` makes of the bridge: the safety properties, every client is served, `RequestService` is implemented |
| `wan_faults` | 2 clients, faults | no wrong answer, no use of freed memory, every request keeps its order, every client ends |
| `wan_overlap` | 2 clients at the same time | what does not depend on the order of runs |
| `wan_crash` | 2 clients, each may die at any step | the same, after a crash |
| `wan_overlap_exit` | 2 overlapping clients | violated: `ServerStaysUp` |
| `wan_overlap_stale` | 3 overlapping clients | violated: `ForwardsNewRequest` |
| `wan_crash_answer` | 2 clients, crashes | violated: `OwnAnswer` |
| `wan_crash_hang` | 2 clients, crashes | violated: `EveryClientEnds` |
| `file_transfer` | 2 clients at once, one of which may crash; resolving, opening and writing may fail, acknowledgements may be late; files of 1 and 0 chunks with two names, or of 0 and 2 chunks with one name | buffers and contexts are used in time, `rc_die` comes only of the causes that `NobodyDies` names, `FileCopy` is implemented, every client ends |
| `srq_flow` | 11 messages, batches of 4, 2 connections | receives are conserved and never outrun, leftover events do no harm, both sides end |
| `two_thread` | 2 clients at once, one may crash | at most one client is answered, the wait is for ever, every request is forwarded once |
| `basic_echo` | 2 clients at once, one may crash; the TCP server need not answer | no completion fails and the server never dies, no wakeup is lost, every client ends |

The properties are stated, with the code they are about, in `WanBridge.tla` and in
the modules of the other programs.  A property that holds in several runs of the
bridge is checked where it is hardest to keep: `NoLostWakeup` with overlap and
crashes, `WorkerUsesLiveConnection` and `DisconnectsAfterBoth` with faults.

Bounds of the bridge.  Nothing but the number of clients is bounded: counters and queues stay
finite because each client makes one request.  State carried from one client to
the next goes through `event_copy`, `sock_rdma_data`, `wc`, `s_ctx` and `c_info`,
each overwritten by every client, so two clients show every hand-over and a third
shows what survives two of them; re-forwarding a stale `wc` while overlapping
needs three.

Bounds of the others.  `FileTransfer`: `MaxChunks` is 2, since a chunk that is
followed by another, the last one, and the empty write are the three cases of
`send_next_chunk`; clients share only the poller, the directory and the
descriptors, so two show what one does to the other, and the command lines are
chosen so that they clash there or do not.  `Crashers` is one client, since the
other is the one to be harmed; `Fds` has a descriptor for each.  A chunk that goes
into a third client's file, because the second's descriptor was closed and used
again, is beyond two clients, but what comes before it, the closing of the second's
file, is not, and the theorems hold for any number.  `SrqFlow`: three batches, of which the last is short; a second
batch meets what the first left on the channel.  `TwoThreadBridge` and
`BasicEcho`: two clients, which the one poller and the one `sock_rdma_data` serve
in every order; `MaxCrashes` is 1, because with both crashed nobody is left to be
harmed.  The theorems below hold without these bounds.

Fairness of the others.  Weak fairness of each thread, per connection where the
steps of a thread are (its events and completions come from queues that are served
in order), of the CM and the adapters, and of WANProxy's answer or close.  Starting
and crashing are never forced.  `ReadSocket` of the two-thread bridge has no
fairness, since that read may never return, and `TestServer` of `basic_echo` none
either.

Fairness of the bridge.  Weak fairness of each thread (the operating system schedules it again
while it can run), of the CM and the adapters (what was sent arrives, or fails),
and of WANProxy's answer.  Launching a client and dying are never forced.  A
connection request that the server does not answer times out only where crashes
are allowed; elsewhere no server step is assumed to take a minute.

Where the violations come from: `event_copy` is shared by address
(`rdma_server.c:326`, `:364`); `wc` is looked at even if `ibv_poll_cq` returned
nothing (`:337`); the loop blocks on one client (`:333`).  With runs strictly one
after another and no client dying, `wan_sequential` shows none of these matter, and
the theorems show it for any number of clients.

## What is proved

`TypeCorrect` (`WanBridge_proof`): `Spec => []TypeOK`, for every set of clients
and all values of `Faults`, `Overlap` and `Crashes`.  `TypeOK` alone is not
inductive: the server indexes by `event_copy.id` and by `wc.conn`, which are
clients only if the branch taken fits the event and the completion.  `TypeInv`
adds that (`BranchOK`).  One lemma per group of variables goes through the
actions; the facts about CQs come from `CompletionQueue_proof`.  The only
assumption is `FabricAssumption`, that the constants `None` and `Empty` are
distinct and not clients.

`PollerWakes` (`WanBridgeAlways_proof`): `NoLostWakeup`, and `DisconnectsOnlyAfterBoth`:
`DisconnectsAfterBoth`, again for all constants, with faults, overlap and crashes.
Neither is inductive.  `ClientInv` has five parts, each about one client:

* `WakeOK`: a poller that waits has an event in its channel, or an armed, empty
  CQ; once it has armed the CQ, it stays armed until it queues an event;
* `ThreadsOK`: how far the connection is, where the main thread is, and whether
  a poller, a receive and an answer exist;
* `EventsOK`: which events can be in the channel: a client is told once that it is
  connected, before it sends its request;
* `CountOK`: the completions that are counted, in the CQ or in the poller's hands
  are no more than the sends and receives that have finished, and a request
  that failed still has its failure to be seen;
* `AnswerOK`: only an answer is ever sent, so a finished receive means a buffer
  that was written.

At the second success both have finished, and the send has not failed, because
the failure would still be due.

`RequestReadSafely` (`WanBridgeAlways_proof`): `RequestReadFromLiveConnection`, for all
constants.  The stale `wc` that `ibv_poll_cq` leaves is harmless as long as the
connection it names lives; `ServerInv` shows why: between two CONNECT_REQUESTs
the CQ and `wc` can only name connections that complete on the current `s_ctx`
(`ContextOK`, `CompletionsOK`), `s_ctx` is dropped with the connection, and what
`wc` is left with (`LeftoverOK`) is replaced before it is used: the thread gets
past `ibv_get_cq_event` only if a completion is in the CQ, or one of a live
connection is in `wc`.

`WanBridgeSequential_proof`: the other safety properties of the bridge, for every
set of clients.  `OneAtATime == ~Overlap /\ ~Crashes` is the use `run_client.sh`
makes of it, but addresses and routes may not resolve, `request.txt` may be
missing, WANProxy may refuse a connection or close it, and the device may be
removed.  `Sequential` is `OneAtATime /\ ~Faults`.

| Theorem | Property | Under |
|---|---|---|
| `AnswersAreOwn` | `OwnAnswer` | `OneAtATime` |
| `RequestsForwardedOnce` | `ForwardsNewRequest` | `OneAtATime` |
| `WorkersKeepTheirConnection` | `WorkerUsesLiveConnection` | `OneAtATime` |
| `MessagesMeetReceives` | `ReceiveIsPosted` | `OneAtATime` |
| `SocketIsFresh` | `ConnectsFreshSocket` | `OneAtATime` |
| `WorkersKeepTheirEvent` | `WorkerHasItsEvent` | `Sequential` |
| `PollerKeepsItsConnection` | `PollerUsesLiveConnection` | `Sequential` |
| `ServerNeverExits` | `ServerStaysUp` | `Sequential` |
| `FreesAfterAnswer` | `FreedOnlyServed` | `Sequential` |
| `BridgeKeepsOrder` | `KeepsOrder` | `OneAtATime` |

The hypotheses are needed.  The violated runs show what overlapping and killed
clients do.  With faults the removal of the device can overwrite `event_copy`
before the worker reads it; then the worker ends the server, so the wrong
connection is not used, but the event was not its own.  And once the server has
ended, a client is disconnected before it has its answer, and may free its
connection while its poller still handles the acknowledgement.

None of these is inductive: `./server` keeps one `event_copy`, one
`sock_rdma_data`, one `wc`, one socket and one `s_ctx` for all clients, and each is
right only because the client it was last filled for still needs it and no other
does.  `SeqInv` says so:

* `OneActive`, `OneConnection`: one run at a time, one live server connection;
* `Place(c)`: where client `c` is, seen from each side: its two threads
  (`ClientPlace`), the one event that can wait for it (`ClientEvent`), what it has
  sent and received (`Sent`, `Succeeded`), its completions (`Accounted`), the
  server's connection (`ServerPlace`) and its worker (`WorkerPlace`);
* `HandlerPlace`: the main loop works for the client whose event it took last,
  and how far it is says what its CQ, `wc` and socket hold;
* `ProxyPlace`: what is on the TCP connection to WANProxy;
* `Queue`: at most the events still due wait for the main loop, in order, and
  with faults a DEVICE_REMOVAL anywhere among them.

`SeqInv` is about a server that runs.  What is proved of all states is
`SafeInv`: while the server is up `SeqInv` holds, and every answer that has arrived
stays one of its client's own.  `SeqStep` therefore assumes `SrvUp'`; `UpStaysUp`
shows that without faults no step ends the server, `DownStaysDown` that after its
end nothing is delivered any more.

The proof has one lemma per action.  `Elsewhere`, `Resting`, `Quiet` and
`BeforeRequest` say what a step leaves as it was for the other clients and for the
server; `OnlyRemovals` that no event but the removal waits while a client is being
answered; `NoFailure` that a step that a lost message or a death causes is never
taken.

`BridgeKeepsOrder` is the safety half of the refinement, `KeepsOrder`: under the
mapping `Stage` every step of the bridge is a step of `RequestService` or a stutter.
With faults `RequestService` also has `Refuse` (a run finds no request file) and
`GiveUp` (a run ends before it is served), and nothing more: a server that ends, or
an answer that is empty, must look like some run giving up.  Two facts that `SafeInv`
does not have carry the proof.  `Heard`: while the server is up, WANProxy has seen the
request of every connected client that the CONNECT_REQUEST branch is done with or
waits for, so that what is answered was asked.  `Fresh`: a run that has not started
has no answer, no request and no poller, whatever has become of the server
(`FreshStays`), so that it starts at `idle`.  `StageFrame` lists the few steps that can
move a stage; one lemma each says where it goes.

`FileTransfer_proof`: for every set of clients and names, files of every length,
and any number of crashes and failures,

| Theorem | Property |
|---|---|
| `TypeCorrect` | `TypeOK` |
| `BufferKept` | `BufferHeld` |
| `LiveContext` | `HandlesLiveContext` |
| `NobodyEnds` | `NobodyDies` |
| `Implements` | `ImplementsFileCopy` |

What they say, and what they leave room for:

* `LiveContext`: the poller works on a freed connection only if its client crashed,
  or to see that DONE was sent.
* `NobodyEnds`: with no crash, no failed open or write and no use of a freed id that
  ended the server, a client ends by `rc_die` only if the server was not found
  (`Unresolved`) or its last write was flushed after DONE (`Flushed`), and the
  server never does.
* `Implements`: one creator for each name and files that are only added to, always;
  chunks in order, of the right client, and DONE only for a complete file, until a
  crash makes the server close a descriptor that was never set or use a freed
  context (`Spoiled`).  From then on `broken` holds, and `FileCopy` allows `Spoil` and
  `Mislead`.

The invariant `IInv` says that the messages and writes of a connection are one
token; the acknowledgements, which come when they like, are no part of it:

* `TokenOK(c)`: a message under way, received or in the client's hand, a write
  under way, received or in the server's hand: at most one of these, and none
  before the connection is established or after DONE;
* `DataOK(c)`: what the token stands for at its stage: how many chunks the client
  has read, how many the server's file has, and what the buffer holds.  This holds
  only while the server is up and not `Spoiled`; `FilesOK`, that what has chunks or a
  descriptor was created, holds always;
* `ContextOK(c)`, `ReceiveOK(c)`: the context lives as long as the connection, and
  the client's one receive is posted or its completion not yet handled;
* `EndOK(c)`: while the server is up, who disconnects, whose completions fail, and
  what a client that died died of; `DeathOK`: the server dies only of what a crashed
  client has left.

A step of one connection leaves the others as they were, except that the server
may stop (`Elsewhere`, `KeptOK`); with that, one lemma per action suffices
(`Together`).  Each also shows that what is `Spoiled` stays so (`StaysSpoiled`), since
`FileCopy` does not mend its promise.  `Implements` maps each step to one of
`FileCopy` or to a stutter, with the clients whose last message is DONE as those
that were told, and `Spoiled` as `broken`.

`SrqFlow_proof`: `TypeOK`, `ReceivesConserved`, `NeverOutruns` and `GoesOnAfterAll`
for all positive options.  The invariant follows the two threads through a batch:
`BothInBatch`, `ServerSays`, `ClientReads`, `ClientAhead`, `ClientEnds`.  The point
of it is `Quiet`: when the client waits for the next message, its CQ is empty and
armed and its channel holds no event, so nothing left over can wake it.

`TwoThreadBridge_proof`: `TypeOK`, `AtMostOneAnswered` and `WaitNeverEnds` for every
set of clients.  The strengthening is `NobodyYet`: while the thread can still get
past its wait, or has just got past it, nobody was answered.

`BasicEcho_proof`: for every set of clients and any number of crashes,

| Theorem | Property |
|---|---|
| `TypeCorrect` | `TypeOK` |
| `PollerWakes` | `NoWakeupLost` |
| `NobodyEnds` | `NobodyDies` |

`WakeOK` covers the poller also where `socket_send` keeps it from its channel:
while it is away, the CQ stays armed or has queued an event.  The hard step is the
event thread's: `rdma_destroy_qp` takes completions out of the CQ under the poller.
`PurgeFacts` says that what is left was there before, in the same order, and that
the CQ stays armed; `PurgeExists` that `Purge` has a result at all, so that no step
of the model is lost: a least length for which it had none (`LeastNumber`, from the
well-founded order of the numbers) would have one.  `NobodyEnds` says that, with no
crash and no fault, a client dies only because an address or a route did not
resolve, and the server not at all.  For it the two sides of a
connection are tied together: `CountOK` says which completions `num_completions`
stands for, `PlaceOK` what can be on the way, and `ServedOK` that a connection is
given up only by a client that has counted both, so that a greeting on its way
finds its client.

The assumptions of these are those of their modules: `FileTransferAssumption`,
`SrqAssumption`, `TwoThreadAssumption` and `BasicAssumption`, that bounds are
numbers, options positive, and null pointers distinct from clients.

Only model-checked: liveness (`EveryClientServed`, `EveryClientEnds`,
`EveryTransferEnds`, `BothEnd`, `EveryRequestForwarded`) and with it the fairness
of `RequestService` in `ImplementsService`.  The provers here do not handle
fairness and `ENABLED`.  Every other property of a passing run is a theorem.

## Not modelled

Failing verbs calls other than `rdma_accept`, exhausted memory, exhausted
descriptors other than those of the file transfer's `open`, partial TCP reads, message lengths, the size of completion queues, and the functions
of the modelled files that nothing calls are left out.  Of the rest of the
repository:

* The relay threads of `socket.c` look at `socket_connect_request` the wrong way
  round (lines 82 and 239): a peer that connects ends them, and without one they
  read from a socket that was never accepted.  `server_thread` and `client_thread`
  are started by no program.
* The `connect()` hook runs `rdma_sock_linker`, which `RdmaClient` models, inside
  another program.  What it adds, several calls in one process that share the
  static `s_ctx`, depends on that program.
* `rdma_common` and `test_rdma_sock` do not compile; `test_seperate_polling/client.c`
  is one comment; `rdma_simple` is `01_basic-client-server` with a fixed message;
  `tcp` and `test_speed` are a blocking echo and a download script.
* About half of the C of the repository is byte for byte copies of other files of
  it, and much of the rest is earlier versions, disabled code and comments.  A
  definition is mapped to the file it was written from, and its copies are not
  mapped, so the share of all lines that the map names stays low although every
  program that builds and has a protocol of its own has a module.

What could still be added: the hook as a second caller of `RdmaClient`.
