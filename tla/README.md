# hmp: formal models and proofs

hmp joins the memory of a fixed set of nodes over RDMA. A node reads
`config.xml`, registers a pool of memory, connects to every node with a larger
id and accepts every node with a smaller one, exchanges the address and rkey of
its pool over each connection, and then serves `hmp_write`, `hmp_read` and
`hmp_malloc`. Each process has two threads: the caller's ("main") thread and an
epoll thread that runs all event handlers. They share memory without a lock.

This directory holds TLA+ models of that code, TLC configurations that check
them, and TLAPS proofs about them.

## 1. Inventory

| Component | State it keeps | Operations | Modelled |
|---|---|---|---|
| Connection set-up (`hmp_transport.c`) | per transport: `trans_state`, `qp`, `hcq`, `cm_id`, event channel; per peer: `dram_mr` | `hmp_transport_listen/connect`, the `on_cm_*` handlers, `hmp_handle_mr_msg`, `hmp_transport_check_state` | `HmpTransport`, implementing `HmpHandshake` |
| Transport resources (`hmp_transport.c:321-438, 641-697`) | event channel, completion channel, their epoll registrations, CQ, QP | `hmp_transport_create`, `hmp_cq_get`, `hmp_qp_create/release`, every cleanup label | `HmpQueuePair` |
| Completion queue (`hmp_transport.c:211-319`) | armed or not, events, completions, tasks | posting, `hmp_cq_comp_channel_handler`, handlers of completions | `HmpCompletion`, implementing `HmpRequests` |
| Remote read and write (`hmp_transport.c:836-924`, `hmp_mem.c:129-169`, `hmp_task.c`) | tasks, posted work requests, memory | `hmp_write`, `hmp_read`, `hmp_rdma_*` | `HmpDataPath`, implementing `HmpMemory` |
| Memory pool (`hmp_mem.c`, `hmp_task.c`) | `alloc_size`, message slots, `cur_recv` | pool layout, task creation, `hmp_malloc`, hybrid addresses | `HmpMem` |
| Hash ring (`hmp_node.c:12-57`) | sorted list of keys | `hmp_hash_init` | `HmpHashRing` on `HmpList` |
| Device list (`hmp_transport.c:24-140`) | `dev_list`, protection domains | `hmp_transport_init/release`, `hmp_device_lookup` | `HmpDevice` on `HmpList` |
| Configuration (`hmp_config.c`) | `node_infos[8]`, `node_cnt`, `curnode_id` | `hmp_config_init` | `HmpStartup`, for all nodes of a cluster |
| Node life cycle (`hmp_node.c`) | `listen_trans`, `connect_trans[]` | `hmp_node_init`, `hmp_node_release` | `HmpStartup` (to the connect loop), `HmpTransport` (from the listen call on), `HmpNode` (lists, from first to last) |
| Epoll loop (`hmp_context.c`) | `epfd` and its watch list, `stop` | `hmp_context_create`, `add/del_event_fd`, `hmp_context_run` | partly: `HmpTransport` (batches, stop), `HmpQueuePair` (registration), `HmpCompletion` |
| Red-black tree (`hmp_rbtree.c`) | tree | insert, erase, replace, iteration | `HmpRbtree` |
| Murmur hash, logging, headers of libxml, libibverbs, librdmacm, Linux lists | | | not modelled (section 7) |

How they interact. The main thread writes `connect_trans`, and `trans_state` up
to `CONNECTING`; the epoll thread writes both too, and `CONNECTED`, `dram_mr`,
`qp`, `task->type`; the main thread spins on `trans_state` and `task->type` and
reads `dram_mr` and `qp`. Nodes interact through the connection manager
(requests, ESTABLISHED and DISCONNECTED events, which each end gets at its own
time), through one INIT message in each direction, and then through one-sided
accesses to each other's pool. The configuration decides which of two nodes
connects. An error in a handler may set `ctx->stop`, which ends the loop of the
whole process.

What is hard, and what makes each part correct:

- *Set-up*: two unsynchronised threads per process, events of the two ends in any order,
  any call failing. No access may be posted before the peer's key is there; an INIT
  message must find a receive request while one could be posted; a request that reached
  a listener must end in a handshake; the shared table and state must not be taken back
  by the other thread.
- *Resources*: seven acquisitions, each with its error path, while a batch of
  ready descriptors is being served. A handler must find the structure its
  registration names; a failure must give back what was taken.
- *Completion queue*: arm, poll and events race; no completion may be
  overlooked; a task may be DONE only after its own transfer.
- *Read and write*: `hmp_write` returns before anything happened; the one thing
  a caller can wait for is a read, which must be a barrier, and must return.
- *Memory pool*: slots of two peers and blocks of two callers must be disjoint
  and inside the pool, and an address must lead back to its node.
- *Start of a cluster*: every node computes ids from its own copy of the file;
  they must agree who is who and who connects.
- *Ring, devices, tree*: sequential code on circular lists and parent pointers,
  which must be whole between any two steps of a loop.

`PROJECT.json` lists the hazards line by line, with the properties that cover
them.

## 2. Structure

```
HmpHandshake <--implements-- HmpTransport   <- MCTransport,  HmpTransportProofs
HmpRequests  <--implements-- HmpCompletion  <- MCCompletion, HmpCompletionProofs
HmpMemory    <--implements-- HmpDataPath    <- MCDataPath,   HmpDataPathProofs
                             HmpMem         <- MCMem,        HmpMemProofs
                             HmpQueuePair   <- MCQueuePair, HmpQueuePairProofs
                             HmpStartup     <- MCStartup,   HmpStartupProofs
HmpList <- HmpHashRing, HmpDevice;  HmpNode composes both <- MCNode, HmpNodeProofs
                             HmpRbtree      <- MCRbtree,    HmpRbtreeProofs
```

The modules cut the system where its parts meet in a narrow interface, and each
takes the other side of the interface as its code allows it. `HmpTransport` ends
where a caller got past `hmp_transport_check_state`; `HmpDataPath` begins there,
with transports that become CONNECTED or fail at any time, and takes a posted
request to be executed in order or lost; `HmpCompletion` is what happens to a
request in between, down to the events of the channel. `HmpQueuePair` goes into
the calls that `HmpTransport` takes as one step. `HmpStartup` gives
`HmpTransport` its premise that of two nodes the lower id connects, and the
regions of `HmpMem` are set in the loop that `HmpStartup` runs. Tasks, slots and
blocks of `HmpMem` are the buffers the other modules only name.

## 3. Modules

### HmpHandshake

What set-up promises, without threads or events: an access of `n` to `p` is
granted only after both ends were built, `p` offered its region and `n` learnt
it. Variables are sets of ordered pairs.

### HmpTransport

All nodes at once; `[n][p]` is the transport node `n` keeps for peer `p`. As in
the code, of two nodes the lower id connects and the higher accepts.

| TLA+ | Code |
|---|---|
| `pc`, `peer` | where the main thread is; the loop variable of `hmp_node_init`, later the target of a call |
| `listening` | `hmp_transport_listen` succeeded |
| `stop`, `batch`, `cur` | `ctx->stop`; what `epoll_wait` returned and is not served yet; the handler being run |
| `connect_trans` | the table entry is not NULL |
| `trans_state` | the field; `"NONE"` where no transport was allocated |
| `qp`, `recvs`, `dram_mr` | queue pair (with its completion channel), posted receives, the peer's region in `node_infos` |
| `recv_errors` | history: the calls of `hmp_post_recv` that only logged an error |
| `cm`, `events` | the identifier in the connection manager and the CM events queued for it (external) |
| `msg` | the INIT message from one end to the other |

The main thread: `CreateFails` (the exits, before the listener and in the loop),
`Listen`, `ClearTable` (the `memset`, after the listener is
open), `StartConnect` and `StoreConnecting` (the loop, split where the epoll
thread can run between `rdma_resolve_addr` and the assignment that follows it),
`InitDone`, `CallWrite`, `CheckState`, `PostWrite`, `CallRelease`, `Released`.

The epoll thread: `EpollWait` takes all ready fds as one batch; `EnterCm` and
`LeaveCm` bracket the drain loop of `hmp_event_channel_handler`; each event has
its handler action (`OnAddrResolved` ... `OnOtherEvent`), which either returns 0
and lets the drain go on or ends it; `StoreMr` and `PublishConnected` are the
two halves of `hmp_handle_mr_msg`, so the main thread can look in between;
`PollNothing` is a completion handler that runs after its queue pair was destroyed
earlier in the same batch. The events of every passive end arrive on the
listener's channel, since an accepted identifier is never migrated.

The connection manager and the wire (`Cm*`, `Deliver`, `RnrError`) are external: they
are modelled from the calls and the events the handlers expect. `PostRecvs` lets each of
the two calls of `hmp_post_recv` give up, for want of a task or in `ibv_post_recv`: the
code only logs that. `RnrError` is what follows where both did: the message finds no
receive request, no retry was asked for, and the sender's queue pair breaks. Nothing
in the code takes note, and both ends stay as they were. `Quit` is a process
that exits or is killed; it does not come back, because nothing in the code
reconnects.

What is abstracted: names, addresses and keys (a key is known or not); the size of
messages; the second posted receive is counted but never used by a second message,
because the code sends only one. `REJECTED`, `UNREACHABLE`, `ADDR_ERROR` and
`ROUTE_ERROR` are one event, as they are to the code. The `malloc` of
`hmp_build_init_msg`, whose result is not looked at, succeeds. Stores become visible in
program order: the Makefile builds for the host without optimisation, so the spin loop
re-reads memory, and on the x86 hosts the adapters need stores are not reordered; on a
weaker machine or with optimisation the results about `CONNECTED` and `dram_mr` would
need barriers the code does not have.

### MCTransport

Names the faults of receive requests and the others, the one missing route of the
three-node run and its initial state.

### HmpRequests, HmpCompletion

One connected transport. `HmpRequests` promises that a request is posted once,
performed at most once, and that whoever waits for a read goes on only after it
was performed well and that was noticed.

| TLA+ | Code |
|---|---|
| `op`, `done` | the task's opcode, `task->type == HMP_TASK_DONE` |
| `reader` | the task the main thread spins on in `hmp_rdma_read` |
| `stage`, `status`, `sq`, `cq`, `overrun`, `armed`, `chan` | where a request is between `ibv_post_send` and the poll, the send queue, the completion queue, `ibv_req_notify_cq`, the channel's events (external) |
| `handler`, `wc`, `deaf` | where `hmp_cq_comp_channel_handler` is, its `struct ibv_wc`, and that the re-arm failed |
| `alive`, `qp` | the process did not crash on freed or uninitialised memory; `on_cm_disconnected` came |
| `burst` | history: calls of `hmp_read` and `hmp_write` since a read returned |

`Write` and `Read` post from the main thread, `PostInit` from the epoll thread.
`GetCqEvent` (get and acknowledge), `ReqNotify`, `PollCq` and `HandleWc` are the
handler's calls in their order, each of which may fail; a failing poll returns a
negative number, which the loop takes for a completion: it handles the `wc` of an
earlier turn, or one that nothing wrote, whose effect is a nondeterministic crash.
`Complete` is the adapter, with an overrun of the queue: sends in their order, receives
when the peer's one message comes or an error flushes them.

### HmpMemory, HmpDataPath

Two or more nodes and their memory. `HmpMemory` is what a caller may rely on: a
node changes its own memory at once; what it asks of another node is done later,
in order, with the buffer as it is *then*, or is lost together with everything
after it; or the call is dropped before anything is asked. A read that returned was
done.

`RemoteCall`, `CheckState`, `NoTask`, `PostWrite`, `PostRead`, `ReadReturn` are the main
thread in `hmp_write` and `hmp_read`, early returns included (`0` also when nothing was
posted: `Posted` and `Logged` are the two ends of a call, and the history variables
`due` and `logged` count, per node and peer, the calls that are not in place and those
of which only a log line remains); `LocalCopy` is the `memcpy` of the node's own memory;
`MarkDone` is the epoll thread; `Execute` and `Fail` are the adapter, which refuses a
buffer outside the pool (`hmp_task.c` gives every buffer the pool's lkey) and a read
without `IBV_ACCESS_REMOTE_READ` (`Rights`).

### HmpMem

The pool of one node in numbers: `HMP_TASK_SIZE`, page rounding, four slots per
peer, blocks behind the slots. `SetRegion`, `PrePostRecv`, `SendInit` assign
slots to tasks; `MallocResult`, `MallocLoad`, `MallocStore` are the three memory
accesses of `hmp_malloc`, by any number of threads; `raced` and `granted` are
history, used by properties only. `HybridAddr`, `NodeIdOf` and `LocalOf` encode
and decode addresses (`Span` stands for 2^48).

### HmpList, HmpHashRing, HmpDevice, HmpNode

`HmpList` has the operations of `linux/list.h` that hmp uses, on a heap of `next` and
`prev` links. `HmpHashRing` is `hmp_hash_init` with one step per turn of either loop.
`HmpDevice` is `hmp_transport_init` (each device usable or not, each call failing or
not; one that `ibv_query_device` fails for is listed, because the call returns a
positive number and the test is for a negative one), the registration of the pool with
the first device, look-ups by the epoll thread while the node runs, and
`hmp_transport_release` with its safe iteration and double deletion. `HmpNode` runs one
after the other, as `hmp_node_init` does.

### HmpStartup

All machines of a cluster, each with its own copy of the file: `ParseChild`,
`SetCurnodeId`, `NotConfigured`, the `hmp_node_init` steps and exits, requests on
their way, and `on_cm_connect_request`'s search for the peer's address among the entries
before its own. Parsing, listening and connecting that fail are ignored, as in the code:
the node goes on with no entries, without a listener, or with a transport in the table that
no request was sent for. Where `hmp_transport_create` fails in the loop the process exits
(`CreateFails`), and its requests may still be on their way. That a file has at most eight
entries is an assumption (`DocsAssumption`): `node_infos` has eight, and nothing in the
code checks it.

### HmpQueuePair

Several transports in one epoll loop. `has[t]` is the set of what exists for a
transport, `pc[t]` the step or cleanup label it is at; `Acquire`, `Attempt` and
`GiveBack` are the three shapes of a line of this code. `EpollWait` takes all ready
descriptors, so a handler may run for one that an earlier handler of the same batch
has done away with. The loop is not stopped by a failed connect here; that is in
`HmpTransport`.

### HmpRbtree

`hmp_rbtree.c` pointer by pointer; mirror-image halves are one definition with the
side as parameter, and each turn of a fix-up loop is a step. No other code of the
repository calls it, so the caller is any sequence of legal calls.

## 4. Runs

| Run | Instance | States | Checks |
|---|---|---|---|
| `faults2` | 2 nodes, every fault but those of receive requests, both call and both may exit | 568,000 | `TypeOK`, `PostHasKey`, `ConnectedMeansHandshake`, `DemotedOnlyByLateStore`, `ImplementsHandshake` |
| `star3` | 3 nodes, node 2 starts last, accepts 0 and 1 and writes to both; `rdma_accept` may fail | 860,000 | `ConnectedMeansHandshake`, `EntryLostOnlyByMemset` with a listener serving two peers and batches of several channels |
| `live2` | 2 nodes, fair, `rdma_connect` and any call of `hmp_post_recv` may fail, both call, node 0 may exit | 204,000 | `ReceivePosted`, `HandshakeCompletes`, `WriteReturns`, `ReleaseReturns` |
| `disconnect2` | 2 nodes, no fault, node 1 may exit | | `CheckRefusesDisconnected`: violated |
| `completion` | 5 requests, two of them receives, 3 queue entries, 3 send requests at a time, every fault, fair | 433,000 | `CompletionAnnounced`, `OverrunNeedsBurst`, `ImplementsRequests`, `CompletionsPolled`, `ReadReturns` |
| `datapath` | 2 nodes, one word in and one outside the pool, 2 values, 3 calls due per queue pair, every fault, the right to read, fair | 197,000 | `ReadIsBarrier`, `ImplementsMemory`, `ReadReturns` |
| `dpread` | the same with the rights of the code and no fault | | `ReadReturns`: violated |
| `mem` | 3 nodes, 2 threads, blocks of 1, 100 and 3500 bytes | 176,000 | `MessagesApart`, `BlocksApartUnlessRaced`, `PoolSuffices`, `HybridAddressesDecode` |
| `node` | 4 configured nodes with any of 3 keys each, up to 3 devices, every fault | 132,000 | `RingInOrder`, `RingBuilt`, `DevicesCounted`, `ListHoldsDevices`, `LookupFinds`, `AllReleased` |
| `startup` | 3 machines, 31 files, every fault | 538,000 | `TypeOK`, `TableNamesPeer`, `RequestsKnown` |
| `queuepair` | 2 active and 1 passive transport, every fault | 139,000 | `TypeOK`, `RegisteredFdsOpen`, `HandlersFindTheirQueue`, `FailureReleases` |
| `rbtree` | all trees on 8 keys | 11,000 | `TypeOK`, `WalkSeesKeys`, `OneDefect`, `CallsReturn` |

What they show.

- `PostHasKey`, `ConnectedMeansHandshake`: a caller that got past the spin loop
  holds a key its peer sent over a connection built at both ends, for every
  interleaving and every failure.
- `ReceivePosted`: an INIT message meets an empty receive queue (the passive side asks
  for no receiver-not-ready retry) only where both calls of `hmp_post_recv` gave up,
  each with a log line, or where the queue pair broke because the message of that very
  end had met such a queue. One receive request would be enough, and nothing else uses
  it up. The run reaches the failure too: the handshake then never ends, no state
  changes, and a caller spins for good. `HandshakeCompletes` excludes exactly an end at
  which both calls failed.
- `EntryLostOnlyByMemset`: the only way a live passive transport is missing from
  `connect_trans` is the `memset` of `hmp_node_init`, which comes after the
  listener is open. The property names that one way; it does happen.
- `DemotedOnlyByLateStore`: the only way `CONNECTED` is taken back, short of a
  fatal error, is the late assignment in `hmp_transport_connect`. It does happen
  too, and a caller then spins for good; `WriteReturns` excludes exactly that
  case.
- `HandshakeCompletes`: a request that reached a listener ends with both keys
  exchanged, unless a process or an event loop is gone, or an end could post no receive
  request.
- `ReleaseReturns`: a stopped loop lets `hmp_node_release` return. Without an
  error nothing sets `ctx->stop`, and the call waits for good.
- `CheckRefusesDisconnected` is violated: `on_cm_disconnected` destroys the queue
  pair and leaves `trans_state` at `CONNECTED`, so `hmp_transport_check_state`
  lets a caller through, although the enumeration has a DISCONNECTED state above
  CONNECTED and the check refuses every state above it. The counterexample needs
  no fault, only a peer that exits after the handshake.
- `CompletionAnnounced`, `CompletionsPolled`: acknowledging, arming and then polling
  until the queue is empty leaves no gap; the one exception is a failed re-arm.
- `ImplementsRequests`: also with failing polls, whose stale completions are
  handled again, no read returns before its own transfer.
- `OverrunNeedsBurst`: a read that returned has settled everything asked for before it,
  so `hmp_read` is what paces a caller. The code asks for 128 send and 128 receive
  requests (`hmp_transport.h:6`) on a queue of 20 entries (`CQE_ALLOC_SIZE`), and nothing
  keeps a burst of writes from overrunning it. One entry is for the INIT message and one
  for a receive request flushed by an error; so whoever calls `hmp_read` at least once in
  18 calls overruns nothing. The bound is exact: with `CqeSize - 1` TLC finds an overrun.
- `ReadReturns` (completion): a read returns unless its request failed or the
  queue pair went; then the caller spins for good, since an error completion is
  only logged.
- `ImplementsMemory`, `ReadIsBarrier`: writes to one node happen in order, those that are
  posted. `hmp_write` returns 0 also when it had no task or `ibv_post_send` refused it, so a
  read that returns does *not* say that every earlier write is in place. What it says:
  each earlier call for that node is in place, or left a line in the log before it
  returned; none is under way, and none was lost after it was posted. Nothing else
  tells a caller as much.
- `ReadReturns` (data path) holds with `IBV_ACCESS_REMOTE_READ`. `dpread` shows
  that with the flags `hmp_mempool_create` uses, where that right is commented
  out, a remote read is refused and `hmp_rdma_read` does not get past its loop.
- `BlocksApartUnlessRaced`, `PoolSuffices`: calls of `hmp_malloc` that do not
  overlap in time return disjoint blocks; overlapping calls may return the same
  one (the comment at `hmp_mem.c:114` asks for a mutex), but none leaves the
  pool as long as what was granted fits. Nothing compares `alloc_size` with the
  pool's size.
- `TableNamesPeer`, `RequestsKnown`: whatever order the machines start in and whatever
  fails, each
  entry of `connect_trans` is for the machine that gave itself that id, and no pair of
  nodes is connected twice; with an address given twice, still for the entries
  before the own.
- `ListHoldsDevices`, `AllReleased`: the release loop, which deletes each entry
  twice, never follows a link into freed memory and frees every device. A
  protection domain that still has the pool's region is refused by
  `ibv_dealloc_pd`, which nobody looks at: `AllReleased` names that exception.
- `HandlersFindTheirQueue`, `RegisteredFdsOpen`, `FailureReleases`: no handler of a
  batch meets a freed `hmp_cq`, no closed channel stays registered, and a failed
  set-up leaves nothing of its completion queue behind, unless the queue itself had
  been made: then the channel, its registration and the queue stay.
- `WalkSeesKeys`, `OneDefect`: at every turn of a fix-up the tree has one defect,
  where the loop variables say, and iteration sees the same keys in order.

Bounds. In `HmpTransport` every variable is bounded by the program itself: an end is
connected once, its queue holds at most two events, a message is sent once. Two
nodes give every interleaving of the four threads of one connection; three add several
channels in a batch and a listener that serves two peers. `star3` leaves out the
connection between the two connecting nodes and starts where both have called
`rdma_connect` (a state `Spec` reaches when node 2 is started last). The four calls of
`hmp_post_recv` each fail or not in `live2`, apart from most other faults, which keeps the
liveness check small; the theorems cover every combination. Only node 0 exits there: the
exit of node 1 discharges the properties and stops no loop (node 0 is told by an event the
code does not record), while that of node 0 may stop the loop of node 1. In `completion`
three entries are the smallest queue for which a bound on bursts says anything: the code
has 20 or what the adapter has, and fewer than three would not hold the INIT message, a
flushed receive and a call. Five requests, two of them receives, reach an
overrun after a burst of two calls, with the INIT message and a receive in the queue; three
send requests are as many as are left, and `ibv_post_send` may refuse any of them. Requests
are interchangeable, so they are numbers taken in order there (`OrderedSpec`). In `datapath` three calls due per queue pair leave
a write that was given up and a write and a read in the queue, which is what ordering and
barriers need; the second node only writes (`WriterSpec` leaves out
calls its application may leave out). In `mem` two small blocks and one
that does not fit with another reach both sides of the pool's size. In `node` three
keys give smaller, equal and larger in every order of four insertions; three devices
give a first, a middle and a last entry. In `startup` three machines give an entry
before, an own and an entry behind. Eight keys in `rbtree` reach every case of both
fix-up loops more than once per call. Where a system may stop, as an idle
cluster or an application that calls nothing, the configuration says
`CHECK_DEADLOCK FALSE`.

Fairness. Weak fairness on the steps of both threads and on the adapter and the
connection manager: the kernel schedules the threads, the spin loops do not block
the other thread, posted work is performed. A call of the application and the exit
of a process are never forced. `HmpCompletion` also assumes strong fairness of a
successful `ibv_get_cq_event` and a successful `ibv_poll_cq`: a call that is made again
and again does not fail for ever. `HmpHashRing`, `HmpDevice` and `HmpRbtree` assume that
a loop that was entered goes on.

## 5. Mutants

Every property of a passing run has a mutant of a mapped definition that breaks it,
defined next to its target and marked "Wrong": a loop that posts one receive request too
few, a read that returns without looking, a refused write that is not even reported, an
error completion that marks its task, a release loop that reads the link of the entry
just freed, a rotation with a stale parent, an inclusive bound that should be strict.

## 6. Proofs

Each theorem holds for every value of the constants that meets the named assumptions
of its module.

| Module | Theorems |
|---|---|
| `HmpTransportProofs` | `TypeCorrect` (`TypeOK`), `KeyBeforePost` (`PostHasKey`), `ReceivesPosted` (`ReceivePosted`), `ConnectedIsMutual` (`ConnectedMeansHandshake`), `SetupImplementsHandshake` (`ImplementsHandshake`), `EntriesLostOnlyByMemset` (`EntryLostOnlyByMemset`), `DemotedOnlyLate` (`DemotedOnlyByLateStore`) |
| `HmpCompletionProofs` | `TypeCorrect`, `NoCompletionOverlooked` (`CompletionAnnounced`), `ReadsReturnAfterTransfer`, `OverrunsNeedBurst` (`OverrunNeedsBurst`), `CompletionImplementsRequests` (`ImplementsRequests`) |
| `HmpDataPathProofs` | `TypeCorrect`, `ReadsAreBarriers` (`ReadIsBarrier`), `DataPathImplementsMemory` (`ImplementsMemory`) |
| `HmpMemProofs` | `TypeCorrect`, `MessagesStayApart` (`MessagesApart`), `BlocksStayApart` (`BlocksApartUnlessRaced`), `PoolHoldsBlocks` (`PoolSuffices`), `AddressesDecode` (`HybridAddressesDecode`), `PagesSuffice`, `HybridRoundTrip` |
| `HmpNodeProofs` | `RingTypeCorrect`, `RingStaysInOrder` (`RingInOrder`), `DevicesAreCounted` (`DevicesCounted`), `ListStaysWhole` (`ListHoldsDevices`), `LookupsFind` (`LookupFinds`) |
| `HmpStartupProofs` | `TypeCorrect` (`TypeOK`), `TablesNamePeers` (`TableNamesPeer`), `RequestsAreKnown` (`RequestsKnown`) |
| `HmpQueuePairProofs` | `TypeCorrect` (`TypeOK`), `WatchedFdsOpen` (`RegisteredFdsOpen`), `CompletionsFindTheirQueue` (`HandlersFindTheirQueue`), `FailuresRelease` (`FailureReleases`) |
| `HmpRbtreeProofs` | `TreeStaysGood`, `TreeTypeCorrect` (`TypeOK`), `WalksSeeKeys` (`WalkSeesKeys`), `OnlyOneDefect` (`OneDefect`) |

The arguments.

- *HmpTransportProofs*. None of the properties is inductive. `PostHasKey` holds because
  `CONNECTED` is published after the key is stored; the key came in an INIT message,
  which was sent on ESTABLISHED, which the connection manager reports only for an
  accepted request, whose two ends were built first. Each link is a conjunct of
  `IInv`: `TargetInv` (a pending call names a node), `QueueInv` (which events an end's
  queue can hold in each phase), `RoleInv` and `StartInv` (the lower id connects, once, in
  the order of the loop), `MsgInv` (a message exists only after ESTABLISHED),
  `BuiltInv` (no identifier is connected without its queue pair, nor established
  without both), `KeyInv` (batch, handler, message, key, state and caller, in that order),
  `RecvInv` (each of the two calls of `hmp_post_recv` left a receive request or a log
  line, and the requests are there until the only message consumes one, or an error
  flushes them).
  The refinement maps route, request and event handlers to `Build`, the ESTABLISHED
  handler to `Offer`, `StoreMr` to `Learn`, `CheckState` to `Grant`, the end of a post to
  `Spend`, and everything else to a stutter.
  The two action properties need one more invariant, `FreshInv`: an end
  without a transport, or whose request is still in the listener's channel, has no
  queue pair. So a key is never stored for a transport that was not allocated, the
  step that puts a transport to use is the one that enters it in the table, and a
  `CONNECTED` transport is neither connected again nor accepted again.
- *HmpCompletionProofs*. `AnnounceInv`: an armed queue with completions has the handler
  on its way to poll, an unarmed one an event or a handler about to arm. `CqInv`: each
  queued request is in the queue once. `RequestInv`: a task that is DONE belongs to a
  read that was performed well and polled, also if a stale `wc` was handled. `WaitInv`:
  what reader and handler hold was posted and polled. The bound on
  bursts needs a second invariant, `BurstInv`: `QueueInv` (send queue and completion queue
  hold what the stages say, each once), `LastInv` (the read the caller spins on is behind
  every other read and write, in whichever of the two queues they are, so nothing is left
  of them when it has been polled), `OthersInv` (one INIT message, two receive requests,
  of which one is used up before the first call) and `WayInv` (reads and writes on their
  way were asked for in the burst). An overrun then needs `CqeSize + 1` requests, of which
  at most two are not of the burst. The argument rests on the order of completions and on the
  handler's marking a task only after a successful poll.
- *HmpDataPathProofs*. `ReadInv`: a read is the last request of its queue, its caller
  spins, and its task is unmarked. `DoneInv`: once the task is completed nothing is left
  before it, and nothing failed. `CountInv`: while nothing failed, what is due is what is queued
  and what was given up with a log line; with `DoneInv` the first is empty when a read
  returns.
- *HmpMemProofs*. `SlotInv`: a task's buffer follows from its peer and kind.
  `GrantInv`: neither a lost nor a late update takes `alloc_size`, or a value read from it,
  beyond the sum granted. `TurnInv`: while calls did not overlap, every block lies below
  `alloc_size`.
- *HmpQueuePairProofs*. `Stage` says what a transport holds at each label of the set-up
  and of its error paths; one lemma per building block (acquire, attempt, give back)
  and one case per step carry it on. `CompInv`: completions are under way only for
  queue pairs that were connected, and those keep their hmp_cq.
- *HmpNodeProofs*. The ring: `SearchInv` says that in the inner loop the entry before the
  cursor belongs before the new one; with the ring in order, insertion before the cursor
  keeps it so, whichever keys are equal. The devices: `LinksInv` makes the list circular
  in both directions, and `DevOrderInv` says that it runs down to its head, because
  devices are put in front: so no device links to itself, the saved successor of a freed
  device is not that device, and a lookup has passed every device above its cursor. The
  invariants of ring and devices hold side by side, since each part of a node's life
  leaves the other's variables alone. `MaxDevices` is any natural number.
- *HmpStartupProofs*. Nothing compares two machines' tables while they parse, so the
  invariant says what one machine's table is in terms of the file: `ParseInv` gives each
  entry parsed the number of entries before it as its id, and lets no id go unused, for
  a file cut off at any child. Two machines at the end of the file then have the same
  entries (`SameEntries`). `SelfInv`: a node that goes on is the first entry with its
  address, or has no entries. `TableInv` and `RequestInv`: what is entered, or sent, has the
  address it stands for, and before the own entry it is the first with that address, also
  when the sender has exited since. The
  assumptions: a file is a finite sequence with at most eight entries, and the mark for an
  empty entry is no machine.
- *HmpRbtreeProofs*. That keys are in order, and that all ways down pass the same number of
  black nodes, are statements about whole subtrees, which one step changes in many
  places. The invariant carries them in two functions the code does not have, and only
  says that they exist: `edge[d][n]`, the nearest key outside the subtree of `n` on side
  `d`, and `bh[n]`, its black height, the side that a removal left short counted as if it
  were not. With them every part of `IInv` relates a node to its two children: `Search` (links
  and order), `Balanced`, `Colours` (red below red only at the place the loop looks at),
  `Loop` (where the loop variables are), `Bare` (a node outside the tree has no
  links). There is one lemma for what each tree operator does to them, with the new `edge` and
  `bh` given: `Swing` (a rotation that swaps the colours of a node and its red child
  keeps the balance) serves every rotation but the last one of a removal (`LastRotation`);
  then one lemma per action. `OutermostIs`, `NeighbourIs` and `HeightIs` say what the
  descents and the climb to the next node, written as recursive functions, return in such a tree:
  a counterexample that is last on the way the function goes would have one further on. The only
  assumption is that there is at least one key.

Only model-checked: liveness (`HandshakeCompletes`, `WriteReturns`, `ReleaseReturns`,
`CompletionsPolled`, `ReadReturns`, `RingBuilt`, `AllReleased`, `CallsReturn`) and everything
else under fairness, which is out of the prover's reach.

## 7. Not modelled

- *Murmur hash*: a pure third-party function; the ring takes its value as any number.
- *Logging*: formatting and output.
- *Vendored headers* (`infiniband/verbs.h`, `rdma/rdma_cma.h`, `libxml/`, `linux/list.h`):
  third-party interfaces and most of the repository's lines; hmp's own code is about
  2,500 of them. What hmp calls is external in the modules that call it, and the
  list operations it uses are `HmpList`.
- *Epoll loop*: the limit of 1024 events per batch and the 5 s time-out change nothing
  but the size and the time of a batch.
- XML syntax, `ioctl`, the text of addresses, and what a write beyond `node_infos` or
  beyond the pool does to the memory behind it.
- Weak memory. Stores become visible in program order: the Makefile builds without
  optimisation, so the spin loops re-read memory, and the x86 hosts the adapters need do
  not reorder stores. On a weaker machine or with optimisation the results about
  `CONNECTED`, `dram_mr` and `task->type` would need barriers the code does not have.
- Restart of a node: nothing in the code reconnects.
