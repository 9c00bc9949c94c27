--------------------------------- MODULE HmpMem ---------------------------------
(***************************************************************************)
(* The memory pool of a node: the slots of the messages of its transports,   *)
(* four per configured node at the front of the pool; the blocks hmp_malloc  *)
(* hands out behind them, to several threads at a time and without a lock;   *)
(* and the addresses of the hybrid memory, which name a node and a place.    *)
(***************************************************************************)
EXTENDS Integers, Sequences

CONSTANTS
  NodeCnt,     \* config.node_cnt
  CurNode,     \* config.curnode_id
  Base,        \* dram_mempool->base_addr
  Span,        \* 2^48: the addresses of one node in the hybrid memory
  Thread,      \* threads that call hmp_malloc
  Length,      \* lengths they ask for
  MaxBlocks    \* bound on the blocks handed out

HMP_TASK_SIZE == 40
HMP_PAGE_SIZE == 64
HMP_DRAM_MEM_SIZE == 4 * 1024
HMP_NODE_NUM == 8

NodeId == 0 .. NodeCnt - 1
Peer == NodeId \ {CurNode}

ASSUME NodesAssumption ==
  NodeCnt \in 1 .. HMP_NODE_NUM /\ CurNode \in 0 .. NodeCnt - 1
ASSUME AddressAssumption == Base \in Nat \ {0} /\ Span \in Nat \ {0}
ASSUME LengthAssumption == Length \subseteq Nat \ {0} /\ MaxBlocks \in Nat

\* hmp_mempool_create rounds the size up to whole pages.
PageNum(size) ==
  (size \div HMP_PAGE_SIZE) + (IF size % HMP_PAGE_SIZE # 0 THEN 1 ELSE 0)
PoolSize == PageNum(HMP_DRAM_MEM_SIZE) * HMP_PAGE_SIZE

\* Wrong: a slot for the message to send is forgotten.
BlockAreaShort == Base + NodeCnt * 3 * HMP_TASK_SIZE

\* Where hmp_malloc's blocks start.
BlockArea == Base + NodeCnt * 4 * HMP_TASK_SIZE

\* hmp_get_hybrid_mempool_addr, and a place in the memory that starts there.
HybridBase(id) == id * Span
HybridAddr(id, addr) == HybridBase(id) + addr

\* Wrong: the shift rounds to the nearest node.
NodeIdRounded(g) == (g + Span \div 2) \div Span

\* hmp_get_hm_node_id: an arithmetic shift for the node, and C's remainder,
\* which has the sign of the address (LocalOf), for the place.
NodeIdOf(g) == g \div Span

LocalOf(g) == IF g >= 0 THEN g % Span ELSE -((-g) % Span)

VARIABLES
  region,      \* region[p]: where the transport to p puts its messages
  tasks,       \* the send and receive tasks of the transports
  alloc_size,  \* dram_mempool->alloc_size
  pc,          \* pc[t]: how far the thread is in hmp_malloc
  want,        \* want[t]: the length it asks for
  res,         \* res[t]: the address it will return
  reg,         \* reg[t]: the register that holds alloc_size
  blocks,      \* the blocks handed out, oldest first
  granted,     \* the sum of their lengths
  raced        \* two calls of hmp_malloc have overlapped

slotVars == <<region, tasks>>
mallocVars == <<alloc_size, pc, want, res, reg, blocks, granted, raced>>
vars == <<slotVars, mallocVars>>

NoRegion == [send_addr |-> 0, recv_addr |-> 0, cur_recv |-> 0]
Block == [addr : Nat, len : Nat]

Init ==
  /\ region = [p \in Peer |-> NoRegion]
  /\ tasks = {}
  /\ alloc_size = 0
  /\ pc = [t \in Thread |-> "idle"]
  /\ want = [t \in Thread |-> 0]
  /\ res = [t \in Thread |-> 0]
  /\ reg = [t \in Thread |-> 0]
  /\ blocks = <<>> /\ granted = 0 /\ raced = FALSE

-----------------------------------------------------------------------------
(* Message slots *)

\* hmp_node_init for the peers behind this node, on_cm_connect_request for
\* those before it.
SetRegion(p) ==
  LET send == Base + p * 4 * HMP_TASK_SIZE IN
  /\ region[p] = NoRegion
  /\ region' = [region EXCEPT ![p] =
       [send_addr |-> send, recv_addr |-> send + HMP_TASK_SIZE, cur_recv |-> 0]]
  /\ UNCHANGED <<tasks, mallocVars>>

Task(p, id, addr) == [peer |-> p, id |-> id, addr |-> addr, len |-> HMP_TASK_SIZE]

\* hmp_pre_post_recv: hmp_recv_task_create twice.
PrePostRecv(p) ==
  LET r == region[p]
      next == (r.cur_recv + 1) % 3
      place(i) == r.recv_addr + i * HMP_TASK_SIZE
  IN
  /\ r # NoRegion /\ \A t \in tasks : t.peer # p
  /\ tasks' = tasks \cup {Task(p, 1, place(r.cur_recv)), Task(p, 2, place(next))}
  /\ region' = [region EXCEPT ![p].cur_recv = (next + 1) % 3]
  /\ UNCHANGED mallocVars

\* hmp_send_task_create for the INIT message, which is shorter than its slot.
SendInit(p) ==
  /\ \E t \in tasks : t.peer = p
  /\ \A t \in tasks : t.peer = p => t.id # 0
  /\ tasks' = tasks \cup {Task(p, 0, region[p].send_addr)}
  /\ UNCHANGED <<region, mallocVars>>

-----------------------------------------------------------------------------
(* hmp_malloc, as its three accesses to alloc_size are compiled *)

\* res=addr+alloc_size
MallocResult(t, length) ==
  /\ pc[t] = "idle" /\ Len(blocks) < MaxBlocks
  /\ pc' = [pc EXCEPT ![t] = "load"]
  /\ want' = [want EXCEPT ![t] = length]
  /\ res' = [res EXCEPT ![t] = BlockArea + alloc_size]
  /\ raced' = (raced \/ \E u \in Thread : pc[u] # "idle")
  /\ UNCHANGED <<slotVars, alloc_size, reg, blocks, granted>>

\* alloc_size+=length loads it, ...
MallocLoad(t) ==
  /\ pc[t] = "load"
  /\ pc' = [pc EXCEPT ![t] = "store"]
  /\ reg' = [reg EXCEPT ![t] = alloc_size]
  /\ UNCHANGED <<slotVars, alloc_size, want, res, blocks, granted, raced>>

\* Wrong: the length is not added.
MallocStoreOld(t) ==
  /\ pc[t] = "store"
  /\ pc' = [pc EXCEPT ![t] = "idle"]
  /\ alloc_size' = reg[t]
  /\ blocks' = Append(blocks, [addr |-> res[t], len |-> want[t]])
  /\ granted' = granted + want[t]
  /\ UNCHANGED <<slotVars, want, res, reg, raced>>

\* Wrong: the length is added twice.
MallocStoreTwice(t) ==
  /\ pc[t] = "store"
  /\ pc' = [pc EXCEPT ![t] = "idle"]
  /\ alloc_size' = reg[t] + 2 * want[t]
  /\ blocks' = Append(blocks, [addr |-> res[t], len |-> want[t]])
  /\ granted' = granted + want[t]
  /\ UNCHANGED <<slotVars, want, res, reg, raced>>

\* ... adds the length and stores it; the call returns.
MallocStore(t) ==
  /\ pc[t] = "store"
  /\ pc' = [pc EXCEPT ![t] = "idle"]
  /\ alloc_size' = reg[t] + want[t]
  /\ blocks' = Append(blocks, [addr |-> res[t], len |-> want[t]])
  /\ granted' = granted + want[t]
  /\ UNCHANGED <<slotVars, want, res, reg, raced>>

Next ==
  \/ \E p \in Peer : SetRegion(p) \/ PrePostRecv(p) \/ SendInit(p)
  \/ \E t \in Thread :
       \/ \E length \in Length : MallocResult(t, length)
       \/ MallocLoad(t) \/ MallocStore(t)

Spec == Init /\ [][Next]_vars

-----------------------------------------------------------------------------
(* Properties *)

\* The type invariant of this module (the pool and hmp_malloc).
TypeOK ==
  /\ region \in [Peer -> [send_addr : Nat, recv_addr : Nat, cur_recv : 0 .. 2]]
  /\ tasks \subseteq [peer : Peer, id : 0 .. 2, addr : Nat, len : {HMP_TASK_SIZE}]
  /\ alloc_size \in Nat
  /\ pc \in [Thread -> {"idle", "load", "store"}]
  /\ want \in [Thread -> Nat] /\ res \in [Thread -> Nat] /\ reg \in [Thread -> Nat]
  /\ blocks \in Seq(Block) /\ granted \in Nat /\ raced \in BOOLEAN

Apart(a, b) == a.addr + a.len <= b.addr \/ b.addr + b.len <= a.addr
InPool(b) == Base <= b.addr /\ b.addr + b.len <= Base + PoolSize

\* The buffers of all messages of all transports lie in the registered pool,
\* none overlaps another and none overlaps a block that hmp_malloc returned,
\* whatever the threads that call it do to alloc_size.
MessagesApart ==
  /\ \A s, t \in tasks : s # t => Apart(s, t)
  /\ \A t \in tasks : InPool(t) /\ \A i \in 1 .. Len(blocks) : Apart(t, blocks[i])

\* "need pthread_mutex protected": calls of hmp_malloc that do not overlap in
\* time return blocks that do not overlap in memory.
BlocksApartUnlessRaced ==
  ~raced => \A i, j \in 1 .. Len(blocks) : i # j => Apart(blocks[i], blocks[j])

\* alloc_size is not compared with the size of the pool, but as long as the
\* blocks handed out would fit behind the slots, each lies there: neither a
\* lost nor a late update of alloc_size leads out of the pool.
PoolSuffices ==
  granted <= PoolSize - NodeCnt * 4 * HMP_TASK_SIZE =>
    \A i \in 1 .. Len(blocks) : InPool(blocks[i])

\* The hybrid address of a buffer or block is decoded to its owner and its
\* place, as long as places are smaller than a node's share of the addresses.
HybridAddressesDecode ==
  \A i \in 1 .. Len(blocks) :
    blocks[i].addr < Span =>
      \A id \in NodeId :
        /\ NodeIdOf(HybridAddr(id, blocks[i].addr)) = id
        /\ LocalOf(HybridAddr(id, blocks[i].addr)) = blocks[i].addr
=============================================================================
