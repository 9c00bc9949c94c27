----------------------------- MODULE HmpMemProofs -----------------------------
(***************************************************************************)
(* Proofs about HmpMem, for every configuration of at most HMP_NODE_NUM      *)
(* nodes, every pool address, and any number of threads and blocks.          *)
(***************************************************************************)
EXTENDS HmpMem, SequenceTheorems, TLAPS

-----------------------------------------------------------------------------
(* The inductive invariant.                                                *)

\* Where a transport's tasks are: its node's four slots, the first one for the
\* message it sends.
SlotInv ==
  /\ \A p \in Peer :
       \/ region[p] = NoRegion
       \/ /\ region[p].send_addr = Base + p * 160
          /\ region[p].recv_addr = Base + p * 160 + 40
          /\ (\A t \in tasks : t.peer # p) => region[p].cur_recv = 0
  /\ \A t \in tasks :
       region[t.peer] # NoRegion /\ t.addr = Base + t.peer * 160 + t.id * 40

\* Neither a lost nor a late update takes alloc_size, or a value that a thread
\* read from it, beyond what was granted.
GrantInv ==
  /\ alloc_size <= granted
  /\ \A t \in Thread :
       /\ pc[t] # "idle" => BlockArea <= res[t] /\ res[t] <= BlockArea + granted
       /\ pc[t] = "store" => reg[t] <= granted
  /\ \A i \in 1 .. Len(blocks) :
       BlockArea <= blocks[i].addr /\ blocks[i].addr + blocks[i].len <= BlockArea + granted

\* Calls that do not overlap see alloc_size behind all blocks.
TurnInv ==
  ~raced =>
    /\ \A t, u \in Thread : t # u => pc[t] = "idle" \/ pc[u] = "idle"
    /\ \A t \in Thread :
         /\ pc[t] # "idle" => res[t] = BlockArea + alloc_size
         /\ pc[t] = "store" => reg[t] = alloc_size
    /\ \A i \in 1 .. Len(blocks) :
         blocks[i].addr + blocks[i].len <= BlockArea + alloc_size
    /\ \A i, j \in 1 .. Len(blocks) : i # j => Apart(blocks[i], blocks[j])

\* Why buffers and blocks do not overlap.
IInv == TypeOK /\ SlotInv /\ GrantInv /\ TurnInv

-----------------------------------------------------------------------------
(* Arithmetic *)

LEMMA Sizes ==
  /\ PoolSize = 4096 /\ HMP_TASK_SIZE = 40
  /\ NodeCnt \in 1 .. 8 /\ Base \in Nat \ {0} /\ BlockArea = Base + NodeCnt * 160
  /\ BlockArea \in Nat
  /\ \A p \in Peer : p \in 0 .. NodeCnt - 1
<1>1. HMP_DRAM_MEM_SIZE = 4096 /\ HMP_PAGE_SIZE = 64 /\ HMP_TASK_SIZE = 40
  BY DEF HMP_DRAM_MEM_SIZE, HMP_PAGE_SIZE, HMP_TASK_SIZE
<1>2. 4096 \div 64 = 64 /\ 4096 % 64 = 0
  OBVIOUS
<1>3. PageNum(HMP_DRAM_MEM_SIZE) = 64
  BY <1>1, <1>2 DEF PageNum
<1>4. PoolSize = 4096
  BY <1>1, <1>3 DEF PoolSize
<1>5. NodeCnt \in 1 .. 8 /\ Base \in Nat \ {0}
  BY NodesAssumption, AddressAssumption DEF HMP_NODE_NUM
<1>6. BlockArea = Base + NodeCnt * 160
  BY <1>1, <1>5 DEF BlockArea
<1> QED
  BY <1>1, <1>4, <1>5, <1>6 DEF Peer, NodeId

\* hmp_mempool_create's pages hold what was asked for, with less than a page
\* to spare.
THEOREM PagesSuffice ==
  ASSUME NEW size \in Nat
  PROVE  /\ size <= PageNum(size) * HMP_PAGE_SIZE
         /\ PageNum(size) * HMP_PAGE_SIZE < size + HMP_PAGE_SIZE
<1>1. /\ size = 64 * (size \div 64) + (size % 64)
      /\ size % 64 \in 0 .. 63 /\ size \div 64 \in Nat
  OBVIOUS
<1> QED
  BY <1>1 DEF PageNum, HMP_PAGE_SIZE

LEMMA Multiplied ==
  ASSUME NEW s \in Nat, NEW x \in Int, NEW y \in Int, x <= y
  PROVE  s * x <= s * y
  OBVIOUS

\* A node id and a place that is smaller than a node's share of the hybrid
\* addresses are what hmp_get_hm_node_id finds in their hybrid address.
THEOREM HybridRoundTrip ==
  ASSUME NEW id \in Nat, NEW a \in Nat, a < Span
  PROVE  NodeIdOf(HybridAddr(id, a)) = id /\ LocalOf(HybridAddr(id, a)) = a
<1> DEFINE g == id * Span + a
<1>0. Span \in Nat \ {0}
  BY AddressAssumption
<1>1. id * Span \in Nat /\ g \in Nat
  BY <1>0
<1>2. /\ g = Span * (g \div Span) + (g % Span)
      /\ g % Span \in 0 .. Span - 1 /\ g \div Span \in Int
  BY <1>0, <1>1
<1>3. g \div Span = id
  <2> DEFINE q == g \div Span
  <2>1. q \in Int /\ Span * q <= g /\ g < Span * q + Span
    BY <1>0, <1>1, <1>2
  <2>2. Span * q <= Span * id + a /\ Span * id + a < Span * q + Span
    BY <1>0, <2>1
  <2> HIDE DEF q
  <2>3. ~(q <= id - 1)
    <3> SUFFICES ASSUME q <= id - 1 PROVE FALSE
      OBVIOUS
    <3>1. Span * q <= Span * (id - 1)
      BY <1>0, <2>1, Multiplied
    <3>2. Span * (id - 1) = Span * id - Span
      BY <1>0
    <3> QED BY <1>0, <2>1, <2>2, <3>1, <3>2
  <2>4. ~(id <= q - 1)
    <3> SUFFICES ASSUME id <= q - 1 PROVE FALSE
      OBVIOUS
    <3>1. Span * id <= Span * (q - 1)
      BY <1>0, <2>1, Multiplied
    <3>2. Span * (q - 1) = Span * q - Span
      BY <1>0, <2>1
    <3> QED BY <1>0, <2>1, <2>2, <3>1, <3>2
  <2> QED BY <2>1, <2>3, <2>4 DEF q
<1>4. g % Span = a
  BY <1>0, <1>2, <1>3
<1> QED
  BY <1>1, <1>3, <1>4 DEF NodeIdOf, LocalOf, HybridAddr, HybridBase

-----------------------------------------------------------------------------
(* The steps *)

LEMMA InitInv == Init => IInv
<1> SUFFICES ASSUME Init PROVE IInv
  OBVIOUS
<1> USE DEF Init
<1>1. region \in [Peer -> [send_addr : Nat, recv_addr : Nat, cur_recv : 0 .. 2]]
  BY DEF NoRegion
<1>2. blocks \in Seq(Block) /\ Len(blocks) = 0
  OBVIOUS
<1>3. TypeOK
  BY <1>1, <1>2 DEF TypeOK
<1>4. SlotInv
  BY DEF SlotInv
<1>5. GrantInv
  BY <1>2 DEF GrantInv
<1>6. TurnInv
  BY <1>2 DEF TurnInv
<1> QED
  BY <1>3, <1>4, <1>5, <1>6 DEF IInv

\* The slot steps do not touch hmp_malloc's variables, and the other way round.
LEMMA MallocKept ==
  ASSUME GrantInv, TurnInv, UNCHANGED mallocVars
  PROVE  GrantInv' /\ TurnInv'
  BY DEF GrantInv, TurnInv, mallocVars

LEMMA SlotsKept ==
  ASSUME SlotInv, UNCHANGED slotVars
  PROVE  SlotInv'
  BY DEF SlotInv, slotVars

LEMMA SetRegionStep ==
  ASSUME IInv, NEW p \in Peer, SetRegion(p)
  PROVE  IInv'
<1> DEFINE send == Base + p * 160
<1> DEFINE new == [send_addr |-> send, recv_addr |-> send + 40, cur_recv |-> 0]
<1>0. TypeOK /\ SlotInv /\ GrantInv /\ TurnInv
  BY DEF IInv
<1>1. send = Base + p * 4 * HMP_TASK_SIZE /\ send \in Nat \ {0} /\ HMP_TASK_SIZE = 40
  BY Sizes
<1>2. region[p] = NoRegion /\ region' = [region EXCEPT ![p] = new] /\ UNCHANGED <<tasks, mallocVars>>
  BY <1>1 DEF SetRegion
<1>3. new \in [send_addr : Nat, recv_addr : Nat, cur_recv : 0 .. 2] /\ new # NoRegion
  BY <1>1 DEF NoRegion
<1>4. region \in [Peer -> [send_addr : Nat, recv_addr : Nat, cur_recv : 0 .. 2]]
  BY <1>0 DEF TypeOK
<1>5. /\ region' \in [Peer -> [send_addr : Nat, recv_addr : Nat, cur_recv : 0 .. 2]]
      /\ region'[p] = new /\ \A q \in Peer : q # p => region'[q] = region[q]
  BY <1>2, <1>3, <1>4
<1>6. TypeOK'
  BY <1>0, <1>2, <1>5 DEF TypeOK, mallocVars
<1>7. \A t \in tasks : t.peer \in Peer /\ t.peer # p
  BY <1>0, <1>2 DEF TypeOK, SlotInv
<1>8. SlotInv'
  BY <1>0, <1>2, <1>3, <1>5, <1>7 DEF SlotInv
<1> QED
  BY <1>0, <1>2, <1>6, <1>8, MallocKept DEF IInv

\* A transport's tasks are created where its slots are.
LEMMA TasksStep ==
  ASSUME IInv, NEW p \in Peer, region[p] # NoRegion, NEW new,
         new \subseteq [peer : {p}, id : 0 .. 2, addr : Nat, len : {HMP_TASK_SIZE}],
         \A t \in new : t.addr = Base + t.peer * 160 + t.id * 40,
         tasks' = tasks \cup new, \E t \in tasks' : t.peer = p,
         NEW c \in 0 .. 2, region' = [region EXCEPT ![p].cur_recv = c],
         UNCHANGED mallocVars
  PROVE  IInv'
<1>0. TypeOK /\ SlotInv /\ GrantInv /\ TurnInv
  BY DEF IInv
<1>1. region \in [Peer -> [send_addr : Nat, recv_addr : Nat, cur_recv : 0 .. 2]]
  BY <1>0 DEF TypeOK
<1>2. /\ region' \in [Peer -> [send_addr : Nat, recv_addr : Nat, cur_recv : 0 .. 2]]
      /\ region'[p].send_addr = region[p].send_addr
      /\ region'[p].recv_addr = region[p].recv_addr
      /\ \A q \in Peer : q # p => region'[q] = region[q]
  BY <1>1
<1>3. \A t \in new : t \in [peer : Peer, id : 0 .. 2, addr : Nat, len : {HMP_TASK_SIZE}]
  OBVIOUS
<1>4. tasks' \subseteq [peer : Peer, id : 0 .. 2, addr : Nat, len : {HMP_TASK_SIZE}]
  BY <1>0, <1>3 DEF TypeOK
<1>5. TypeOK'
  BY <1>0, <1>2, <1>4 DEF TypeOK, mallocVars
<1>6. /\ region[p].send_addr = Base + p * 160 /\ region[p].recv_addr = Base + p * 160 + 40
      /\ region[p].send_addr # 0
  BY <1>0, Sizes DEF SlotInv
<1>7. region'[p] # NoRegion
  BY <1>2, <1>6 DEF NoRegion
<1>8. \A q \in Peer : region[q] # NoRegion => region'[q] # NoRegion
  BY <1>2, <1>7
<1>9. SlotInv'
  <2>1. ASSUME NEW t \in tasks'
        PROVE  region'[t.peer] # NoRegion /\ t.addr = Base + t.peer * 160 + t.id * 40
    <3>1. CASE t \in tasks
      BY <3>1, <1>0, <1>8 DEF TypeOK, SlotInv
    <3>2. CASE t \in new
      BY <3>2, <1>7
    <3> QED BY <3>1, <3>2
  <2>2. ASSUME NEW q \in Peer
        PROVE  \/ region'[q] = NoRegion
               \/ /\ region'[q].send_addr = Base + q * 160
                  /\ region'[q].recv_addr = Base + q * 160 + 40
                  /\ (\A t \in tasks' : t.peer # q) => region'[q].cur_recv = 0
    <3>1. CASE q = p
      BY <3>1, <1>2, <1>6
    <3>2. CASE q # p
      <4>1. region'[q] = region[q]
        BY <3>2, <1>2
      <4>2. (\A t \in tasks' : t.peer # q) => (\A t \in tasks : t.peer # q)
        OBVIOUS
      <4> QED BY <4>1, <4>2, <1>0 DEF SlotInv
    <3> QED BY <3>1, <3>2
  <2> QED BY <2>1, <2>2 DEF SlotInv
<1> QED
  BY <1>0, <1>5, <1>9, MallocKept DEF IInv

LEMMA PrePostRecvStep ==
  ASSUME IInv, NEW p \in Peer, PrePostRecv(p)
  PROVE  IInv'
<1>0. TypeOK /\ SlotInv
  BY DEF IInv
<1>1. region[p] # NoRegion /\ (\A t \in tasks : t.peer # p) /\ UNCHANGED mallocVars
  BY DEF PrePostRecv
<1>2. /\ region[p].recv_addr = Base + p * 160 + 40 /\ region[p].cur_recv = 0
  BY <1>0, <1>1 DEF SlotInv
<1>3. (0 + 1) % 3 = 1 /\ (1 + 1) % 3 = 2
  OBVIOUS
<1> DEFINE a1 == Base + p * 160 + 40
<1> DEFINE a2 == Base + p * 160 + 80
<1>4. region[p].recv_addr + 0 * HMP_TASK_SIZE = a1 /\ region[p].recv_addr + 1 * HMP_TASK_SIZE = a2
  BY <1>2, Sizes
<1>5. /\ tasks' = tasks \cup {Task(p, 1, a1), Task(p, 2, a2)}
      /\ region' = [region EXCEPT ![p].cur_recv = 2]
  BY <1>2, <1>3, <1>4 DEF PrePostRecv
<1>6. a1 \in Nat /\ a2 \in Nat
  BY Sizes
<1>7. {Task(p, 1, a1), Task(p, 2, a2)}
        \subseteq [peer : {p}, id : 0 .. 2, addr : Nat, len : {HMP_TASK_SIZE}]
  <2> HIDE DEF a1, a2
  <2> QED BY <1>6 DEF Task
<1>8. \A t \in {Task(p, 1, a1), Task(p, 2, a2)} : t.addr = Base + t.peer * 160 + t.id * 40
  <2>1. a1 = Base + p * 160 + 1 * 40 /\ a2 = Base + p * 160 + 2 * 40
    BY Sizes
  <2> HIDE DEF a1, a2
  <2> QED BY <2>1 DEF Task
<1>9. \E t \in tasks' : t.peer = p
  <2>1. Task(p, 1, a1) \in tasks'
    BY <1>5
  <2>2. Task(p, 1, a1).peer = p
    BY DEF Task
  <2> QED BY <2>1, <2>2
<1> DEFINE new == {Task(p, 1, a1), Task(p, 2, a2)}
<1>10. /\ tasks' = tasks \cup new /\ region' = [region EXCEPT ![p].cur_recv = 2] /\ 2 \in 0 .. 2
       /\ new \subseteq [peer : {p}, id : 0 .. 2, addr : Nat, len : {HMP_TASK_SIZE}]
       /\ \A t \in new : t.addr = Base + t.peer * 160 + t.id * 40
  BY <1>5, <1>7, <1>8
<1> HIDE DEF new
<1> QED
  BY <1>1, <1>9, <1>10, TasksStep

LEMMA SendInitStep ==
  ASSUME IInv, NEW p \in Peer, SendInit(p)
  PROVE  IInv'
<1>0. TypeOK /\ SlotInv
  BY DEF IInv
<1>1. (\E t \in tasks : t.peer = p) /\ UNCHANGED <<region, mallocVars>>
  BY DEF SendInit
<1>2. region[p] # NoRegion
  BY <1>0, <1>1 DEF SlotInv
<1> DEFINE a == Base + p * 160
<1>3. region[p].send_addr = a
  BY <1>0, <1>2 DEF SlotInv
<1>4. tasks' = tasks \cup {Task(p, 0, a)} /\ a \in Nat
  BY <1>3, Sizes DEF SendInit
<1>5. region \in [Peer -> [send_addr : Nat, recv_addr : Nat, cur_recv : 0 .. 2]]
  BY <1>0 DEF TypeOK
<1>6. region[p].cur_recv \in 0 .. 2 /\ region' = [region EXCEPT ![p].cur_recv = region[p].cur_recv]
  BY <1>1, <1>5
<1>7. /\ {Task(p, 0, a)} \subseteq [peer : {p}, id : 0 .. 2, addr : Nat, len : {HMP_TASK_SIZE}]
      /\ \A t \in {Task(p, 0, a)} : t.addr = Base + t.peer * 160 + t.id * 40
  <2>1. a = Base + p * 160 + 0 * 40
    BY Sizes
  <2>2. a \in Nat
    BY <1>4
  <2> HIDE DEF a
  <2> QED BY <2>1, <2>2 DEF Task
<1>8. \E t \in tasks' : t.peer = p
  BY <1>1, <1>4
<1> DEFINE new == {Task(p, 0, a)}
<1> DEFINE c == region[p].cur_recv
<1>9. /\ tasks' = tasks \cup new /\ region' = [region EXCEPT ![p].cur_recv = c] /\ c \in 0 .. 2
      /\ new \subseteq [peer : {p}, id : 0 .. 2, addr : Nat, len : {HMP_TASK_SIZE}]
      /\ \A t \in new : t.addr = Base + t.peer * 160 + t.id * 40
  BY <1>4, <1>6, <1>7
<1> HIDE DEF new, c
<1> QED
  BY <1>1, <1>2, <1>8, <1>9, TasksStep

\* A thread enters hmp_malloc: its block starts behind what it sees granted.
LEMMA ResultStep ==
  ASSUME IInv, NEW t \in Thread, NEW length \in Length, MallocResult(t, length)
  PROVE  IInv'
<1>0. TypeOK /\ SlotInv /\ GrantInv /\ TurnInv
  BY DEF IInv
<1>1. /\ pc[t] = "idle" /\ pc' = [pc EXCEPT ![t] = "load"]
      /\ want' = [want EXCEPT ![t] = length]
      /\ res' = [res EXCEPT ![t] = BlockArea + alloc_size]
      /\ raced' = (raced \/ \E u \in Thread : pc[u] # "idle")
      /\ UNCHANGED <<slotVars, alloc_size, reg, blocks, granted>>
  BY DEF MallocResult
<1>2. length \in Nat /\ BlockArea \in Nat /\ alloc_size \in Nat /\ granted \in Nat
  BY <1>0, LengthAssumption, Sizes DEF TypeOK
<1>3. /\ pc \in [Thread -> {"idle", "load", "store"}]
      /\ want \in [Thread -> Nat] /\ res \in [Thread -> Nat]
  BY <1>0 DEF TypeOK
<1>4. /\ pc'[t] = "load" /\ res'[t] = BlockArea + alloc_size
      /\ \A u \in Thread : u # t => pc'[u] = pc[u] /\ res'[u] = res[u]
  BY <1>1, <1>3
<1>5. TypeOK'
  <2>1. /\ pc' \in [Thread -> {"idle", "load", "store"}]
        /\ want' \in [Thread -> Nat] /\ res' \in [Thread -> Nat]
    BY <1>1, <1>2, <1>3
  <2>2. raced' \in BOOLEAN
    BY <1>0, <1>1 DEF TypeOK
  <2> QED BY <1>0, <1>1, <2>1, <2>2 DEF TypeOK, slotVars
<1>6. GrantInv'
  BY <1>0, <1>1, <1>2, <1>4 DEF GrantInv
<1>7. TurnInv'
  <2> SUFFICES ASSUME ~raced' PROVE TurnInv'
    BY DEF TurnInv
  <2>1. ~raced /\ \A u \in Thread : pc[u] = "idle"
    BY <1>1
  <2>2. \A i \in 1 .. Len(blocks) : blocks[i].addr + blocks[i].len <= BlockArea + alloc_size
    BY <1>0, <2>1 DEF TurnInv
  <2>3. \A i, j \in 1 .. Len(blocks) : i # j => Apart(blocks[i], blocks[j])
    BY <1>0, <2>1 DEF TurnInv
  <2> QED BY <1>1, <1>4, <2>1, <2>2, <2>3 DEF TurnInv
<1> QED
  BY <1>0, <1>1, <1>5, <1>6, <1>7, SlotsKept DEF IInv

LEMMA LoadStep ==
  ASSUME IInv, NEW t \in Thread, MallocLoad(t)
  PROVE  IInv'
<1>0. TypeOK /\ SlotInv /\ GrantInv /\ TurnInv
  BY DEF IInv
<1>1. /\ pc[t] = "load" /\ pc' = [pc EXCEPT ![t] = "store"]
      /\ reg' = [reg EXCEPT ![t] = alloc_size]
      /\ UNCHANGED <<slotVars, alloc_size, want, res, blocks, granted, raced>>
  BY DEF MallocLoad
<1>2. /\ pc \in [Thread -> {"idle", "load", "store"}] /\ reg \in [Thread -> Nat]
      /\ alloc_size \in Nat
  BY <1>0 DEF TypeOK
<1>3. /\ pc'[t] = "store" /\ reg'[t] = alloc_size
      /\ \A u \in Thread : u # t => pc'[u] = pc[u] /\ reg'[u] = reg[u]
  BY <1>1, <1>2
<1>4. TypeOK'
  <2>1. pc' \in [Thread -> {"idle", "load", "store"}] /\ reg' \in [Thread -> Nat]
    BY <1>1, <1>2
  <2> QED BY <1>0, <1>1, <2>1 DEF TypeOK, slotVars
<1>5. GrantInv'
  BY <1>0, <1>1, <1>3 DEF GrantInv
<1>6. TurnInv'
  <2> SUFFICES ASSUME ~raced PROVE TurnInv'
    BY <1>1 DEF TurnInv
  <2>1. /\ \A u, v \in Thread : u # v => pc[u] = "idle" \/ pc[v] = "idle"
        /\ \A u \in Thread : /\ pc[u] # "idle" => res[u] = BlockArea + alloc_size
                             /\ pc[u] = "store" => reg[u] = alloc_size
    BY <1>0 DEF TurnInv
  <2>2. /\ \A u, v \in Thread : u # v => pc'[u] = "idle" \/ pc'[v] = "idle"
        /\ \A u \in Thread : /\ pc'[u] # "idle" => res'[u] = BlockArea + alloc_size'
                             /\ pc'[u] = "store" => reg'[u] = alloc_size'
    BY <1>1, <1>3, <2>1
  <2>3. \A i \in 1 .. Len(blocks) : blocks[i].addr + blocks[i].len <= BlockArea + alloc_size
    BY <1>0 DEF TurnInv
  <2>4. \A i, j \in 1 .. Len(blocks) : i # j => Apart(blocks[i], blocks[j])
    BY <1>0 DEF TurnInv
  <2> QED BY <1>1, <2>2, <2>3, <2>4 DEF TurnInv
<1> QED
  BY <1>0, <1>1, <1>4, <1>5, <1>6, SlotsKept DEF IInv

\* A thread leaves hmp_malloc: its block ends where alloc_size now points, or
\* before, if other threads were faster.
LEMMA ReturnStep ==
  ASSUME IInv, NEW t \in Thread, MallocStore(t)
  PROVE  IInv'
<1> DEFINE b == [addr |-> res[t], len |-> want[t]]
<1>0. TypeOK /\ SlotInv /\ GrantInv /\ TurnInv
  BY DEF IInv
<1>1. /\ pc[t] = "store" /\ pc' = [pc EXCEPT ![t] = "idle"]
      /\ alloc_size' = reg[t] + want[t]
      /\ blocks' = Append(blocks, b) /\ granted' = granted + want[t]
      /\ UNCHANGED <<slotVars, want, res, reg, raced>>
  BY DEF MallocStore
<1>12. reg \in [Thread -> Nat] /\ res \in [Thread -> Nat] /\ want \in [Thread -> Nat]
  BY <1>0 DEF TypeOK
<1>2. /\ pc \in [Thread -> {"idle", "load", "store"}] /\ blocks \in Seq(Block)
      /\ want[t] \in Nat /\ res[t] \in Nat /\ reg[t] \in Nat
      /\ alloc_size \in Nat /\ granted \in Nat /\ BlockArea \in Nat
      /\ \A u \in Thread : res[u] \in Nat /\ reg[u] \in Nat
  BY <1>0, <1>12, Sizes DEF TypeOK
<1>3. /\ pc'[t] = "idle" /\ \A u \in Thread : u # t => pc'[u] = pc[u]
  BY <1>1, <1>2
<1>4. b \in Block /\ b.addr = res[t] /\ b.len = want[t]
  BY <1>2 DEF Block
<1> HIDE DEF b
<1>5. /\ blocks' \in Seq(Block) /\ Len(blocks') = Len(blocks) + 1 /\ Len(blocks) \in Nat
      /\ blocks'[Len(blocks) + 1] = b
      /\ \A i \in 1 .. Len(blocks) : blocks'[i] = blocks[i]
  BY <1>1, <1>2, <1>4, AppendProperties
<1>6. \A i \in 1 .. Len(blocks') : i \in 1 .. Len(blocks) \/ i = Len(blocks) + 1
  BY <1>5
<1>7. \A i \in 1 .. Len(blocks) : blocks[i].addr \in Nat /\ blocks[i].len \in Nat
  <2>1. \A i \in 1 .. Len(blocks) : blocks[i] \in Block
    BY <1>2
  <2> QED BY <2>1 DEF Block
<1>13. /\ alloc_size' = reg[t] + want[t] /\ granted' = granted + want[t]
       /\ UNCHANGED <<res, reg>> /\ alloc_size' \in Nat /\ granted' \in Nat
  BY <1>1, <1>2
<1>8. /\ alloc_size <= granted /\ reg[t] <= granted
      /\ BlockArea <= res[t] /\ res[t] <= BlockArea + granted
      /\ \A u \in Thread :
           /\ pc[u] # "idle" => BlockArea <= res[u] /\ res[u] <= BlockArea + granted
           /\ pc[u] = "store" => reg[u] <= granted
      /\ \A i \in 1 .. Len(blocks) :
           BlockArea <= blocks[i].addr /\ blocks[i].addr + blocks[i].len <= BlockArea + granted
  BY <1>0, <1>1 DEF GrantInv
<1>9. TypeOK'
  <2>1. pc' \in [Thread -> {"idle", "load", "store"}] /\ alloc_size' \in Nat /\ granted' \in Nat
    BY <1>1, <1>2
  <2> QED BY <1>0, <1>1, <1>5, <2>1 DEF TypeOK, slotVars
<1>10. GrantInv'
  <2>1. alloc_size' <= granted'
    BY <1>1, <1>2, <1>8
  <2>2. ASSUME NEW u \in Thread
        PROVE  /\ pc'[u] # "idle" => BlockArea <= res'[u] /\ res'[u] <= BlockArea + granted'
               /\ pc'[u] = "store" => reg'[u] <= granted'
    <3>1. pc'[u] # "idle" => pc[u] # "idle" /\ pc'[u] = pc[u]
      BY <1>3
    <3>2. res'[u] = res[u] /\ reg'[u] = reg[u] /\ granted <= granted'
      BY <1>1, <1>2
    <3>3. granted \in Nat /\ granted' \in Nat
      BY <1>1, <1>2
    <3> QED BY <1>2, <1>8, <3>1, <3>2, <3>3
  <2>3. ASSUME NEW i \in 1 .. Len(blocks')
        PROVE  /\ BlockArea <= blocks'[i].addr
               /\ blocks'[i].addr + blocks'[i].len <= BlockArea + granted'
    <3>1. CASE i \in 1 .. Len(blocks)
      <4>1. blocks'[i] = blocks[i]
        BY <3>1, <1>5
      <4>2. /\ BlockArea <= blocks[i].addr
            /\ blocks[i].addr + blocks[i].len <= BlockArea + granted
            /\ blocks[i].addr \in Nat /\ blocks[i].len \in Nat
        BY <3>1, <1>7, <1>8
      <4>3. granted <= granted' /\ granted \in Nat /\ BlockArea \in Nat
        BY <1>2, <1>13
      <4>4. blocks[i].addr + blocks[i].len <= BlockArea + granted'
        BY <4>2, <4>3, <1>13
      <4> QED BY <4>1, <4>2, <4>4
    <3>2. CASE i = Len(blocks) + 1
      <4>1. blocks'[i] = b
        BY <3>2, <1>5
      <4>2. b.addr + b.len <= BlockArea + granted'
        BY <1>2, <1>4, <1>8, <1>13
      <4> QED BY <4>1, <4>2, <1>4, <1>8
    <3> QED BY <3>1, <3>2, <1>6
  <2> QED BY <2>1, <2>2, <2>3 DEF GrantInv
<1>11. TurnInv'
  <2> SUFFICES ASSUME ~raced PROVE TurnInv'
    BY <1>1 DEF TurnInv
  <2>1. /\ \A u \in Thread : u # t => pc[u] = "idle"
        /\ res[t] = BlockArea + alloc_size /\ reg[t] = alloc_size
    BY <1>0, <1>1 DEF TurnInv
  <2>2. \A u \in Thread : pc'[u] = "idle"
    BY <1>3, <2>1
  <2>3. \A i \in 1 .. Len(blocks) : blocks[i].addr + blocks[i].len <= BlockArea + alloc_size
    BY <1>0 DEF TurnInv
  <2>4. \A i, j \in 1 .. Len(blocks) : i # j => Apart(blocks[i], blocks[j])
    BY <1>0 DEF TurnInv
  <2>5. ASSUME NEW i \in 1 .. Len(blocks')
        PROVE  blocks'[i].addr + blocks'[i].len <= BlockArea + alloc_size'
    <3>1. CASE i \in 1 .. Len(blocks)
      <4>1. blocks'[i] = blocks[i]
        BY <3>1, <1>5
      <4>2. /\ blocks[i].addr + blocks[i].len <= BlockArea + alloc_size
            /\ blocks[i].addr \in Nat /\ blocks[i].len \in Nat
        BY <3>1, <1>7, <2>3
      <4>3. alloc_size <= alloc_size' /\ alloc_size \in Nat /\ BlockArea \in Nat
        BY <1>2, <1>13, <2>1
      <4> QED BY <4>1, <4>2, <4>3, <1>13
    <3>2. CASE i = Len(blocks) + 1
      <4>1. blocks'[i] = b
        BY <3>2, <1>5
      <4>2. res[t] + want[t] = BlockArea + alloc_size'
        BY <1>2, <1>13, <2>1
      <4>3. b.addr + b.len <= BlockArea + alloc_size'
        BY <4>2, <1>2, <1>4, <1>13
      <4> QED BY <4>1, <4>3
    <3> QED BY <3>1, <3>2, <1>6
  <2>6. \A i \in 1 .. Len(blocks) : Apart(blocks[i], b) /\ Apart(b, blocks[i])
    BY <1>4, <2>1, <2>3 DEF Apart
  <2>7. ASSUME NEW i \in 1 .. Len(blocks'), NEW j \in 1 .. Len(blocks'), i # j
        PROVE  Apart(blocks'[i], blocks'[j])
    BY <2>7, <1>5, <1>6, <2>4, <2>6
  <2> QED BY <1>1, <2>2, <2>5, <2>7 DEF TurnInv
<1> QED
  BY <1>0, <1>1, <1>9, <1>10, <1>11, SlotsKept DEF IInv

LEMMA Step == IInv /\ [Next]_vars => IInv'
<1> SUFFICES ASSUME IInv, [Next]_vars PROVE IInv'
  OBVIOUS
<1>1. ASSUME NEW p \in Peer, SetRegion(p) \/ PrePostRecv(p) \/ SendInit(p) PROVE IInv'
  BY <1>1, SetRegionStep, PrePostRecvStep, SendInitStep
<1>2. ASSUME NEW t \in Thread, NEW length \in Length, MallocResult(t, length) PROVE IInv'
  BY <1>2, ResultStep
<1>3. ASSUME NEW t \in Thread, MallocLoad(t) \/ MallocStore(t) PROVE IInv'
  BY <1>3, LoadStep, ReturnStep
<1>4. CASE UNCHANGED vars
  BY <1>4, MallocKept, SlotsKept DEF IInv, TypeOK, vars, slotVars, mallocVars
<1> QED
  BY <1>1, <1>2, <1>3, <1>4 DEF Next

-----------------------------------------------------------------------------
(* Theorems *)

\* The invariant above holds in every reachable state of the pool.
THEOREM Inductive == Spec => []IInv
<1>1. Init => IInv
  BY InitInv
<1>2. IInv /\ [Next]_vars => IInv'
  BY Step
<1> QED
  BY <1>1, <1>2, PTL DEF Spec

\* Every variable of the pool and of hmp_malloc keeps its type.
THEOREM TypeCorrect == Spec => []TypeOK
<1>1. IInv => TypeOK
  BY DEF IInv
<1> QED
  BY <1>1, Inductive, PTL

\* The messages of all transports lie in the pool, apart from each other and
\* from every block that hmp_malloc returned.
THEOREM MessagesStayApart == Spec => []MessagesApart
<1>1. ASSUME IInv PROVE MessagesApart
  <2>0. TypeOK /\ SlotInv /\ GrantInv
    BY <1>1 DEF IInv
  <2>1. ASSUME NEW s \in tasks
        PROVE  /\ s.peer \in 0 .. NodeCnt - 1 /\ s.id \in 0 .. 2 /\ s.len = 40
               /\ s.addr = Base + s.peer * 160 + s.id * 40 /\ s.addr \in Nat
               /\ s = [peer |-> s.peer, id |-> s.id, addr |-> s.addr, len |-> s.len]
    BY <2>0, Sizes DEF TypeOK, SlotInv
  <2>2. ASSUME NEW s \in tasks, NEW t \in tasks, s # t PROVE Apart(s, t)
    <3>1. s.peer # t.peer \/ s.id # t.id
      BY <2>1, <2>2
    <3>2. s.peer \in Nat /\ t.peer \in Nat /\ s.id \in 0 .. 2 /\ t.id \in 0 .. 2 /\ Base \in Nat
      BY <2>1, Sizes
    <3>3. s.len = 40 /\ t.len = 40
      BY <2>1
    <3>4. /\ s.addr = Base + s.peer * 160 + s.id * 40
          /\ t.addr = Base + t.peer * 160 + t.id * 40
      BY <2>1
    <3> QED BY <3>1, <3>2, <3>3, <3>4 DEF Apart
  <2>3. ASSUME NEW t \in tasks
        PROVE  Base <= t.addr /\ t.addr + t.len <= BlockArea
    BY <2>1, Sizes
  <2>4. ASSUME NEW t \in tasks PROVE InPool(t)
    <3>1. Base <= t.addr /\ t.addr + t.len <= Base + NodeCnt * 160 /\ t.addr + t.len \in Nat
      BY <2>1, <2>3, Sizes
    <3>2. NodeCnt * 160 <= 1280 /\ PoolSize = 4096 /\ Base \in Nat /\ NodeCnt \in Nat
      BY Sizes
    <3> QED BY <3>1, <3>2 DEF InPool
  <2>5. ASSUME NEW t \in tasks, NEW i \in 1 .. Len(blocks) PROVE Apart(t, blocks[i])
    <3>1. blocks[i] \in Block
      BY <2>0 DEF TypeOK
    <3>2. blocks[i].addr \in Nat /\ BlockArea <= blocks[i].addr
      BY <3>1, <2>0 DEF Block, GrantInv
    <3> QED BY <3>2, <2>1, <2>3, Sizes DEF Apart
  <2> QED BY <2>2, <2>4, <2>5 DEF MessagesApart
<1> QED
  BY <1>1, Inductive, PTL

\* Calls of hmp_malloc that did not overlap returned blocks that do not.
THEOREM BlocksStayApart == Spec => []BlocksApartUnlessRaced
<1>1. IInv => BlocksApartUnlessRaced
  BY DEF IInv, TurnInv, BlocksApartUnlessRaced
<1> QED
  BY <1>1, Inductive, PTL

\* However the calls overlap, blocks that fit in the pool together lie in it.
THEOREM PoolHoldsBlocks == Spec => []PoolSuffices
<1>1. ASSUME IInv PROVE PoolSuffices
  <2>0. TypeOK /\ GrantInv
    BY <1>1 DEF IInv
  <2> SUFFICES ASSUME granted <= PoolSize - NodeCnt * 4 * HMP_TASK_SIZE,
                      NEW i \in 1 .. Len(blocks)
               PROVE  InPool(blocks[i])
    BY DEF PoolSuffices
  <2>1. blocks[i] \in Block
    BY <2>0 DEF TypeOK
  <2>2. /\ blocks[i].addr \in Nat /\ blocks[i].len \in Nat
        /\ BlockArea <= blocks[i].addr
        /\ blocks[i].addr + blocks[i].len <= BlockArea + granted
    BY <2>1, <2>0 DEF Block, GrantInv
  <2>3. granted \in Nat /\ NodeCnt \in Nat /\ Base \in Nat
    BY <2>0, Sizes DEF TypeOK
  <2>4. granted <= 4096 - NodeCnt * 160
    BY <2>3, Sizes
  <2>5. BlockArea = Base + NodeCnt * 160 /\ PoolSize = 4096
    BY Sizes
  <2> QED BY <2>2, <2>3, <2>4, <2>5 DEF InPool
<1> QED
  BY <1>1, Inductive, PTL

\* The hybrid address of a block is decoded to its owner and its place.
THEOREM AddressesDecode == Spec => []HybridAddressesDecode
<1>1. ASSUME IInv PROVE HybridAddressesDecode
  <2> SUFFICES ASSUME NEW i \in 1 .. Len(blocks), blocks[i].addr < Span, NEW id \in NodeId
               PROVE  /\ NodeIdOf(HybridAddr(id, blocks[i].addr)) = id
                      /\ LocalOf(HybridAddr(id, blocks[i].addr)) = blocks[i].addr
    BY DEF HybridAddressesDecode
  <2>1. blocks[i] \in Block
    BY <1>1 DEF IInv, TypeOK
  <2>2. blocks[i].addr \in Nat /\ id \in Nat
    BY <2>1, Sizes DEF Block, NodeId
  <2> QED BY <2>2, HybridRoundTrip
<1> QED
  BY <1>1, Inductive, PTL
=============================================================================
