------------------------------ MODULE HmpDataPath ------------------------------
(***************************************************************************)
(* hmp_read and hmp_write between nodes that have their transports: the      *)
(* main thread of each node copies locally, or checks the transport, creates *)
(* a task, posts a work request and, for a read, spins until the epoll       *)
(* thread marks the task; the adapters execute the requests of a queue pair  *)
(* in order, on the memory as it is when they do.                           *)
(***************************************************************************)
EXTENDS Naturals, Sequences

CONSTANTS
  Node,
  Pool,      \* words of a node's memory pool, the same addresses at each node
  Heap,      \* words of a node's memory outside the pool: not registered
  Val,
  NoCall,
  Rights,    \* access flags the pool was registered with
  Depth,     \* bound on the calls for a node's memory that are not in place
  Faults     \* what may fail

\* The flags in hmp_mempool_create's call of ibv_reg_mr.
CodeRights == {"LOCAL_WRITE", "REMOTE_WRITE"}

Addr == Pool \cup Heap
FaultKind == {"malloc", "ibv_post_send", "network"}

ASSUME PlaceAssumption == Pool \cap Heap = {}
ASSUME RightsAssumption ==
  CodeRights \subseteq Rights /\ Rights \subseteq CodeRights \cup {"REMOTE_READ"}
ASSUME BoundAssumption == Depth \in Nat \ {0} /\ Faults \subseteq FaultKind

VARIABLES
  mem,          \* mem[n][a]: the word at address a of node n
  pc,           \* pc[n]: where the main thread is in a call
  call,         \* call[n]: the call it is in: target node and request
  trans_state,  \* trans_state[n][p]
  sq,           \* sq[n][p]: the send queue of the queue pair
  flushed,      \* flushed[n][p]: the queue pair is in error, its requests fail
  task          \* task[n]: type of the task of the read the main thread is in,
                \* or "completed" once its completion is there and not handled

\* History: what the application of n has been told about p's memory.
VARIABLES
  due,          \* due[n][p]: reads and writes asked for that are not in place
  logged        \* logged[n][p]: calls of which only a line in the log remains

appVars == <<pc, call>>
nicVars == <<trans_state, sq, flushed, due, logged>>
vars == <<mem, appVars, nicVars, task>>

Request == [op : {"READ", "WRITE"}, local : Addr, remote : Addr]
Call == [node : Node, req : Request]

ASSUME NoCallAssumption == NoCall \notin Call

MayFail(f) == f \in Faults

\* The main thread is back in the application, the call's arguments are gone.
Leave(n) ==
  /\ pc' = [pc EXCEPT ![n] = "idle"]
  /\ call' = [call EXCEPT ![n] = NoCall]

\* The call's request is in the send queue, ...
Posted(n) ==
  LET p == call[n].node IN
  /\ sq' = [sq EXCEPT ![n][p] = Append(@, call[n].req)]
  /\ due' = [due EXCEPT ![n][p] = @ + 1]
  /\ UNCHANGED logged

\* ... or it is given up, which ERROR_LOG alone reports.
Logged(n) ==
  LET p == call[n].node IN
  /\ due' = [due EXCEPT ![n][p] = @ + 1]
  /\ logged' = [logged EXCEPT ![n][p] = @ + 1]
  /\ UNCHANGED sq

Init ==
  /\ mem \in [Node -> [Addr -> Val]]
  /\ pc = [n \in Node |-> "idle"]
  /\ call = [n \in Node |-> NoCall]
  /\ trans_state = [n \in Node |-> [p \in Node |-> "CONNECTING"]]
  /\ sq = [n \in Node |-> [p \in Node |-> <<>>]]
  /\ flushed = [n \in Node |-> [p \in Node |-> FALSE]]
  /\ task = [n \in Node |-> "none"]
  /\ due = [n \in Node |-> [p \in Node |-> 0]]
  /\ logged = [n \in Node |-> [p \in Node |-> 0]]

-----------------------------------------------------------------------------
(* The main thread *)

\* The application stores into its own memory between two calls.
Store(n, a, v) ==
  /\ pc[n] = "idle"
  /\ mem' = [mem EXCEPT ![n][a] = v]
  /\ UNCHANGED <<appVars, nicVars, task>>

\* hmp_read and hmp_write of the node's own memory: memcpy.
LocalCopy(n, from, to) ==
  /\ pc[n] = "idle"
  /\ mem' = [mem EXCEPT ![n][to] = mem[n][from]]
  /\ UNCHANGED <<appVars, nicVars, task>>

\* hmp_read and hmp_write of another node's memory.  Remote addresses are
\* addresses of the pool; the local one is the caller's choice.
RemoteCall(n, p, r) ==
  /\ pc[n] = "idle" /\ p # n /\ r.remote \in Pool /\ due[n][p] < Depth
  /\ pc' = [pc EXCEPT ![n] = "check"]
  /\ call' = [call EXCEPT ![n] = [node |-> p, req |-> r]]
  /\ UNCHANGED <<mem, nicVars, task>>

\* hmp_transport_check_state: on an error the call returns 0 as if it had
\* been done.
CheckState(n) ==
  /\ pc[n] = "check"
  /\ \/ /\ trans_state[n][call[n].node] = "CONNECTED"
        /\ pc' = [pc EXCEPT ![n] = "post"]
        /\ UNCHANGED <<call, sq, due, logged>>
     \/ /\ trans_state[n][call[n].node] = "ERROR"
        /\ Logged(n) /\ Leave(n)
  /\ UNCHANGED <<mem, trans_state, flushed, task>>

\* Without a task hmp_rdma_read and hmp_rdma_write return, and so do hmp_read
\* and hmp_write, with 0.
NoTask(n) ==
  /\ pc[n] = "post" /\ MayFail("malloc")
  /\ Logged(n) /\ Leave(n)
  /\ UNCHANGED <<mem, trans_state, flushed, task>>

\* Wrong: a refused request is not even reported.
PostWriteSilently(n) ==
  /\ pc[n] = "post" /\ call[n].req.op = "WRITE"
  /\ \/ Posted(n)
     \/ /\ MayFail("ibv_post_send")
        /\ due' = [due EXCEPT ![n][call[n].node] = @ + 1]
        /\ UNCHANGED <<sq, logged>>
  /\ Leave(n)
  /\ UNCHANGED <<mem, trans_state, flushed, task>>

\* hmp_rdma_write from its task on: the call returns at once, and with 0.
PostWrite(n) ==
  /\ pc[n] = "post" /\ call[n].req.op = "WRITE"
  /\ Posted(n) \/ (MayFail("ibv_post_send") /\ Logged(n))
  /\ Leave(n)
  /\ UNCHANGED <<mem, trans_state, flushed, task>>

\* hmp_rdma_read up to its loop, which it enters in any case.
PostRead(n) ==
  /\ pc[n] = "post" /\ call[n].req.op = "READ"
  /\ Posted(n) \/ (MayFail("ibv_post_send") /\ Logged(n))
  /\ pc' = [pc EXCEPT ![n] = "spin"]
  /\ task' = [task EXCEPT ![n] = "READ"]
  /\ UNCHANGED <<mem, call, trans_state, flushed>>

\* Wrong: the loop ends whatever became of the task.
ReadReturnAnyway(n) ==
  /\ pc[n] = "spin"
  /\ Leave(n)
  /\ task' = [task EXCEPT ![n] = "none"]
  /\ UNCHANGED <<mem, nicVars>>

\* The loop ends and hmp_read returns.
ReadReturn(n) ==
  /\ pc[n] = "spin" /\ task[n] = "DONE"
  /\ Leave(n)
  /\ task' = [task EXCEPT ![n] = "none"]
  /\ UNCHANGED <<mem, nicVars>>

Main(n) ==
  CheckState(n) \/ NoTask(n) \/ PostWrite(n) \/ PostRead(n) \/ ReadReturn(n)

-----------------------------------------------------------------------------
(* The epoll thread *)

\* hmp_handle_mr_msg, or a CONNECT_ERROR event.
Connect(n, p) ==
  /\ trans_state[n][p] = "CONNECTING" /\ p # n
  /\ \/ trans_state' = [trans_state EXCEPT ![n][p] = "CONNECTED"]
     \/ MayFail("network") /\ trans_state' = [trans_state EXCEPT ![n][p] = "ERROR"]
  /\ UNCHANGED <<mem, appVars, sq, flushed, due, logged, task>>

\* Wrong: the completion is handled without a trace in the task.
MarkNothing(n) ==
  /\ task[n] = "completed"
  /\ task' = [task EXCEPT ![n] = "READ"]
  /\ UNCHANGED <<mem, appVars, nicVars>>

\* hmp_wc_success_handler of the read's completion.
MarkDone(n) ==
  /\ task[n] = "completed"
  /\ task' = [task EXCEPT ![n] = "DONE"]
  /\ UNCHANGED <<mem, appVars, nicVars>>

\* Wrong: an error completion marks the task, too.
FailAndMark(n, p) ==
  LET r == Head(sq[n][p]) IN
  /\ sq[n][p] # <<>>
  /\ flushed[n][p] \/ MayFail("network") \/ r.local \in Heap
  /\ sq' = [sq EXCEPT ![n][p] = Tail(@)]
  /\ flushed' = [flushed EXCEPT ![n][p] = TRUE]
  /\ task' = [task EXCEPT ![n] = IF r.op = "READ" THEN "DONE" ELSE @]
  /\ UNCHANGED <<mem, appVars, trans_state, due, logged>>

-----------------------------------------------------------------------------
(* The adapters *)

\* The pool's key covers the pool alone, and a read needs the right to read.
Permitted(r) ==
  r.local \in Pool /\ (r.op = "READ" => "REMOTE_READ" \in Rights)

\* The oldest request of a queue pair is executed.
Execute(n, p) ==
  LET r == Head(sq[n][p]) IN
  /\ sq[n][p] # <<>> /\ ~flushed[n][p] /\ Permitted(r)
  /\ sq' = [sq EXCEPT ![n][p] = Tail(@)]
  /\ due' = [due EXCEPT ![n][p] = @ - 1]
  /\ IF r.op = "READ"
     THEN /\ mem' = [mem EXCEPT ![n][r.local] = mem[p][r.remote]]
          /\ task' = [task EXCEPT ![n] = "completed"]
     ELSE /\ mem' = [mem EXCEPT ![p][r.remote] = mem[n][r.local]]
          /\ UNCHANGED task
  /\ UNCHANGED <<appVars, trans_state, flushed, logged>>

\* The oldest request fails: hmp_wc_error_handler only reports it, and the
\* queue pair fails every request after it.
Fail(n, p) ==
  /\ sq[n][p] # <<>>
  /\ flushed[n][p] \/ MayFail("network") \/ ~Permitted(Head(sq[n][p]))
  /\ sq' = [sq EXCEPT ![n][p] = Tail(@)]
  /\ flushed' = [flushed EXCEPT ![n][p] = TRUE]
  /\ UNCHANGED <<mem, appVars, trans_state, task, due, logged>>

Adapter(n, p) == Execute(n, p) \/ Fail(n, p)

Next ==
  \E n \in Node :
    \/ Main(n) \/ MarkDone(n)
    \/ \E a \in Addr, v \in Val : Store(n, a, v)
    \/ \E from, to \in Addr : LocalCopy(n, from, to)
    \/ \E p \in Node : \/ Connect(n, p) \/ Adapter(n, p)
                       \/ \E r \in Request : RemoteCall(n, p, r)

\* Threads are scheduled, adapters work; the application may stop.
Fairness ==
  \A n \in Node :
    /\ WF_vars(Main(n)) /\ WF_vars(MarkDone(n))
    /\ \A p \in Node : WF_vars(Connect(n, p)) /\ WF_vars(Adapter(n, p))

Spec == Init /\ [][Next]_vars
FairSpec == Spec /\ Fairness

-----------------------------------------------------------------------------
(* Properties *)

\* The type invariant of this module (hmp_read, hmp_write and what they call).
TypeOK ==
  /\ mem \in [Node -> [Addr -> Val]]
  /\ pc \in [Node -> {"idle", "check", "post", "spin"}]
  /\ call \in [Node -> Call \cup {NoCall}]
  /\ trans_state \in [Node -> [Node -> {"CONNECTING", "CONNECTED", "ERROR"}]]
  /\ sq \in [Node -> [Node -> Seq(Request)]]
  /\ flushed \in [Node -> [Node -> BOOLEAN]]
  /\ task \in [Node -> {"none", "READ", "completed", "DONE"}]
  /\ due \in [Node -> [Node -> Nat]] /\ logged \in [Node -> [Node -> Nat]]
  /\ \A n \in Node : (call[n] = NoCall <=> pc[n] = "idle")
                     /\ (task[n] = "none" <=> pc[n] # "spin")

\* hmp_write returns 0 before its request is executed, and when it was refused
\* or had no task; but a read of the same node that returns from its loop is a
\* barrier: everything its caller had asked of that node since the beginning is
\* in place, or was reported to the log before the call returned.  Nothing is
\* still queued, and nothing that was posted has failed.
ReadIsBarrier ==
  [][\A n \in Node :
       LET p == call[n].node IN
       pc[n] = "spin" /\ pc'[n] = "idle" =>
         sq[n][p] = <<>> /\ ~flushed[n][p] /\ due[n][p] = logged[n][p]]_vars

\* How a read's task looks to its caller.
Await(t) == CASE t = "none" -> "no" [] t = "READ" -> "asked" [] OTHER -> "done"

\* What the users of hmp_read and hmp_write may rely on.
Memory ==
  INSTANCE HmpMemory WITH
    asked <- sq, broken <- flushed, dropped <- logged,
    reading <- [n \in Node |-> Await(task[n])]

\* Checking, posting, executing, completing and spinning implement it.
ImplementsMemory == Memory!Spec

\* "read content is" is what hmp_rdma_read reports when its loop has ended: a
\* read that was posted gets there, behind requests that all name buffers of
\* the pool, unless the network fails its queue pair.
ReadReturns ==
  \A n, p \in Node :
    /\ sq[n][p] # <<>> /\ sq[n][p][Len(sq[n][p])].op = "READ" /\ ~flushed[n][p]
    /\ \A i \in 1..Len(sq[n][p]) : sq[n][p][i].local \in Pool
    ~> pc[n] # "spin" \/ ("network" \in Faults /\ flushed[n][p])
=============================================================================
