----------------------------- MODULE HmpCompletion -----------------------------
(***************************************************************************)
(* The completion queue of one connected transport: the main thread posts   *)
(* reads and writes and spins until a read's task is done, the epoll thread *)
(* posts the INIT message and runs hmp_cq_comp_channel_handler, and the     *)
(* adapter performs the requests, fills the queue and raises the event of   *)
(* an armed queue in between.  A request stands for its work request and    *)
(* its hmp_task, which the code allocates anew for each and never frees.    *)
(***************************************************************************)
EXTENDS Naturals, Sequences, FiniteSets

CONSTANTS
  Reqs,      \* the requests that may be posted
  NoReq,     \* no request: a wr_id that was never filled in
  CqeSize,   \* CQE_ALLOC_SIZE: entries of the completion queue
  MaxWr,     \* MAX_SEND_WR: send requests the queue pair holds
  Faults     \* what may fail

FaultKind == {"ibv_post_send", "completion", "ibv_get_cq_event",
              "ibv_req_notify_cq", "ibv_poll_cq", "network"}

ASSUME ReqsAssumption == NoReq \notin Reqs /\ IsFiniteSet(Reqs)
\* The queue holds at least the receive requests and the INIT message.
ASSUME SizeAssumption == CqeSize \in Nat \ 0 .. 2 /\ MaxWr \in Nat \ {0}
ASSUME FaultAssumption == Faults \subseteq FaultKind

VARIABLES
  alive,     \* the process has not crashed
  qp,        \* "ready", or "destroyed" by on_cm_disconnected
  connected, \* trans_state = HMP_TRANSPORT_STATE_CONNECTED
  reader,    \* the read whose task the main thread spins on, or NoReq
  op,        \* op[r]: opcode of the request
  done,      \* done[r]: task->type = HMP_TASK_DONE
  stage,     \* stage[r]: where the request is
  status,    \* status[r]: how the adapter performed it
  sq,        \* the send queue of the queue pair: what it has not performed yet
  cq,        \* the completion queue
  overrun,   \* a completion found the queue full: the queue is in error
  armed,     \* ibv_req_notify_cq is in force
  chan,      \* events in the completion channel
  handler,   \* where the epoll thread is in the completion handler
  wc,        \* the handler's work completion
  deaf,      \* a failed ibv_req_notify_cq left the queue unarmed
  burst      \* history: calls of hmp_read and hmp_write since a read returned

appVars == <<alive, connected, reader, op, done, burst>>
nicVars == <<qp, stage, status, sq, cq, overrun, armed, chan>>
runVars == <<handler, wc, deaf>>
vars == <<appVars, nicVars, runVars>>

Opcode == {"SEND", "RECV", "RDMA_WRITE", "RDMA_READ"}
Stage == {"free", "refused", "posted", "queued", "lost", "polled"}
Step == {"idle", "get", "notify", "poll", "handle"}

MayFail(f) == f \in Faults

\* hmp_cq_get armed the queue and hmp_pre_post_recv posted two receive requests,
\* or fewer when it failed.
Init ==
  /\ alive = TRUE /\ qp = "ready" /\ connected = FALSE
  /\ reader = NoReq
  /\ \E R \in SUBSET Reqs :
       /\ Cardinality(R) <= 2
       /\ op = [r \in Reqs |-> IF r \in R THEN "RECV" ELSE "none"]
       /\ stage = [r \in Reqs |-> IF r \in R THEN "posted" ELSE "free"]
  /\ done = [r \in Reqs |-> FALSE]
  /\ status = [r \in Reqs |-> "none"]
  /\ sq = <<>> /\ cq = <<>> /\ overrun = FALSE
  /\ armed = TRUE /\ chan = 0
  /\ handler = "idle" /\ wc = NoReq /\ deaf = FALSE
  /\ burst = 0

-----------------------------------------------------------------------------
(* Posting *)

\* Send requests whose slot the queue pair has not got back.
Outstanding == {r \in Reqs : stage[r] \in {"posted", "queued", "lost"} /\ op[r] # "RECV"}

\* ibv_post_send: a destroyed queue pair is freed memory, the call may crash.
PostSend(r, opcode) ==
  /\ stage[r] = "free"
  /\ op' = [op EXCEPT ![r] = opcode]
  /\ \/ /\ qp = "ready" /\ Cardinality(Outstanding) < MaxWr
        /\ stage' = [stage EXCEPT ![r] = "posted"]
        /\ sq' = Append(sq, r)
        /\ UNCHANGED alive
     \/ /\ \/ MayFail("ibv_post_send")
           \/ qp = "destroyed"
           \/ Cardinality(Outstanding) >= MaxWr
        /\ stage' = [stage EXCEPT ![r] = "refused"]
        /\ alive' \in {TRUE, qp # "destroyed"}
        /\ UNCHANGED sq
  /\ UNCHANGED <<connected, done, qp, status, cq, overrun, armed, chan, runVars>>

\* on_cm_established: hmp_post_send of the INIT message, by the epoll thread.
PostInit(r) ==
  /\ alive /\ handler = "idle" /\ qp = "ready"
  /\ \A q \in Reqs : op[q] # "SEND"
  /\ PostSend(r, "SEND")
  /\ UNCHANGED <<reader, burst>>

\* hmp_rdma_write: whether or not the request was posted, the call returns.
Write(r) ==
  /\ alive /\ reader = NoReq /\ connected
  /\ PostSend(r, "RDMA_WRITE")
  /\ burst' = burst + 1
  /\ UNCHANGED reader

\* hmp_rdma_read up to its loop: entered whether or not the request was posted.
Read(r) ==
  /\ alive /\ reader = NoReq /\ connected
  /\ PostSend(r, "RDMA_READ")
  /\ burst' = burst + 1
  /\ reader' = r

\* Wrong: hmp_rdma_read does not wait for its task.
ReadReturnAtOnce ==
  /\ alive /\ reader # NoReq
  /\ reader' = NoReq /\ burst' = 0
  /\ UNCHANGED <<alive, connected, op, done, nicVars, runVars>>

\* while(read_task->type != HMP_TASK_DONE) ends.
ReadReturn ==
  /\ alive /\ reader # NoReq /\ done[reader]
  /\ reader' = NoReq /\ burst' = 0
  /\ UNCHANGED <<alive, connected, op, done, nicVars, runVars>>

-----------------------------------------------------------------------------
(* The adapter *)

\* The peer sends one message; a second receive request is never used.
Usable(r) ==
  op[r] = "RECV" => \A q \in Reqs : op[q] = "RECV" => status[q] # "good"

\* A request is performed, the sends in their order, and its completion enters
\* the queue; an armed queue raises one event.  A full queue goes into error and
\* the completion is lost.
Complete(r) ==
  /\ alive /\ qp = "ready" /\ stage[r] = "posted"
  /\ \/ op[r] = "RECV" /\ UNCHANGED sq
     \/ sq # <<>> /\ r = Head(sq) /\ sq' = Tail(sq)
  /\ \/ Usable(r) /\ status' = [status EXCEPT ![r] = "good"]
     \/ MayFail("completion") /\ status' = [status EXCEPT ![r] = "bad"]
  /\ IF ~overrun /\ Len(cq) < CqeSize
     THEN /\ stage' = [stage EXCEPT ![r] = "queued"]
          /\ cq' = Append(cq, r)
          /\ armed' = FALSE
          /\ chan' = IF armed THEN chan + 1 ELSE chan
          /\ UNCHANGED overrun
     ELSE /\ stage' = [stage EXCEPT ![r] = "lost"]
          /\ overrun' = TRUE
          /\ UNCHANGED <<cq, armed, chan>>
  /\ UNCHANGED <<appVars, qp, runVars>>

-----------------------------------------------------------------------------
(* The epoll thread *)

\* epoll_wait reports the completion channel while it is registered.
Dispatch ==
  /\ alive /\ handler = "idle" /\ qp = "ready" /\ chan > 0
  /\ handler' = "get"
  /\ UNCHANGED <<appVars, nicVars, wc, deaf>>

\* Wrong: the handler polls without arming the queue again.
GetCqEventOnly ==
  /\ alive /\ handler = "get"
  /\ handler' = "poll" /\ chan' = chan - 1
  /\ wc' = NoReq
  /\ UNCHANGED <<appVars, qp, stage, status, sq, cq, overrun, armed, deaf>>

\* ibv_get_cq_event and ibv_ack_cq_events.  The local wc is uninitialised: it
\* may hold what the last call of the handler left on the stack.
GetCqEvent ==
  /\ alive /\ handler = "get"
  /\ \/ handler' = "notify" /\ chan' = chan - 1
     \/ MayFail("ibv_get_cq_event") /\ handler' = "idle" /\ UNCHANGED chan
  /\ wc' \in {wc, NoReq}
  /\ UNCHANGED <<appVars, qp, stage, status, sq, cq, overrun, armed, deaf>>

\* ibv_req_notify_cq asks for an event for the next completion; when it fails
\* the handler returns and what is in the queue stays there.
ReqNotify ==
  /\ alive /\ handler = "notify"
  /\ \/ handler' = "poll" /\ armed' = TRUE /\ UNCHANGED deaf
     \/ MayFail("ibv_req_notify_cq") /\ handler' = "idle" /\ deaf' = TRUE /\ UNCHANGED armed
  /\ UNCHANGED <<appVars, qp, stage, status, sq, cq, overrun, chan, wc>>

\* ibv_poll_cq for one entry.  A negative result counts as an entry: the
\* handler goes on with what wc held before.
PollCq ==
  /\ alive /\ handler = "poll"
  /\ \/ /\ cq = <<>>
        /\ handler' = "idle"
        /\ UNCHANGED <<wc, stage, cq>>
     \/ /\ cq # <<>>
        /\ handler' = "handle"
        /\ wc' = Head(cq) /\ cq' = Tail(cq)
        /\ stage' = [stage EXCEPT ![Head(cq)] = "polled"]
     \/ /\ MayFail("ibv_poll_cq")
        /\ handler' = "handle"
        /\ UNCHANGED <<wc, stage, cq>>
  /\ UNCHANGED <<appVars, qp, status, sq, overrun, armed, chan, deaf>>

\* Wrong: one completion is taken from the queue for each event.
HandleOnce ==
  /\ alive /\ handler = "handle" /\ wc \in Reqs
  /\ done' = [done EXCEPT ![wc] = @ \/ (op[wc] = "RDMA_READ" /\ status[wc] = "good")]
  /\ connected' = (connected \/ (op[wc] = "RECV" /\ status[wc] = "good"))
  /\ handler' = "idle"
  /\ UNCHANGED <<alive, reader, op, burst, nicVars, wc, deaf>>

\* Wrong: a read's task is done whatever its status.
HandleIgnoringStatus ==
  /\ alive /\ handler = "handle" /\ wc \in Reqs
  /\ done' = [done EXCEPT ![wc] = @ \/ op[wc] = "RDMA_READ"]
  /\ connected' = (connected \/ op[wc] = "RECV")
  /\ handler' = "poll"
  /\ UNCHANGED <<alive, reader, op, burst, nicVars, wc, deaf>>

\* hmp_wc_success_handler, or hmp_wc_error_handler, which only reports.  An
\* uninitialised wc may also be a status and a pointer that nobody wrote:
\* reported as an error, or followed.
HandleWc ==
  /\ alive /\ handler = "handle"
  /\ IF wc \in Reqs
     THEN /\ done' = [done EXCEPT ![wc] = @ \/ (op[wc] = "RDMA_READ" /\ status[wc] = "good")]
          /\ connected' = (connected \/ (op[wc] = "RECV" /\ status[wc] = "good"))
          /\ UNCHANGED alive
     ELSE alive' \in BOOLEAN /\ UNCHANGED <<done, connected>>
  /\ handler' = "poll"
  /\ UNCHANGED <<reader, op, burst, nicVars, wc, deaf>>

Handler == Dispatch \/ GetCqEvent \/ ReqNotify \/ PollCq \/ HandleWc

\* on_cm_disconnected: the queue pair goes, the channel is unregistered, and
\* nothing tells the main thread.  An event of the channel that epoll_wait
\* reported together with this one is still dispatched.
Disconnect ==
  /\ MayFail("network") /\ alive /\ handler = "idle" /\ qp = "ready"
  /\ qp' = "destroyed"
  /\ handler' = "idle" \/ (chan > 0 /\ handler' = "get")
  /\ UNCHANGED <<appVars, stage, status, sq, cq, overrun, armed, chan, wc, deaf>>

Next ==
  \/ \E r \in Reqs : PostInit(r) \/ Write(r) \/ Read(r) \/ Complete(r)
  \/ ReadReturn \/ Handler \/ Disconnect

\* Both threads are scheduled and the adapter performs what was sent; a call
\* that the handler makes again and again does not fail for ever.  The
\* application need not call anything.
Fairness ==
  /\ WF_vars(ReadReturn)
  /\ WF_vars(Handler)
  /\ SF_vars(GetCqEvent /\ handler' = "notify")
  /\ SF_vars(PollCq /\ (handler' = "idle" \/ cq' # cq))
  /\ \A r \in Reqs : WF_vars(op[r] # "RECV" /\ Complete(r))

Spec == Init /\ [][Next]_vars
FairSpec == Spec /\ Fairness

-----------------------------------------------------------------------------
(* Properties *)

\* The type invariant of this module (hmp_cq_comp_channel_handler and the calls
\* that post requests).
TypeOK ==
  /\ alive \in BOOLEAN /\ qp \in {"ready", "destroyed"} /\ connected \in BOOLEAN
  /\ reader \in Reqs \cup {NoReq}
  /\ op \in [Reqs -> Opcode \cup {"none"}]
  /\ done \in [Reqs -> BOOLEAN]
  /\ stage \in [Reqs -> Stage]
  /\ status \in [Reqs -> {"none", "good", "bad"}]
  /\ sq \in Seq(Reqs) /\ cq \in Seq(Reqs) /\ overrun \in BOOLEAN
  /\ armed \in BOOLEAN /\ chan \in Nat
  /\ handler \in Step /\ wc \in Reqs \cup {NoReq} /\ deaf \in BOOLEAN
  /\ burst \in Nat

\* A completion in the queue is one the epoll thread will get to: it is in its
\* handler, or an event waits in the channel, unless ibv_req_notify_cq failed.
\* Arming before polling until the queue is empty leaves no gap in which a
\* completion could go unnoticed.
CompletionAnnounced ==
  cq # <<>> /\ handler = "idle" => chan > 0 \/ deaf

\* hmp_rdma_read returns from its loop only after the adapter performed this
\* very read without an error, whatever was polled, flushed or handled twice.
ReadReturnsAfterTransfer ==
  [][reader # NoReq /\ reader' # reader =>
       op[reader] = "RDMA_READ" /\ status[reader] = "good"]_vars

\* How far a request has come for whoever posted it.  A task that is DONE was
\* a good read.
PhaseOf(r) ==
  CASE stage[r] \in {"free", "refused"} -> "unposted"
    [] stage[r] = "posted" -> "posted"
    [] stage[r] \in {"queued", "lost", "polled"} ->
         IF done[r] THEN "noticed" ELSE status[r]

\* What a transport promises about its requests.
Requests == INSTANCE HmpRequests WITH phase <- [r \in Reqs |-> PhaseOf(r)]

\* Posting, completing, polling and handling implement that promise.
ImplementsRequests == Requests!Spec

\* hmp_read is what paces the caller: everything asked for before a read is
\* polled when the read returns, so the completion queue overruns only after a
\* burst of calls without one.  Of its CqeSize entries one is for the INIT
\* message and one for the receive request that an error flushes: whoever calls
\* hmp_read at least once in CqeSize - 2 calls loses no completion.
OverrunNeedsBurst ==
  [][overrun' /\ ~overrun => burst > CqeSize - 2]_vars

\* Nothing went wrong that the code cannot recover from.
Unharmed == alive /\ qp = "ready" /\ ~deaf /\ ~overrun

\* While nothing breaks, every completion that enters the queue is polled.
CompletionsPolled ==
  \A r \in Reqs : stage[r] = "queued" ~> stage[r] = "polled" \/ ~Unharmed

\* A call of hmp_read returns, unless its request failed: then, and also when
\* the queue pair is destroyed under it, it spins for good.
ReadReturns ==
  reader # NoReq ~>
    \/ reader = NoReq \/ ~Unharmed
    \/ \E r \in Reqs : reader = r /\ (stage[r] = "refused" \/ status[r] = "bad")
=============================================================================
