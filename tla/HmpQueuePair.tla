------------------------------ MODULE HmpQueuePair ------------------------------
(***************************************************************************)
(* What a transport acquires while it is set up, step by step, what each     *)
(* failure gives back, and the events that may still be under way: the epoll *)
(* thread takes all ready descriptors at once, so a handler may run for a    *)
(* descriptor that an earlier handler of the same batch has done away with.  *)
(***************************************************************************)
EXTENDS Naturals, FiniteSets

CONSTANTS
  Active,    \* transports of hmp_node_init, for the peers to connect to
  Passive,   \* transports of on_cm_connect_request
  Faults     \* the library calls that may fail

Trans == Active \cup Passive

FaultKind == {"calloc", "rdma_create_event_channel", "fcntl", "epoll_ctl",
              "hmp_device_lookup", "ibv_create_comp_channel", "ibv_create_cq",
              "ibv_req_notify_cq", "rdma_create_qp", "rdma_connect", "rdma_accept"}

ASSUME TransAssumption == Active \cap Passive = {}
ASSUME QpFaultsAssumption == Faults \subseteq FaultKind

\* The structures and kernel objects of a transport: its memory, its event
\* channel and the registration of that channel in the epoll instance; its
\* hmp_cq, the completion channel with its registration, the completion queue
\* and the queue pair.
Resource == {"trans", "ec", "ecwatch", "hcq", "chan", "watch", "cq", "qp"}

VARIABLES
  pc,      \* pc[t]: the step that comes next, a cleanup label, or the outcome
  has,     \* has[t]: the resources that exist
  cm,      \* cm[t]: the CM event that waits for a handler
  comp,    \* comp[t]: a completion event waits on the channel
  batch,   \* what epoll_wait returned and was not served yet
  cur      \* the descriptor whose handler runs

vars == <<pc, has, cm, comp, batch, cur>>

Fd == {"ec", "cq", "listen", "idle"} \X (Trans \cup {"none"})
Idle == <<"idle", "none">>

\* The events of a passive transport come through the listener's channel.
EventFd(t) == IF t \in Passive THEN <<"listen", t>> ELSE <<"ec", t>>
CqFd(t) == <<"cq", t>>

Init ==
  /\ pc = [t \in Trans |-> "none"]
  /\ has = [t \in Trans |-> {}]
  /\ cm = [t \in Trans |-> "none"]
  /\ comp = [t \in Trans |-> FALSE]
  /\ batch = {} /\ cur = Idle

-----------------------------------------------------------------------------
(* Building blocks *)

Goto(t, label) == pc' = [pc EXCEPT ![t] = label]
Env == <<cm, comp, batch, cur>>

\* A call that makes r, and where its error path begins.
Acquire(t, here, r, next, call, error) ==
  /\ pc[t] = here
  /\ \/ Goto(t, next) /\ has' = [has EXCEPT ![t] = @ \cup {r}]
     \/ call \in Faults /\ Goto(t, error) /\ UNCHANGED has
  /\ UNCHANGED Env

\* A call that makes nothing but may fail.
Attempt(t, here, next, call, error) ==
  /\ pc[t] = here
  /\ \/ Goto(t, next)
     \/ call \in Faults /\ Goto(t, error)
  /\ UNCHANGED <<has, Env>>

\* A step of an error path.
GiveBack(t, here, rs, next) ==
  /\ pc[t] = here
  /\ Goto(t, next) /\ has' = [has EXCEPT ![t] = @ \ rs]
  /\ UNCHANGED Env

-----------------------------------------------------------------------------
(* hmp_transport_create *)

\* In the main thread for an active transport, in the handler for a passive one.
AllocTrans(t) ==
  /\ t \in Passive => cur = EventFd(t) /\ cm[t] = "CONNECT_REQUEST"
  /\ Acquire(t, "none", "trans", "ec", "calloc", "failed")

CreateEc(t) == Acquire(t, "ec", "ec", "ecnonblock", "rdma_create_event_channel", "cleantrans")
EcNonblock(t) == Attempt(t, "ecnonblock", "ecwatch", "fcntl", "cleanec")

\* The result of hmp_context_add_event_fd is ignored here.
EcWatch(t) == Acquire(t, "ecwatch", "ecwatch", "created", "epoll_ctl", "created")

CleanEc(t) == GiveBack(t, "cleanec", {"ec"}, "cleantrans")
CleanTrans(t) == GiveBack(t, "cleantrans", {"trans"}, "failed")

-----------------------------------------------------------------------------
(* hmp_cq_get and hmp_qp_create, in the epoll thread *)

\* on_cm_route_resolved starts here; on_cm_connect_request goes on after
\* hmp_device_lookup, and returns without giving the transport back.
StartQp(t) ==
  /\ cur = EventFd(t)
  /\ t \in Active => cm[t] = "ROUTE_RESOLVED"
  /\ Attempt(t, "created", "hcq", IF t \in Passive THEN "hmp_device_lookup" ELSE "none", "failed")

AllocHcq(t) == Acquire(t, "hcq", "hcq", "chan", "calloc", "failed")
CreateChannel(t) == Acquire(t, "chan", "chan", "nonblock", "ibv_create_comp_channel", "cleanhcq")
Nonblock(t) == Attempt(t, "nonblock", "watch", "fcntl", "cleanchannel")
Watch(t) == Acquire(t, "watch", "watch", "cq", "epoll_ctl", "cleanchannel")

\* Wrong: the error path starts one label too late.
CreateCqLate(t) == Acquire(t, "cq", "cq", "notify", "ibv_create_cq", "cleanchannel")

CreateCq(t) == Acquire(t, "cq", "cq", "notify", "ibv_create_cq", "cleaneventfd")

ReqNotify(t) == Attempt(t, "notify", "qp", "ibv_req_notify_cq", "cleaneventfd")
CreateQp(t) == Acquire(t, "qp", "qp", "connect", "rdma_create_qp", "freehcq")

CleanEventFd(t) == GiveBack(t, "cleaneventfd", {"watch"}, "cleanchannel")

\* A channel with a completion queue is busy and is not destroyed: nothing
\* destroys the queue when ibv_req_notify_cq failed.
CleanChannel(t) ==
  GiveBack(t, "cleanchannel", IF "cq" \in has[t] THEN {} ELSE {"chan"}, "cleanhcq")

\* Wrong: the channel's memory is kept.
CleanHcqNot(t) == GiveBack(t, "cleanhcq", {}, "failed")

CleanHcq(t) == GiveBack(t, "cleanhcq", {"hcq"}, "failed")

\* hmp_qp_create's own cleanhcq: the queue, its channel and the registration,
\* which names the memory that is freed, stay.
FreeHcq(t) == GiveBack(t, "freehcq", {"hcq"}, "failed")

\* rdma_connect or rdma_accept.  hmp_qp_release is called only for the first.
Connect(t) ==
  IF t \in Active THEN Attempt(t, "connect", "up", "rdma_connect", "qprelease")
                  ELSE Attempt(t, "connect", "up", "rdma_accept", "failed")

\* hmp_qp_release; the completion channel stays open.
QpRelease(t) == GiveBack(t, "qprelease", {"qp", "cq", "watch", "hcq"}, "failed")

-----------------------------------------------------------------------------
(* The epoll loop *)

\* Wrong: the memory is freed while events may be under way.
OnDisconnectedFrees(t) ==
  /\ cur = EventFd(t) /\ cm[t] = "DISCONNECTED" /\ pc[t] = "up"
  /\ Goto(t, "down") /\ has' = [has EXCEPT ![t] = @ \ {"qp", "watch", "ecwatch", "hcq"}]
  /\ UNCHANGED Env

\* on_cm_disconnected keeps the hmp_cq: its handler may be next in the batch.
OnDisconnected(t) ==
  /\ cur = EventFd(t) /\ cm[t] = "DISCONNECTED" /\ pc[t] = "up"
  /\ Goto(t, "down") /\ has' = [has EXCEPT ![t] = @ \ {"qp", "watch", "ecwatch"}]
  /\ UNCHANGED Env

Ready(t) ==
  {f \in {EventFd(t)} : cm[t] # "none" /\ (t \in Passive \/ "ecwatch" \in has[t])}
    \cup {f \in {CqFd(t)} : comp[t] /\ "watch" \in has[t]}

EpollWait ==
  /\ cur = Idle /\ batch = {}
  /\ batch' = UNION {Ready(t) : t \in Trans} /\ batch' # {}
  /\ UNCHANGED <<pc, has, cm, comp, cur>>

Dispatch(f) ==
  /\ cur = Idle /\ f \in batch
  /\ cur' = f /\ batch' = batch \ {f}
  /\ UNCHANGED <<pc, has, cm, comp>>

\* Where a handler returns.
Outcome == {"none", "created", "up", "down", "failed"}

\* Wrong: the handler returns in the middle of a set-up.
LeaveEarly(t) ==
  /\ cur = EventFd(t)
  /\ cur' = Idle /\ cm' = [cm EXCEPT ![t] = "none"]
  /\ UNCHANGED <<pc, has, comp, batch>>

\* The event is handled, or there is none any more.
LeaveEventHandler(t) ==
  /\ cur = EventFd(t)
  /\ \/ pc[t] \in {"down", "failed"} \/ (pc[t] = "up" /\ cm[t] # "DISCONNECTED")
     \/ cm[t] = "none" /\ pc[t] \in Outcome
  /\ cur' = Idle /\ cm' = [cm EXCEPT ![t] = "none"]
  /\ UNCHANGED <<pc, has, comp, batch>>

\* hmp_cq_comp_channel_handler reads the channel and the queue from its hmp_cq.
LeaveCompHandler(t) ==
  /\ cur = CqFd(t)
  /\ cur' = Idle /\ comp' = [comp EXCEPT ![t] = FALSE]
  /\ UNCHANGED <<pc, has, cm, batch>>

-----------------------------------------------------------------------------
(* The connection manager and the adapter (external) *)

CmEvent(t, e) ==
  /\ cm[t] = "none" /\ cur # EventFd(t)
  /\ cm' = [cm EXCEPT ![t] = e]
  /\ UNCHANGED <<pc, has, comp, batch, cur>>

CmRequest(t) == t \in Passive /\ pc[t] = "none" /\ CmEvent(t, "CONNECT_REQUEST")
CmRoute(t) == t \in Active /\ pc[t] = "created" /\ CmEvent(t, "ROUTE_RESOLVED")
CmDisconnect(t) == pc[t] = "up" /\ CmEvent(t, "DISCONNECTED")

\* A work request of the queue pair completes.
Completion(t) ==
  /\ "qp" \in has[t] /\ pc[t] = "up" /\ ~comp[t]
  /\ comp' = [comp EXCEPT ![t] = TRUE]
  /\ UNCHANGED <<pc, has, cm, batch, cur>>

CreateStep(t) ==
  AllocTrans(t) \/ CreateEc(t) \/ EcNonblock(t) \/ EcWatch(t) \/ CleanEc(t) \/ CleanTrans(t)
CqStep(t) ==
  \/ AllocHcq(t) \/ CreateChannel(t) \/ Nonblock(t) \/ Watch(t) \/ CreateCq(t)
  \/ ReqNotify(t) \/ CleanEventFd(t) \/ CleanChannel(t) \/ CleanHcq(t)
QpStep(t) == StartQp(t) \/ CreateQp(t) \/ FreeHcq(t) \/ Connect(t) \/ QpRelease(t)

Next ==
  \/ \E t \in Trans :
       \/ CreateStep(t) \/ CqStep(t) \/ QpStep(t) \/ OnDisconnected(t)
       \/ LeaveEventHandler(t) \/ LeaveCompHandler(t)
       \/ CmRequest(t) \/ CmRoute(t) \/ CmDisconnect(t) \/ Completion(t)
  \/ EpollWait \/ \E f \in batch : Dispatch(f)

Spec == Init /\ [][Next]_vars

-----------------------------------------------------------------------------
(* Properties *)

\* The type invariant of this module; a queue pair is set up inside a handler.
TypeOK ==
  /\ pc \in [Trans -> Outcome \cup {"ec", "ecnonblock", "ecwatch", "cleanec", "cleantrans",
       "hcq", "chan", "nonblock", "watch", "cq", "notify", "qp", "connect",
       "cleaneventfd", "cleanchannel", "cleanhcq", "freehcq", "qprelease"}]
  /\ has \in [Trans -> SUBSET Resource]
  /\ cm \in [Trans -> {"none", "CONNECT_REQUEST", "ROUTE_RESOLVED", "DISCONNECTED"}]
  /\ comp \in [Trans -> BOOLEAN]
  /\ batch \subseteq Fd /\ cur \in Fd
  /\ \A t \in Trans : pc[t] \notin Outcome /\ has[t] \cap {"hcq", "chan"} # {} => cur = EventFd(t)

\* The epoll instance never watches a descriptor that was closed, whose number
\* the next channel of the process would get (the cleanup labels of hmp_cq_get
\* and hmp_event_channel_create).
RegisteredFdsOpen ==
  \A t \in Trans : /\ "watch" \in has[t] => "chan" \in has[t]
                   /\ "ecwatch" \in has[t] => "ec" \in has[t]

\* hmp_cq_comp_channel_handler runs with a hmp_cq that exists: also when the
\* queue pair went earlier in the same batch, and although a registration that
\* names freed memory stays behind when rdma_create_qp failed.
HandlersFindTheirQueue ==
  \A t \in Trans : cur = CqFd(t) => "hcq" \in has[t]

\* A set-up that failed leaves nothing of its completion queue behind, unless
\* the queue itself was made and its re-arm, the queue pair or the accept failed.
FailureReleases ==
  \A t \in Trans :
    pc[t] = "failed" /\ "cq" \notin has[t] =>
      has[t] \cap {"hcq", "watch", "qp"} = {} /\ ("chan" \in has[t] => t \in Active)
=============================================================================
