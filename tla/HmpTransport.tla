------------------------------ MODULE HmpTransport ------------------------------
(***************************************************************************)
(* Connection set-up between the nodes of an hmp cluster: the main thread   *)
(* of every node running hmp_node_init and then hmp_write/hmp_node_release, *)
(* the epoll thread of every node running hmp_context_run and the handlers  *)
(* of hmp_transport.c, and the RDMA connection manager between them.        *)
(*                                                                          *)
(* Of each pair of nodes the one with the smaller id connects (the active   *)
(* end) and the other accepts (the passive end).  An end is written         *)
(* [n][p]: the transport node n keeps for its peer p.  A process that has   *)
(* exited does not come back.                                               *)
(***************************************************************************)
EXTENDS Naturals, Sequences

CONSTANTS
  N,         \* config.node_cnt: nodes are numbered by their place in config.xml
  Faults,    \* the library calls and network services that may fail
  NoRoute,   \* pairs <<n, p>> for which rdma_resolve_addr always fails at n
  Callers,   \* nodes whose application calls hmp_write, hmp_read, hmp_node_release
  Quitters   \* nodes whose process may exit, or be killed, at any point

Node == 0 .. N - 1

\* The calls whose failure hmp_node_init and the event handlers check or ignore,
\* and "network": the connection manager reports an error event or breaks a
\* connection.
FaultKind == {"hmp_context_create", "hmp_transport_create", "hmp_transport_listen",
              "rdma_resolve_addr", "hmp_device_lookup", "rdma_resolve_route",
              "hmp_qp_create", "hmp_recv_task_create", "ibv_post_recv",
              "rdma_connect", "rdma_accept", "hmp_send_task_create",
              "ibv_post_send", "network"}

ASSUME NAssumption == N \in Nat \ {0}
ASSUME ConfigAssumption ==
  /\ Faults \subseteq FaultKind /\ NoRoute \subseteq Node \X Node
  /\ Callers \subseteq Node /\ Quitters \subseteq Node

VARIABLES
  pc,            \* pc[n]: where the main thread is
  peer,          \* peer[n]: hmp_node_init's loop variable, then the target of a call
  listening,     \* listening[n]: hmp_transport_listen succeeded
  stop,          \* stop[n]: ctx->stop
  batch,         \* batch[n]: fds epoll_wait returned that are not served yet
  cur,           \* cur[n]: the fd whose handler the epoll thread is in
  connect_trans, \* connect_trans[n][p]: the table entry is not NULL
  trans_state,   \* trans_state[n][p]
  qp,            \* qp[n][p]: the queue pair (and its registered completion channel)
  recvs,         \* recvs[n][p]: receive requests posted and not consumed
  recv_errors,   \* recv_errors[n][p]: calls of hmp_post_recv that only logged an
                 \* error (a history variable, read by the properties alone)
  dram_mr,       \* dram_mr[n][p]: node_infos[p].dram_mr holds p's address and rkey
  cm,            \* cm[n][p]: phase of the connection manager's identifier
  events,        \* events[n][p]: CM events queued for this end
  msg            \* msg[n][p]: the HMP_MSG_INIT message from n to p

mainVars  == <<pc, peer, listening>>
loopVars  == <<stop, batch, cur>>
transVars == <<connect_trans, trans_state, qp, recvs, recv_errors, dram_mr>>
netVars   == <<cm, events, msg>>
vars == <<mainVars, loopVars, transVars, netVars>>

MainLabel == {"boot", "memset", "connect", "store", "ready", "check", "post",
              "join", "released", "dead"}
\* "NONE": no hmp_transport was allocated.  The other values of the
\* enumeration are never assigned to a transport of connect_trans.
TransState == {"NONE", "INIT", "CONNECTING", "CONNECTED", "ERROR"}
QpState == {"none", "ready", "destroyed"}
CmPhase == {"idle", "addr", "addr_done", "route", "route_done", "connect",
            "requested", "request", "accepted", "est", "failed", "closed"}
\* "OTHER" stands for REJECTED, UNREACHABLE, ADDR_ERROR and ROUTE_ERROR, which
\* the code does not tell apart.
CmEvent == {"ADDR_RESOLVED", "ROUTE_RESOLVED", "CONNECT_REQUEST", "ESTABLISHED",
            "DISCONNECTED", "CONNECT_ERROR", "OTHER"}
\* "lost": no receive request was there to take the message.
MsgState == {"unsent", "sent", "delivered", "handled", "lost"}

\* Two kinds of fd are watched: event channels and completion channels.  The
\* channel of the listener is <<"cm", n>>: it carries the events of every
\* passive end, whose own event channel stays unused because the identifier
\* is never migrated to it.
Fd == {"cm", "cq", "idle", "exited"} \X Node
Idle == <<"idle", 0>>
Exited == <<"exited", 0>>
Chan(n, p) == IF p < n THEN n ELSE p

Alive(n) == pc[n] # "dead"
MayFail(f) == f \in Faults

Init ==
  /\ pc = [n \in Node |-> "boot"]
  /\ peer = [n \in Node |-> 0]
  /\ listening = [n \in Node |-> FALSE]
  /\ stop = [n \in Node |-> FALSE]
  /\ batch = [n \in Node |-> {}]
  /\ cur = [n \in Node |-> Idle]
  /\ connect_trans = [n \in Node |-> [p \in Node |-> FALSE]]
  /\ trans_state = [n \in Node |-> [p \in Node |-> "NONE"]]
  /\ qp = [n \in Node |-> [p \in Node |-> "none"]]
  /\ recvs = [n \in Node |-> [p \in Node |-> 0]]
  /\ recv_errors = [n \in Node |-> [p \in Node |-> 0]]
  /\ dram_mr = [n \in Node |-> [p \in Node |-> FALSE]]
  /\ cm = [n \in Node |-> [p \in Node |-> "idle"]]
  /\ events = [n \in Node |-> [p \in Node |-> <<>>]]
  /\ msg = [n \in Node |-> [p \in Node |-> "unsent"]]

-----------------------------------------------------------------------------
(* The main thread *)

\* hmp_node_init up to hmp_transport_listen: from here on the epoll thread can
\* receive connect requests.  The result of the listen call is ignored.
Listen(n) ==
  /\ pc[n] = "boot"
  /\ pc' = [pc EXCEPT ![n] = "memset"]
  /\ \/ listening' = [listening EXCEPT ![n] = TRUE]
     \/ MayFail("hmp_transport_listen") /\ UNCHANGED listening
  /\ UNCHANGED <<peer, loopVars, transVars, netVars>>

\* hmp_context_create fails, or hmp_transport_create for the listener or for one
\* of the peers: exit(-1).
CreateFails(n) ==
  /\ \/ pc[n] = "boot" /\ MayFail("hmp_context_create")
     \/ pc[n] = "boot" /\ MayFail("hmp_transport_create")
     \/ pc[n] = "connect" /\ peer[n] \in Node /\ MayFail("hmp_transport_create")
  /\ pc' = [pc EXCEPT ![n] = "dead"]
  /\ UNCHANGED <<peer, listening, loopVars, transVars, netVars>>

\* The memset of connect_trans, after the listener is already open.
ClearTable(n) ==
  /\ pc[n] = "memset"
  /\ pc' = [pc EXCEPT ![n] = "connect"]
  /\ peer' = [peer EXCEPT ![n] = n + 1]
  /\ connect_trans' = [connect_trans EXCEPT ![n] = [p \in Node |-> FALSE]]
  /\ UNCHANGED <<listening, trans_state, qp, recvs, recv_errors, dram_mr, loopVars,
                 netVars>>

\* One turn of hmp_node_init's loop, up to rdma_resolve_addr; when
\* hmp_transport_connect fails its result is ignored.
StartConnect(n) ==
  LET p == peer[n] IN
  /\ pc[n] = "connect" /\ p \in Node
  /\ connect_trans' = [connect_trans EXCEPT ![n][p] = TRUE]
  /\ trans_state' = [trans_state EXCEPT ![n][p] = "INIT"]
  /\ \/ /\ <<n, p>> \notin NoRoute
        /\ cm' = [cm EXCEPT ![n][p] = "addr"]
        /\ pc' = [pc EXCEPT ![n] = "store"]
        /\ UNCHANGED peer
     \/ /\ MayFail("rdma_resolve_addr") \/ <<n, p>> \in NoRoute
        /\ peer' = [peer EXCEPT ![n] = p + 1]
        /\ UNCHANGED <<cm, pc>>
  /\ UNCHANGED <<listening, qp, recvs, recv_errors, dram_mr, loopVars, events, msg>>

\* The assignment that follows rdma_resolve_addr in hmp_transport_connect: the
\* epoll thread may have moved trans_state on by now.
StoreConnecting(n) ==
  LET p == peer[n] IN
  /\ pc[n] = "store"
  /\ trans_state' = [trans_state EXCEPT ![n][p] = "CONNECTING"]
  /\ peer' = [peer EXCEPT ![n] = p + 1]
  /\ pc' = [pc EXCEPT ![n] = "connect"]
  /\ UNCHANGED <<listening, connect_trans, qp, recvs, recv_errors, dram_mr, loopVars,
                 netVars>>

InitDone(n) ==
  /\ pc[n] = "connect" /\ peer[n] = N
  /\ pc' = [pc EXCEPT ![n] = "ready"]
  /\ UNCHANGED <<peer, listening, loopVars, transVars, netVars>>

\* hmp_write (or hmp_read) to another node: hmp_transport_check_state
\* dereferences the table entry, so a NULL entry ends the process.
CallWrite(n, p) ==
  /\ n \in Callers /\ pc[n] = "ready" /\ p # n
  /\ IF connect_trans[n][p]
     THEN /\ pc' = [pc EXCEPT ![n] = "check"]
          /\ peer' = [peer EXCEPT ![n] = p]
     ELSE /\ pc' = [pc EXCEPT ![n] = "dead"]
          /\ UNCHANGED peer
  /\ UNCHANGED <<listening, loopVars, transVars, netVars>>

\* Wrong: spins only while the state is INIT.
CheckStateBelowConnecting(n) ==
  /\ pc[n] = "check" /\ trans_state[n][peer[n]] \in {"CONNECTING", "CONNECTED"}
  /\ pc' = [pc EXCEPT ![n] = "post"]
  /\ UNCHANGED <<peer, listening, loopVars, transVars, netVars>>

\* hmp_transport_check_state: spins below CONNECTED, gives up above it.
CheckState(n) ==
  /\ pc[n] = "check"
  /\ \/ /\ trans_state[n][peer[n]] = "CONNECTED"
        /\ pc' = [pc EXCEPT ![n] = "post"]
     \/ /\ trans_state[n][peer[n]] = "ERROR"
        /\ pc' = [pc EXCEPT ![n] = "ready"]
  /\ UNCHANGED <<peer, listening, loopVars, transVars, netVars>>

\* The rest of hmp_rdma_write: the work request takes its rkey from dram_mr
\* and goes to qp.  On a destroyed queue pair this is a use after free: the
\* process may survive it or not.
PostWrite(n) ==
  /\ pc[n] = "post"
  /\ \/ pc' = [pc EXCEPT ![n] = "ready"]
     \/ qp[n][peer[n]] = "destroyed" /\ pc' = [pc EXCEPT ![n] = "dead"]
  /\ UNCHANGED <<peer, listening, loopVars, transVars, netVars>>

\* hmp_node_release: waits for the epoll thread, then frees devices and memory.
CallRelease(n) ==
  /\ n \in Callers /\ pc[n] = "ready"
  /\ pc' = [pc EXCEPT ![n] = "join"]
  /\ UNCHANGED <<peer, listening, loopVars, transVars, netVars>>

Released(n) ==
  /\ pc[n] = "join" /\ cur[n] = Exited
  /\ pc' = [pc EXCEPT ![n] = "released"]
  /\ UNCHANGED <<peer, listening, loopVars, transVars, netVars>>

Quit(n) ==
  /\ n \in Quitters /\ Alive(n)
  /\ pc' = [pc EXCEPT ![n] = "dead"]
  /\ UNCHANGED <<peer, listening, loopVars, transVars, netVars>>

Main(n) ==
  \/ Listen(n) \/ CreateFails(n) \/ ClearTable(n) \/ StartConnect(n)
  \/ StoreConnecting(n) \/ InitDone(n) \/ CheckState(n) \/ PostWrite(n) \/ Released(n)

-----------------------------------------------------------------------------
(* The epoll thread: hmp_context_run *)

\* The fds epoll_wait reports: level-triggered, so every channel with
\* something to read.  The completion channel is watched while qp is "ready".
Ready(n) ==
  {<<"cm", Chan(n, p)>> : p \in {q \in Node : events[n][q] # <<>>}}
  \cup {<<"cq", p>> : p \in {q \in Node : qp[n][q] = "ready" /\ msg[q][n] = "delivered"}}

EpollWait(n) ==
  /\ Alive(n) /\ cur[n] = Idle /\ batch[n] = {} /\ ~stop[n]
  /\ Ready(n) # {}
  /\ batch' = [batch EXCEPT ![n] = Ready(n)]
  /\ UNCHANGED <<stop, cur, mainVars, transVars, netVars>>

\* ctx->stop is looked at only between two batches.
LoopExit(n) ==
  /\ Alive(n) /\ cur[n] = Idle /\ batch[n] = {} /\ stop[n]
  /\ cur' = [cur EXCEPT ![n] = Exited]
  /\ UNCHANGED <<stop, batch, mainVars, transVars, netVars>>

\* hmp_event_channel_handler is called for an event channel of the batch ...
EnterCm(n, c) ==
  /\ Alive(n) /\ cur[n] = Idle /\ <<"cm", c>> \in batch[n]
  /\ cur' = [cur EXCEPT ![n] = <<"cm", c>>]
  /\ batch' = [batch EXCEPT ![n] = @ \ {<<"cm", c>>}]
  /\ UNCHANGED <<stop, mainVars, transVars, netVars>>

\* ... and returns when rdma_get_cm_event finds the channel empty.
LeaveCm(n, c) ==
  /\ Alive(n) /\ cur[n] = <<"cm", c>>
  /\ \A p \in Node : Chan(n, p) = c => events[n][p] = <<>>
  /\ cur' = [cur EXCEPT ![n] = Idle]
  /\ UNCHANGED <<stop, batch, mainVars, transVars, netVars>>

\* The next event of the channel being drained is e, for the end [n][p].
Take(n, p, e) ==
  /\ Alive(n) /\ p # n /\ cur[n] = <<"cm", Chan(n, p)>>
  /\ events[n][p] # <<>> /\ Head(events[n][p]) = e
  /\ events' = [events EXCEPT ![n][p] = Tail(@)]

\* A handler that returns 0 lets the drain loop go on; any other result ends
\* the loop and leaves the remaining events for the next epoll_wait.
ReturnOk == UNCHANGED cur
ReturnError(n) == cur' = [cur EXCEPT ![n] = Idle]

\* Outcome of a handler that fails before it changed anything.
GiveUp(n, f) ==
  /\ MayFail(f)
  /\ ReturnError(n)
  /\ UNCHANGED <<connect_trans, trans_state, qp, recvs, recv_errors, cm, stop>>

OnAddrResolved(n, p) ==
  /\ Take(n, p, "ADDR_RESOLVED")
  /\ \/ /\ cm' = [cm EXCEPT ![n][p] = "route"]
        /\ ReturnOk
        /\ UNCHANGED <<connect_trans, trans_state, qp, recvs, recv_errors, stop>>
     \/ GiveUp(n, "hmp_device_lookup")
     \/ GiveUp(n, "rdma_resolve_route")
  /\ UNCHANGED <<mainVars, batch, dram_mr, msg>>

\* The k-th of so many calls of hmp_post_recv leaves a receive request, or an
\* error line when there is no task or ibv_post_recv refuses it.
PostRecvs(n, p, calls) ==
  \E failed \in 0 .. calls :
    /\ failed = 0 \/ MayFail("hmp_recv_task_create") \/ MayFail("ibv_post_recv")
    /\ recvs' = [recvs EXCEPT ![n][p] = calls - failed]
    /\ recv_errors' = [recv_errors EXCEPT ![n][p] = failed]

\* Wrong: the loop ends too late or too early, or the call is missing.
PrePostThree(n, p) == PostRecvs(n, p, 3)
PrePostOne(n, p) == PostRecvs(n, p, 1)
PrePostNone(n, p) == UNCHANGED <<recvs, recv_errors>>

\* hmp_pre_post_recv: two receive requests, unless hmp_post_recv fails.
PrePostRecv(n, p) == PostRecvs(n, p, 2)

OnRouteResolved(n, p) ==
  /\ Take(n, p, "ROUTE_RESOLVED")
  /\ \/ /\ qp' = [qp EXCEPT ![n][p] = "ready"]
        /\ PrePostRecv(n, p)
        /\ cm' = [cm EXCEPT ![n][p] = "connect"]
        /\ ReturnOk
        /\ UNCHANGED <<connect_trans, trans_state, stop>>
     \/ GiveUp(n, "hmp_qp_create")
     \/ /\ MayFail("rdma_connect")
        /\ qp' = [qp EXCEPT ![n][p] = "destroyed"]
        /\ PrePostRecv(n, p)
        /\ trans_state' = [trans_state EXCEPT ![n][p] = "ERROR"]
        /\ stop' = [stop EXCEPT ![n] = TRUE]
        /\ ReturnError(n)
        /\ UNCHANGED <<connect_trans, cm>>
  /\ UNCHANGED <<mainVars, batch, dram_mr, msg>>

\* Wrong: the accepted transport is not entered.
EnterNothing(n, p) == UNCHANGED connect_trans

\* The loop over node_infos finds the peer's address and enters the transport.
EnterTable(n, p) == connect_trans' = [connect_trans EXCEPT ![n][p] = TRUE]

\* The passive end is built.  A failed handler does not reject the request, and
\* without a new transport it leaves no trace at all.
\* rdma_accept also fails when the active end has gone meanwhile.
OnConnectRequest(n, p) ==
  /\ Take(n, p, "CONNECT_REQUEST")
  /\ \/ /\ \/ MayFail("hmp_device_lookup")
           \/ MayFail("hmp_qp_create")
        /\ trans_state' = [trans_state EXCEPT ![n][p] = "INIT"]
        /\ ReturnError(n)
        /\ UNCHANGED <<connect_trans, qp, recvs, recv_errors, cm>>
     \/ GiveUp(n, "hmp_transport_create")
     \/ /\ qp' = [qp EXCEPT ![n][p] = "ready"]
        /\ EnterTable(n, p)
        /\ PrePostRecv(n, p)
        /\ \/ /\ trans_state' = [trans_state EXCEPT ![n][p] = "CONNECTING"]
              /\ cm' = [cm EXCEPT ![n][p] = "accepted"]
              /\ ReturnOk
           \/ /\ MayFail("rdma_accept") \/ cm[p][n] = "failed" \/ ~Alive(p)
              /\ trans_state' = [trans_state EXCEPT ![n][p] = "INIT"]
              /\ ReturnError(n)
              /\ UNCHANGED cm
  /\ UNCHANGED <<mainVars, stop, batch, dram_mr, msg>>

\* Wrong: the handler also assigns trans_state.
EstablishedSets(n, p, state) ==
  /\ Take(n, p, "ESTABLISHED")
  /\ msg' = [msg EXCEPT ![n][p] = "sent"]
  /\ trans_state' = [trans_state EXCEPT ![n][p] = state]
  /\ ReturnOk
  /\ UNCHANGED <<mainVars, stop, batch, connect_trans, qp, recvs, recv_errors,
                 dram_mr, cm>>
EstablishedIsConnected(n, p) == EstablishedSets(n, p, "CONNECTED")
EstablishedIsConnecting(n, p) == EstablishedSets(n, p, "CONNECTING")

\* on_cm_established sends this node's address and rkey.  It returns 0 whether
\* or not the send request could be posted.
OnEstablished(n, p) ==
  /\ Take(n, p, "ESTABLISHED")
  /\ \/ msg' = [msg EXCEPT ![n][p] = "sent"]
     \/ /\ MayFail("hmp_send_task_create") \/ MayFail("ibv_post_send")
        /\ UNCHANGED msg
  /\ ReturnOk
  /\ UNCHANGED <<mainVars, stop, batch, transVars, cm>>

\* on_cm_disconnected destroys the queue pair and unregisters the completion
\* channel; trans_state, qp's pointer and connect_trans keep their values.
OnDisconnected(n, p) ==
  /\ Take(n, p, "DISCONNECTED")
  /\ qp' = [qp EXCEPT ![n][p] = "destroyed"]
  /\ ReturnOk
  /\ UNCHANGED <<mainVars, stop, batch, connect_trans, trans_state, recvs,
                 recv_errors, dram_mr, cm, msg>>

OnConnectError(n, p) ==
  /\ Take(n, p, "CONNECT_ERROR")
  /\ stop' = [stop EXCEPT ![n] = TRUE]
  /\ trans_state' = [trans_state EXCEPT ![n][p] = "ERROR"]
  /\ ReturnError(n)
  /\ UNCHANGED <<mainVars, batch, connect_trans, qp, recvs, recv_errors, dram_mr,
                 cm, msg>>

\* The default case: nothing is recorded in the transport.
OnOtherEvent(n, p) ==
  /\ Take(n, p, "OTHER")
  /\ ReturnError(n)
  /\ UNCHANGED <<mainVars, stop, batch, transVars, cm, msg>>

\* hmp_cq_comp_channel_handler finds the completed receive and
\* hmp_handle_mr_msg stores the peer's region ...
StoreMr(n, p) ==
  /\ Alive(n) /\ cur[n] = Idle /\ <<"cq", p>> \in batch[n]
  /\ batch' = [batch EXCEPT ![n] = @ \ {<<"cq", p>>}]
  /\ dram_mr' = [dram_mr EXCEPT ![n][p] = TRUE]
  /\ msg' = [msg EXCEPT ![p][n] = "handled"]
  /\ cur' = [cur EXCEPT ![n] = <<"cq", p>>]
  /\ UNCHANGED <<stop, mainVars, connect_trans, trans_state, qp, recvs, recv_errors,
                 cm, events>>

\* Wrong: the state is not published; the poll loop never ends.
PublishNothing(n, p) ==
  /\ Alive(n) /\ cur[n] = <<"cq", p>>
  /\ cur' = [cur EXCEPT ![n] = Idle]
  /\ UNCHANGED <<stop, batch, mainVars, transVars, netVars>>
PublishAndPollOn(n, p) ==
  /\ Alive(n) /\ cur[n] = <<"cq", p>>
  /\ trans_state' = [trans_state EXCEPT ![n][p] = "CONNECTED"]
  /\ UNCHANGED <<loopVars, mainVars, connect_trans, qp, recvs, recv_errors, dram_mr,
                 netVars>>

\* ... and then publishes the transport to the main thread.
PublishConnected(n, p) ==
  /\ Alive(n) /\ cur[n] = <<"cq", p>>
  /\ trans_state' = [trans_state EXCEPT ![n][p] = "CONNECTED"]
  /\ cur' = [cur EXCEPT ![n] = Idle]
  /\ UNCHANGED <<stop, batch, mainVars, connect_trans, qp, recvs, recv_errors, dram_mr,
                 netVars>>

\* The completion of a destroyed queue pair may be gone when it is polled for.
PollNothing(n, p) ==
  /\ Alive(n) /\ cur[n] = Idle /\ <<"cq", p>> \in batch[n]
  /\ qp[n][p] = "destroyed"
  /\ batch' = [batch EXCEPT ![n] = @ \ {<<"cq", p>>}]
  /\ UNCHANGED <<stop, cur, mainVars, transVars, netVars>>

Loop(n) ==
  \/ EpollWait(n) \/ LoopExit(n)
  \/ \E p \in Node :
       \/ EnterCm(n, p) \/ LeaveCm(n, p)
       \/ OnAddrResolved(n, p) \/ OnRouteResolved(n, p)
       \/ OnConnectRequest(n, p) \/ OnEstablished(n, p)
       \/ OnDisconnected(n, p) \/ OnConnectError(n, p) \/ OnOtherEvent(n, p)
       \/ StoreMr(n, p) \/ PublishConnected(n, p) \/ PollNothing(n, p)

-----------------------------------------------------------------------------
(* The connection manager and the wire (librdmacm, the kernel, the fabric).  *)
(* Each action moves one identifier on and queues the event its owner gets.  *)

Queue(n, p, e, phase) ==
  /\ cm' = [cm EXCEPT ![n][p] = phase]
  /\ events' = [events EXCEPT ![n][p] = Append(@, e)]

\* A process that exits takes its identifiers and queue pairs with it.
EndGone(n, p) == ~Alive(n) \/ cm[n][p] \in {"failed", "closed"}

CmResolve(n, p) ==
  /\ Alive(n)
  /\ \/ /\ cm[n][p] = "addr"
        /\ \/ Queue(n, p, "ADDR_RESOLVED", "addr_done")
           \/ MayFail("network") /\ Queue(n, p, "OTHER", "failed")
     \/ /\ cm[n][p] = "route"
        /\ \/ Queue(n, p, "ROUTE_RESOLVED", "route_done")
           \/ MayFail("network") /\ Queue(n, p, "OTHER", "failed")
  /\ UNCHANGED <<mainVars, loopVars, transVars, msg>>

\* The connect request reaches the listener of p.
CmRequest(n, p) ==
  /\ Alive(n) /\ cm[n][p] = "connect"
  /\ Alive(p) /\ listening[p]
  /\ cm' = [cm EXCEPT ![n][p] = "requested", ![p][n] = "request"]
  /\ events' = [events EXCEPT ![p][n] = Append(@, "CONNECT_REQUEST")]
  /\ UNCHANGED <<mainVars, loopVars, transVars, msg>>

\* Nobody will answer the request of n: the handler of p gave up on it without
\* a reject, or the epoll thread of p is gone.
Ignored(p, n) ==
  cm[p][n] = "request" /\ (events[p][n] = <<>> \/ cur[p] = Exited)

\* The active end hears that there will be no connection.
CmRefuse(n, p) ==
  /\ Alive(n)
  /\ \/ cm[n][p] = "connect" /\ ~(Alive(p) /\ listening[p])
     \/ cm[n][p] = "requested" /\ (EndGone(p, n) \/ Ignored(p, n))
     \/ cm[n][p] \in {"connect", "requested"} /\ MayFail("network")
  /\ \/ Queue(n, p, "OTHER", "failed")
     \/ MayFail("network") /\ Queue(n, p, "CONNECT_ERROR", "failed")
  /\ UNCHANGED <<mainVars, loopVars, transVars, msg>>

\* The accepted connection is up: each end is told on its own.
CmEstablish(n, p) ==
  /\ Alive(n)
  /\ \/ n < p /\ cm[n][p] = "requested" /\ cm[p][n] \in {"accepted", "est"}
     \/ p < n /\ cm[n][p] = "accepted" /\ cm[p][n] \in {"requested", "est"}
  /\ Queue(n, p, "ESTABLISHED", "est")
  /\ UNCHANGED <<mainVars, loopVars, transVars, msg>>

\* The active end went away before the passive end was established.
CmAbandon(n, p) ==
  /\ Alive(n) /\ cm[n][p] = "accepted" /\ EndGone(p, n)
  /\ \/ Queue(n, p, "OTHER", "failed")
     \/ Queue(n, p, "CONNECT_ERROR", "failed")
  /\ UNCHANGED <<mainVars, loopVars, transVars, msg>>

\* The peer, or the link to it, went away.
CmDisconnect(n, p) ==
  /\ Alive(n) /\ cm[n][p] = "est"
  /\ EndGone(p, n) \/ MayFail("network")
  /\ Queue(n, p, "DISCONNECTED", "closed")
  /\ UNCHANGED <<mainVars, loopVars, transVars, msg>>

\* The INIT message of p completes a receive request of n.
Deliver(p, n) ==
  /\ Alive(n) /\ msg[p][n] = "sent"
  /\ cm[n][p] \in {"accepted", "est"} /\ qp[n][p] = "ready" /\ recvs[n][p] > 0
  /\ msg' = [msg EXCEPT ![p][n] = "delivered"]
  /\ recvs' = [recvs EXCEPT ![n][p] = @ - 1]
  /\ UNCHANGED <<mainVars, loopVars, connect_trans, trans_state, qp, recv_errors,
                 dram_mr, cm, events>>

\* The INIT message of the active end p finds no receive request: rdma_accept was
\* called with rnr_retry_count 0, so the queue pair of p goes to the error state
\* and its own receive requests are flushed.  The passive end's message is sent
\* again for ever (rdma_connect gave 7, no limit).
RnrError(p, n) ==
  /\ Alive(n) /\ p < n /\ msg[p][n] = "sent"
  /\ cm[n][p] \in {"accepted", "est"} /\ qp[n][p] = "ready" /\ recvs[n][p] = 0
  /\ msg' = [msg EXCEPT ![p][n] = "lost"]
  /\ recvs' = [recvs EXCEPT ![p][n] = 0]
  /\ UNCHANGED <<mainVars, loopVars, connect_trans, trans_state, qp, recv_errors,
                 dram_mr, cm, events>>

Fabric(n, p) ==
  \/ CmResolve(n, p) \/ CmRequest(n, p) \/ CmRefuse(n, p) \/ CmEstablish(n, p)
  \/ CmAbandon(n, p) \/ CmDisconnect(n, p) \/ Deliver(n, p)
  \/ RnrError(n, p)

-----------------------------------------------------------------------------

Next ==
  \E n \in Node :
    \/ Main(n) \/ Loop(n) \/ CallRelease(n) \/ Quit(n)
    \/ \E p \in Node : CallWrite(n, p) \/ Fabric(n, p)

\* The main thread and the epoll thread are scheduled; the fabric answers.
\* Calls of the application and process exits are never forced.
Fairness ==
  \A n \in Node :
    /\ WF_vars(Main(n))
    /\ WF_vars(Loop(n))
    /\ \A p \in Node : WF_vars(Fabric(n, p))

Spec == Init /\ [][Next]_vars
FairSpec == Spec /\ Fairness

-----------------------------------------------------------------------------
(* Properties *)

\* Every variable has its type; the table has no entry for the node itself.
\* The type invariant of this module (all of hmp_node_init and hmp_transport.c).
TypeOK ==
  /\ pc \in [Node -> MainLabel]
  /\ peer \in [Node -> 0 .. N]
  /\ listening \in [Node -> BOOLEAN]
  /\ stop \in [Node -> BOOLEAN]
  /\ batch \in [Node -> SUBSET Fd]
  /\ cur \in [Node -> Fd]
  /\ connect_trans \in [Node -> [Node -> BOOLEAN]]
  /\ trans_state \in [Node -> [Node -> TransState]]
  /\ qp \in [Node -> [Node -> QpState]]
  /\ recvs \in [Node -> [Node -> 0 .. 2]]
  /\ recv_errors \in [Node -> [Node -> 0 .. 2]]
  /\ dram_mr \in [Node -> [Node -> BOOLEAN]]
  /\ cm \in [Node -> [Node -> CmPhase]]
  /\ events \in [Node -> [Node -> Seq(CmEvent)]]
  /\ msg \in [Node -> [Node -> MsgState]]

\* A node that passed hmp_transport_check_state holds the address and rkey its
\* peer sent, and both ends of the connection were built: hmp_rdma_write never
\* uses an rkey that was not received, although dram_mr and trans_state are
\* written by the epoll thread and read by the main thread without a lock.
PostHasKey ==
  \A n \in Node :
    pc[n] = "post" => /\ dram_mr[n][peer[n]]
                      /\ qp[n][peer[n]] # "none" /\ qp[peer[n]][n] # "none"

\* An INIT message that meets an empty receive queue meets one at which both
\* calls of hmp_post_recv failed, each with an error line, or one flushed because
\* that end's own INIT message was lost in the same way: one receive request is
\* enough, both sides ask for theirs before rdma_connect and rdma_accept, and
\* nothing but the peer's one INIT message ever takes one.
ReceivePosted ==
  \A n, p \in Node :
    msg[p][n] = "sent" /\ qp[n][p] = "ready" =>
      recvs[n][p] > 0 \/ recv_errors[n][p] = 2 \/ msg[n][p] = "lost"

\* CONNECTED means the handshake is over on the other side too: the peer built
\* its queue pair, was established and sent its INIT message, and this end
\* handled it.
ConnectedMeansHandshake ==
  \A n, p \in Node :
    trans_state[n][p] = "CONNECTED" =>
      /\ qp[n][p] # "none" /\ qp[p][n] # "none"
      /\ msg[p][n] = "handled" /\ dram_mr[n][p]

\* A transport leaves CONNECTED only because hmp_transport_connect's assignment
\* of CONNECTING comes late in the main thread, or because an error stopped
\* the loop: no event handler takes it back.
DemotedOnlyByLateStore ==
  [][\A n, p \in Node :
       trans_state[n][p] = "CONNECTED" /\ trans_state'[n][p] # "CONNECTED" =>
         \/ pc[n] = "store" /\ pc'[n] = "connect" /\ peer[n] = p
         \/ trans_state'[n][p] = "ERROR" /\ stop'[n]]_vars

\* A transport in use that the table does not know (hmp_write to that peer
\* dereferences NULL) is one whose request was accepted before the main thread
\* reached its memset of the table; no later request is lost that way.
EntryLostOnlyByMemset ==
  [][\A n, p \in Node :
       /\ connect_trans[n][p] \/ trans_state[n][p] = "NONE"
       /\ ~connect_trans'[n][p] /\ trans_state'[n][p] \in {"CONNECTING", "CONNECTED"}
       => pc[n] = "memset"]_vars

\* The main thread's late assignment of CONNECTING hit after the handshake:
\* hmp_transport_check_state will spin for good on this transport.
Demoted(n, p) ==
  /\ dram_mr[n][p] /\ trans_state[n][p] \in {"INIT", "CONNECTING"}
  /\ cur[n] # <<"cq", p>>

\* The connect request between n and p has reached a listener.
Requested(n, p) ==
  \/ n < p /\ cm[n][p] \in {"requested", "est"}
  \/ p < n /\ cm[n][p] \in {"request", "accepted", "est"}

\* Both calls of hmp_post_recv failed at n or at p, which only error lines tell.
Starved(n, p) == recv_errors[n][p] = 2 \/ recv_errors[p][n] = 2

\* While both processes live and neither event loop is stopped by an error, a
\* connect request that reaches a listening node ends with both nodes holding
\* the other's address and rkey, whatever the order in which the threads run and
\* even if one of the two receive requests of an end was not posted.
HandshakeCompletes ==
  \A n \in Node : \A p \in n + 1 .. N - 1 :
    Requested(n, p) ~>
      \/ dram_mr[n][p] /\ dram_mr[p][n]
      \/ ~Alive(n) \/ ~Alive(p) \/ stop[n] \/ stop[p] \/ Starved(n, p)

\* A call of hmp_write or hmp_read spins on a transport that may still connect.
WaitsFor(n, p) ==
  pc[n] = "check" /\ peer[n] = p /\ Requested(n, p) /\ ~Demoted(n, p)

\* While the peer lives and no error stops a loop, a call of hmp_write that finds
\* a transport whose request reached the listener gets past the spin loop of
\* hmp_transport_check_state, unless the late assignment of CONNECTING hit it or
\* an end has no receive request at all.
WriteReturns ==
  \A n \in Node : \A p \in Node \ {n} :
    WaitsFor(n, p) ~>
      pc[n] # "check" \/ ~Alive(p) \/ stop[n] \/ stop[p] \/ Starved(n, p)

\* When an error stopped the event loop, a pending hmp_node_release gets past
\* pthread_join: the handlers of the current batch all return.
ReleaseReturns ==
  \A n \in Node : stop[n] /\ pc[n] = "join" ~> pc[n] # "join"

\* hmp_transport.h orders HMP_TRANSPORT_STATE_DISCONNECTED after CONNECTED and
\* hmp_transport_check_state refuses every later state ("rdma transport exits
\* error."): it lets no caller through to a connection that on_cm_disconnected
\* has torn down.
CheckRefusesDisconnected ==
  [][\A n \in Node :
       pc[n] = "check" /\ pc'[n] = "post" => qp[n][peer[n]] # "destroyed"]_vars

-----------------------------------------------------------------------------
\* What the set-up promises, without threads, events or phases.
Handshake ==
  INSTANCE HmpHandshake WITH
    built   <- {e \in Node \X Node : qp[e[1]][e[2]] # "none"},
    offered <- {e \in Node \X Node : msg[e[1]][e[2]] # "unsent"},
    known   <- {e \in Node \X Node : dram_mr[e[1]][e[2]]},
    granted <- {e \in Node \X Node : pc[e[1]] = "post" /\ peer[e[1]] = e[2]}

\* hmp_node_init, the event handlers and hmp_transport_check_state together
\* implement the handshake.
ImplementsHandshake == Handshake!Spec
=============================================================================
