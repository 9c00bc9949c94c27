-------------------------- MODULE HmpTransportProofs --------------------------
(***************************************************************************)
(* Proofs about HmpTransport, for every number of nodes and every choice of *)
(* faults: the type invariant, the safety invariants, that the set-up       *)
(* implements HmpHandshake, and the two action properties: how an entry of  *)
(* connect_trans is lost, and how a transport leaves CONNECTED.             *)
(***************************************************************************)
EXTENDS HmpTransport, SequenceTheorems, TLAPS

-----------------------------------------------------------------------------
(* The inductive invariant.                                                *)

\* While a call for a peer is on, the loop variable names a node.
TargetInv ==
  \A n \in Node : pc[n] \in {"store", "check", "post"} => peer[n] \in Node

\* What the channel of an end can still hold in each phase of its identifier.
QueueInv ==
  \A n, p \in Node :
    \/ events[n][p] = <<>>
    \/ cm[n][p] = "addr_done" /\ events[n][p] = <<"ADDR_RESOLVED">>
    \/ cm[n][p] = "route_done" /\ events[n][p] = <<"ROUTE_RESOLVED">>
    \/ cm[n][p] = "request" /\ events[n][p] = <<"CONNECT_REQUEST">>
    \/ cm[n][p] = "est" /\ events[n][p] = <<"ESTABLISHED">>
    \/ cm[n][p] = "closed" /\ events[n][p] = <<"ESTABLISHED", "DISCONNECTED">>
    \/ cm[n][p] = "closed" /\ events[n][p] = <<"DISCONNECTED">>
    \/ cm[n][p] = "failed" /\ events[n][p] = <<"OTHER">>
    \/ cm[n][p] = "failed" /\ events[n][p] = <<"CONNECT_ERROR">>

Unrequested == {"idle", "addr", "addr_done", "route", "route_done", "connect"}

\* The lower node connects, the higher one accepts, once.
RoleInv ==
  \A n, p \in Node :
    /\ cm[n][p] \in (Unrequested \ {"idle"}) \cup {"requested"} => n < p
    /\ cm[n][p] \in {"request", "accepted"} => p < n
    /\ n < p /\ cm[n][p] \in Unrequested => cm[p][n] = "idle"

\* The main thread has not touched the ends it has still to connect.
StartInv ==
  \A n \in Node :
    /\ pc[n] \in {"boot", "memset"} =>
         \A p \in Node : n < p => cm[n][p] = "idle"
    /\ pc[n] = "connect" =>
         n < peer[n] /\ \A p \in Node : peer[n] <= p => cm[n][p] = "idle"
    /\ pc[n] = "store" =>
         n < peer[n] /\ \A p \in Node : peer[n] < p => cm[n][p] = "idle"

\* A node sends its INIT message once, after it was established.
MsgInv ==
  \A n, p \in Node :
    msg[n][p] # "unsent" => /\ cm[n][p] \in {"est", "closed"}
                            /\ events[n][p] \in {<<>>, <<"DISCONNECTED">>}

\* Queue pairs exist before the connection does.
BuiltInv ==
  \A n, p \in Node :
    /\ cm[n][p] \in {"connect", "requested", "accepted"} => qp[n][p] # "none"
    /\ cm[n][p] \in {"est", "closed"} => qp[n][p] # "none" /\ qp[p][n] # "none"

\* How the peer's address and rkey get from its INIT message to the main thread.
KeyInv ==
  \A n, p \in Node :
    /\ <<"cq", p>> \in batch[n] => msg[p][n] \in {"delivered", "handled"}
    /\ cur[n] = <<"cq", p>> => dram_mr[n][p]
    /\ trans_state[n][p] = "CONNECTED" => dram_mr[n][p]
    /\ dram_mr[n][p] => msg[p][n] = "handled"
    /\ pc[n] = "post" /\ peer[n] = p => dram_mr[n][p]

\* Of the two calls of hmp_post_recv each left a receive request that waits for
\* the peer's only message or an error, until the queue pair itself fails.
RecvInv ==
  \A n, p \in Node :
    qp[n][p] = "ready" /\ msg[p][n] \in {"unsent", "sent"} =>
      recvs[n][p] + recv_errors[n][p] = 2 \/ msg[n][p] = "lost"

\* Why a CONNECTED transport may be used: the key is stored before the state is
\* published, it came in a message, the message was sent over an established
\* connection, and a connection is established only between two built ends.
IInv ==
  /\ TypeOK /\ TargetInv
  /\ QueueInv /\ RoleInv /\ StartInv /\ MsgInv
  /\ BuiltInv /\ KeyInv /\ RecvInv

-----------------------------------------------------------------------------
(* Type correctness *)

\* Nodes are numbers below N.
LEMMA NodeFacts ==
  \A n \in Node : n \in Nat /\ n \in 0 .. N /\ n + 1 \in 0 .. N
  BY NAssumption DEF Node

\* The sequence facts the event queues need.
LEMMA QueueTypes ==
  ASSUME NEW s \in Seq(CmEvent)
  PROVE  /\ \A e \in CmEvent : Append(s, e) \in Seq(CmEvent)
         /\ s # <<>> => Tail(s) \in Seq(CmEvent)
  OBVIOUS

\* A variable that is kept, or gets a value of its type at one end.
LEMMA SetEnd ==
  ASSUME NEW S, NEW f \in [Node -> [Node -> S]], NEW g,
         NEW n \in Node, NEW p \in Node, NEW v \in S, NEW w \in S,
         \/ g = f \/ g = [f EXCEPT ![n][p] = v] \/ g = [f EXCEPT ![n][p] = w]
  PROVE  g \in [Node -> [Node -> S]]
  OBVIOUS

\* hmp_pre_post_recv leaves two outcomes of hmp_post_recv.
LEMMA PrePostTypes ==
  ASSUME NEW n \in Node, NEW p \in Node, PrePostRecv(n, p),
         recvs \in [Node -> [Node -> 0 .. 2]], recv_errors \in [Node -> [Node -> 0 .. 2]]
  PROVE  /\ recvs' \in [Node -> [Node -> 0 .. 2]]
         /\ recv_errors' \in [Node -> [Node -> 0 .. 2]]
         /\ recvs'[n][p] + recv_errors'[n][p] = 2
         /\ \A a, b \in Node : a # n \/ b # p =>
              recvs'[a][b] = recvs[a][b] /\ recv_errors'[a][b] = recv_errors[a][b]
<1>1. PICK failed \in 0 .. 2 :
        /\ recvs' = [recvs EXCEPT ![n][p] = 2 - failed]
        /\ recv_errors' = [recv_errors EXCEPT ![n][p] = failed]
  BY Zenon DEF PrePostRecv, PostRecvs
<1>2. 2 - failed \in 0 .. 2 /\ (2 - failed) + failed = 2
  OBVIOUS
<1>3. recvs' \in [Node -> [Node -> 0 .. 2]] /\ recv_errors' \in [Node -> [Node -> 0 .. 2]]
  BY <1>1, <1>2, SetEnd
<1>4. /\ recvs'[n][p] = 2 - failed
      /\ \A a, b \in Node : a # n \/ b # p => recvs'[a][b] = recvs[a][b]
  BY <1>1
<1>5. /\ recv_errors'[n][p] = failed
      /\ \A a, b \in Node : a # n \/ b # p => recv_errors'[a][b] = recv_errors[a][b]
  BY <1>1
<1> QED
  BY <1>2, <1>3, <1>4, <1>5

\* A handler that took an event left a well-typed queue behind.
LEMMA TakeTypes ==
  ASSUME TypeOK, NEW n \in Node, NEW p \in Node, NEW e, Take(n, p, e)
  PROVE  events' \in [Node -> [Node -> Seq(CmEvent)]]
<1>1. Tail(events[n][p]) \in Seq(CmEvent)
  BY QueueTypes DEF TypeOK, Take
<1> QED
  BY <1>1 DEF TypeOK, Take

\* The fabric appends an event: the queue and the phase keep their types.
LEMMA QueueActionTypes ==
  ASSUME TypeOK, NEW n \in Node, NEW p \in Node, NEW e \in CmEvent,
         NEW phase \in CmPhase, Queue(n, p, e, phase)
  PROVE  /\ cm' \in [Node -> [Node -> CmPhase]]
         /\ events' \in [Node -> [Node -> Seq(CmEvent)]]
<1>1. Append(events[n][p], e) \in Seq(CmEvent)
  BY QueueTypes DEF TypeOK
<1> QED
  BY <1>1 DEF TypeOK, Queue

\* The steps of the main thread keep the types.
LEMMA TypeMain ==
  ASSUME TypeOK, TargetInv, NEW n \in Node, NEW p \in Node,
         Main(n) \/ CallWrite(n, p) \/ CallRelease(n) \/ Quit(n)
  PROVE  TypeOK'
<1>0. /\ n \in Nat /\ p \in Nat /\ N \in Nat
      /\ n + 1 \in 0 .. N /\ p \in 0 .. N
      /\ peer[n] \in Node => peer[n] \in Nat /\ peer[n] + 1 \in 0 .. N
  BY NodeFacts, NAssumption
<1> USE DEF TypeOK, MainLabel, TransState, CmPhase, loopVars, transVars, netVars
<1>1. CASE Listen(n) BY <1>1 DEF Listen
<1>2. CASE ClearTable(n)
  <2>1. connect_trans' \in [Node -> [Node -> BOOLEAN]] BY <1>2 DEF ClearTable
  <2>2. peer' \in [Node -> 0 .. N] BY <1>0, <1>2 DEF ClearTable
  <2>3. pc' \in [Node -> MainLabel] BY <1>2 DEF ClearTable
  <2> QED BY <2>1, <2>2, <2>3, <1>2 DEF ClearTable
<1>3. CASE StartConnect(n)
  <2>1. peer' \in [Node -> 0 .. N] BY <1>0, <1>3 DEF StartConnect
  <2>2. pc' \in [Node -> MainLabel] BY <1>3 DEF StartConnect
  <2>3. connect_trans' \in [Node -> [Node -> BOOLEAN]] BY <1>3 DEF StartConnect
  <2>4. trans_state' \in [Node -> [Node -> TransState]] BY <1>3 DEF StartConnect
  <2>5. cm' = cm \/ cm' = [cm EXCEPT ![n][peer[n]] = "addr"]
    BY <1>3, Zenon DEF StartConnect
  <2>6. peer[n] \in Node BY <1>3 DEF StartConnect
  <2>7. cm' \in [Node -> [Node -> CmPhase]]
    <3>1. CASE cm' = cm BY <3>1
    <3>2. CASE cm' = [cm EXCEPT ![n][peer[n]] = "addr"]
      BY <2>6, <3>2
    <3> QED BY <2>5, <3>1, <3>2
  <2> QED BY <2>1, <2>2, <2>3, <2>4, <2>7, <1>3 DEF StartConnect
<1>4. CASE StoreConnecting(n)
  <2> QED BY <1>0, <1>4 DEF StoreConnecting, TargetInv
<1>5. CASE InitDone(n) BY <1>5 DEF InitDone
<1>6. CASE CheckState(n) BY <1>6 DEF CheckState
<1>7. CASE PostWrite(n) BY <1>7 DEF PostWrite
<1>8. CASE Released(n) BY <1>8 DEF Released
<1>9. CASE CallWrite(n, p)
  <2>1. peer' \in [Node -> 0 .. N] BY <1>0, <1>9 DEF CallWrite
  <2>2. \/ pc' = [pc EXCEPT ![n] = "check"]
        \/ pc' = [pc EXCEPT ![n] = "dead"]
    BY <1>9, Zenon DEF CallWrite
  <2>3. pc' \in [Node -> MainLabel] BY <2>2
  <2> QED BY <2>1, <2>3, <1>9 DEF CallWrite
<1>10. CASE CallRelease(n) BY <1>10 DEF CallRelease
<1>11. CASE Quit(n) BY <1>11 DEF Quit
<1>12. CASE CreateFails(n) BY <1>12 DEF CreateFails
<1> QED
  BY <1>1, <1>2, <1>3, <1>4, <1>5, <1>6, <1>7, <1>8, <1>9, <1>10, <1>11, <1>12
     DEF Main

\* So do the steps of the epoll thread between two handlers.
LEMMA TypeLoop ==
  ASSUME TypeOK, NEW n \in Node, NEW p \in Node,
         \/ EpollWait(n) \/ LoopExit(n) \/ EnterCm(n, p) \/ LeaveCm(n, p)
         \/ StoreMr(n, p) \/ PublishConnected(n, p) \/ PollNothing(n, p)
  PROVE  TypeOK'
<1>0. /\ \A q \in Node : <<"cm", q>> \in Fd /\ <<"cq", q>> \in Fd
      /\ Idle \in Fd /\ Exited \in Fd
  BY NAssumption DEF Fd, Idle, Exited, Node
<1> USE DEF TypeOK, mainVars, transVars, netVars
<1>1. CASE EpollWait(n)
  <2>1. Ready(n) \in SUBSET Fd BY <1>0 DEF Ready, Chan
  <2>2. batch' \in [Node -> SUBSET Fd] BY <1>1, <2>1 DEF EpollWait
  <2> QED BY <1>1, <2>2 DEF EpollWait
<1>2. CASE LoopExit(n) BY <1>0, <1>2 DEF LoopExit
<1>3. CASE EnterCm(n, p)
  <2>1. batch' \in [Node -> SUBSET Fd] BY <1>3 DEF EnterCm
  <2>2. cur' \in [Node -> Fd] BY <1>0, <1>3 DEF EnterCm
  <2> QED BY <1>3, <2>1, <2>2 DEF EnterCm
<1>4. CASE LeaveCm(n, p) BY <1>0, <1>4 DEF LeaveCm
<1>5. CASE StoreMr(n, p)
  <2>1. batch' \in [Node -> SUBSET Fd] BY <1>5 DEF StoreMr
  <2>2. cur' \in [Node -> Fd] BY <1>0, <1>5 DEF StoreMr
  <2>3. dram_mr' \in [Node -> [Node -> BOOLEAN]] BY <1>5 DEF StoreMr
  <2>4. msg' \in [Node -> [Node -> MsgState]] BY <1>5 DEF StoreMr, MsgState
  <2> QED BY <1>5, <2>1, <2>2, <2>3, <2>4 DEF StoreMr
<1>6. CASE PublishConnected(n, p)
  <2>1. trans_state' \in [Node -> [Node -> TransState]]
    BY <1>6 DEF PublishConnected, TransState
  <2>2. cur' \in [Node -> Fd] BY <1>0, <1>6 DEF PublishConnected
  <2> QED BY <1>6, <2>1, <2>2 DEF PublishConnected
<1>7. CASE PollNothing(n, p)
  <2>1. batch' \in [Node -> SUBSET Fd] BY <1>7 DEF PollNothing
  <2> QED BY <1>7, <2>1 DEF PollNothing
<1> QED
  BY <1>1, <1>2, <1>3, <1>4, <1>5, <1>6, <1>7

\* So do the handlers of CM events and completions.
LEMMA TypeHandler ==
  ASSUME TypeOK, NEW n \in Node, NEW p \in Node,
         \/ OnAddrResolved(n, p) \/ OnRouteResolved(n, p)
         \/ OnConnectRequest(n, p) \/ OnEstablished(n, p)
         \/ OnDisconnected(n, p) \/ OnConnectError(n, p) \/ OnOtherEvent(n, p)
  PROVE  TypeOK'
<1>0. Idle \in Fd
  BY NAssumption DEF Fd, Idle, Node
<1>1. events' \in [Node -> [Node -> Seq(CmEvent)]]
  BY TakeTypes DEF OnAddrResolved, OnRouteResolved, OnConnectRequest,
     OnEstablished, OnDisconnected, OnConnectError, OnOtherEvent
<1>2. cur' \in [Node -> Fd]
  BY <1>0 DEF TypeOK, ReturnOk, ReturnError, GiveUp,
     OnAddrResolved, OnRouteResolved, OnConnectRequest,
     OnEstablished, OnDisconnected, OnConnectError, OnOtherEvent
<1> USE DEF mainVars, transVars, netVars, ReturnOk, ReturnError, GiveUp
<1> USE DEF TypeOK, CmPhase, QpState, TransState, MsgState
<1>3. CASE OnAddrResolved(n, p)
  <2>1. cm' = cm \/ cm' = [cm EXCEPT ![n][p] = "route"]
    BY <1>3, Zenon DEF OnAddrResolved
  <2>2. cm' \in [Node -> [Node -> CmPhase]]
    BY <2>1, SetEnd
  <2>3. UNCHANGED <<connect_trans, trans_state, qp, recvs, recv_errors, stop>>
    BY <1>3, Zenon DEF OnAddrResolved
  <2> QED BY <1>1, <1>2, <1>3, <2>2, <2>3 DEF OnAddrResolved
<1>4. CASE OnRouteResolved(n, p)
  <2>1. cm' = cm \/ cm' = [cm EXCEPT ![n][p] = "connect"]
    BY <1>4, Zenon DEF OnRouteResolved
  <2>2. \/ qp' = qp
        \/ qp' = [qp EXCEPT ![n][p] = "ready"]
        \/ qp' = [qp EXCEPT ![n][p] = "destroyed"]
    BY <1>4, Zenon DEF OnRouteResolved
  <2>3. UNCHANGED <<recvs, recv_errors>> \/ PrePostRecv(n, p)
    BY <1>4, Zenon DEF OnRouteResolved
  <2>4. trans_state' = trans_state \/ trans_state' = [trans_state EXCEPT ![n][p] = "ERROR"]
    BY <1>4, Zenon DEF OnRouteResolved
  <2>5. stop' = stop \/ stop' = [stop EXCEPT ![n] = TRUE]
    BY <1>4, Zenon DEF OnRouteResolved
  <2>6. UNCHANGED connect_trans
    BY <1>4, Zenon DEF OnRouteResolved
  <2>7. cm' \in [Node -> [Node -> CmPhase]] BY <2>1, SetEnd
  <2>8. qp' \in [Node -> [Node -> QpState]] BY <2>2, SetEnd
  <2>9. recvs' \in [Node -> [Node -> 0 .. 2]] /\ recv_errors' \in [Node -> [Node -> 0 .. 2]]
    BY <2>3, PrePostTypes
  <2>10. trans_state' \in [Node -> [Node -> TransState]] BY <2>4, SetEnd
  <2>11. stop' \in [Node -> BOOLEAN] BY <2>5
  <2> QED BY <1>1, <1>2, <1>4, <2>6, <2>7, <2>8, <2>9, <2>10, <2>11
          DEF OnRouteResolved
<1>5. CASE OnConnectRequest(n, p)
  <2>1. cm' = cm \/ cm' = [cm EXCEPT ![n][p] = "accepted"]
    BY <1>5, Zenon DEF OnConnectRequest, GiveUp
  <2>2. qp' = qp \/ qp' = [qp EXCEPT ![n][p] = "ready"]
    BY <1>5, Zenon DEF OnConnectRequest, GiveUp
  <2>3. UNCHANGED <<recvs, recv_errors>> \/ PrePostRecv(n, p)
    BY <1>5, Zenon DEF OnConnectRequest, GiveUp
  <2>4. \/ trans_state' = trans_state
        \/ trans_state' = [trans_state EXCEPT ![n][p] = "INIT"]
        \/ trans_state' = [trans_state EXCEPT ![n][p] = "CONNECTING"]
    BY <1>5, Zenon DEF OnConnectRequest, GiveUp
  <2>5. \/ connect_trans' = connect_trans
        \/ connect_trans' = [connect_trans EXCEPT ![n][p] = TRUE]
    BY <1>5, Zenon DEF OnConnectRequest, EnterTable, GiveUp
  <2>6. cm' \in [Node -> [Node -> CmPhase]] BY <2>1, SetEnd
  <2>7. qp' \in [Node -> [Node -> QpState]] BY <2>2, SetEnd
  <2>8. recvs' \in [Node -> [Node -> 0 .. 2]] /\ recv_errors' \in [Node -> [Node -> 0 .. 2]]
    BY <2>3, PrePostTypes
  <2>9. trans_state' \in [Node -> [Node -> TransState]] BY <2>4, SetEnd
  <2>10. connect_trans' \in [Node -> [Node -> BOOLEAN]] BY <2>5, SetEnd
  <2> QED BY <1>1, <1>2, <1>5, <2>6, <2>7, <2>8, <2>9, <2>10
          DEF OnConnectRequest
<1>6. CASE OnEstablished(n, p)
  <2>1. msg' = msg \/ msg' = [msg EXCEPT ![n][p] = "sent"]
    BY <1>6, Zenon DEF OnEstablished
  <2>2. msg' \in [Node -> [Node -> MsgState]] BY <2>1, SetEnd
  <2> QED BY <1>1, <1>2, <1>6, <2>2 DEF OnEstablished
<1>7. CASE OnDisconnected(n, p)
  <2>1. qp' \in [Node -> [Node -> QpState]]
    BY <1>7 DEF TypeOK, OnDisconnected, QpState
  <2> QED BY <1>1, <1>2, <1>7, <2>1 DEF TypeOK, OnDisconnected
<1>8. CASE OnConnectError(n, p)
  <2>1. trans_state' \in [Node -> [Node -> TransState]]
    BY <1>8 DEF TypeOK, OnConnectError, TransState
  <2> QED BY <1>1, <1>2, <1>8, <2>1 DEF TypeOK, OnConnectError
<1>9. CASE OnOtherEvent(n, p)
  BY <1>1, <1>2, <1>9 DEF TypeOK, OnOtherEvent
<1> QED
  BY <1>3, <1>4, <1>5, <1>6, <1>7, <1>8, <1>9

\* So do the connection manager and the wire.
LEMMA TypeFabric ==
  ASSUME TypeOK, NEW n \in Node, NEW p \in Node, Fabric(n, p)
  PROVE  TypeOK'
<1> USE DEF mainVars, loopVars, transVars
<1>1. ASSUME NEW e \in CmEvent, NEW phase \in CmPhase, Queue(n, p, e, phase),
             UNCHANGED <<mainVars, loopVars, transVars, msg>>
      PROVE  TypeOK'
  BY <1>1, QueueActionTypes DEF TypeOK
<1>2. CASE CmResolve(n, p)
  BY <1>1, <1>2 DEF CmResolve, CmEvent, CmPhase
<1>3. CASE CmRequest(n, p)
  <2>1. cm' \in [Node -> [Node -> CmPhase]]
    BY <1>3 DEF TypeOK, CmRequest, CmPhase
  <2>2. "CONNECT_REQUEST" \in CmEvent BY DEF CmEvent
  <2>3. Append(events[p][n], "CONNECT_REQUEST") \in Seq(CmEvent)
    BY <2>2, QueueTypes DEF TypeOK
  <2>4. events' \in [Node -> [Node -> Seq(CmEvent)]]
    BY <1>3, <2>3 DEF TypeOK, CmRequest
  <2> QED BY <1>3, <2>1, <2>4 DEF TypeOK, CmRequest
<1>4. CASE CmRefuse(n, p)
  BY <1>1, <1>4 DEF CmRefuse, CmEvent, CmPhase
<1>5. CASE CmEstablish(n, p)
  BY <1>1, <1>5 DEF CmEstablish, CmEvent, CmPhase
<1>6. CASE CmAbandon(n, p)
  BY <1>1, <1>6 DEF CmAbandon, CmEvent, CmPhase
<1>7. CASE CmDisconnect(n, p)
  BY <1>1, <1>7 DEF CmDisconnect, CmEvent, CmPhase
<1>8. CASE Deliver(n, p)
  <2>1. msg' \in [Node -> [Node -> MsgState]]
    BY <1>8 DEF TypeOK, Deliver, MsgState
  <2>2. recvs' \in [Node -> [Node -> 0 .. 2]]
    BY <1>8 DEF TypeOK, Deliver
  <2> QED BY <1>8, <2>1, <2>2 DEF TypeOK, Deliver
<1>9. CASE RnrError(n, p)
  <2>1. msg' \in [Node -> [Node -> MsgState]]
    BY <1>9 DEF TypeOK, RnrError, MsgState
  <2>2. recvs' \in [Node -> [Node -> 0 .. 2]]
    BY <1>9 DEF TypeOK, RnrError
  <2> QED BY <1>9, <2>1, <2>2 DEF TypeOK, RnrError
<1> QED
  BY <1>2, <1>3, <1>4, <1>5, <1>6, <1>7, <1>8, <1>9 DEF Fabric

\* The guard p \in Node of hmp_node_init's loop and of hmp_write.
LEMMA TargetStep ==
  ASSUME TypeOK, TargetInv, NEW n \in Node, NEW p \in Node,
         Main(n) \/ CallWrite(n, p) \/ CallRelease(n) \/ Quit(n)
  PROVE  TargetInv'
<1> USE DEF TargetInv, TypeOK
<1>1. CASE CallWrite(n, p)
  <2>1. \/ pc' = [pc EXCEPT ![n] = "check"] /\ peer' = [peer EXCEPT ![n] = p]
        \/ pc' = [pc EXCEPT ![n] = "dead"] /\ UNCHANGED peer
    BY <1>1, Zenon DEF CallWrite
  <2> QED BY <2>1
<1>2. CASE StartConnect(n) BY <1>2 DEF StartConnect
<1>3. CASE CheckState(n) BY <1>3 DEF CheckState
<1>4. CASE PostWrite(n) BY <1>4 DEF PostWrite
<1>5. CASE ClearTable(n) BY <1>5 DEF ClearTable
<1>6. CASE StoreConnecting(n) BY <1>6 DEF StoreConnecting
<1>7. CASE Listen(n) \/ InitDone(n) \/ Released(n) \/ CallRelease(n) \/ Quit(n) \/ CreateFails(n)
  <2>1. /\ UNCHANGED peer
        /\ \E l \in {"memset", "ready", "released", "join", "dead"} :
             pc' = [pc EXCEPT ![n] = l]
    BY <1>7 DEF Listen, InitDone, Released, CallRelease, Quit, CreateFails
  <2> QED BY <2>1
<1> QED
  BY <1>1, <1>2, <1>3, <1>4, <1>5, <1>6, <1>7 DEF Main

TypeInv == TypeOK /\ TargetInv

\* The types hold at the start.
LEMMA TypeInit == Init => TypeInv
<1> SUFFICES ASSUME Init PROVE TypeInv
  OBVIOUS
<1>1. \A n \in Node : 0 \in 0 .. N /\ Idle \in Fd
  BY NAssumption DEF Node, Fd, Idle
<1>2. <<>> \in Seq(CmEvent)
  OBVIOUS
<1>3. TypeOK
  BY <1>1, <1>2 DEF Init, TypeOK, MainLabel, TransState, QpState, CmPhase, MsgState
<1> QED
  BY <1>3 DEF Init, TypeInv, TargetInv

\* Every step keeps the types and the target of a pending call.
LEMMA TypeStep == TypeInv /\ [Next]_vars => TypeInv'
<1> SUFFICES ASSUME TypeInv, [Next]_vars PROVE TypeInv'
  OBVIOUS
<1> USE DEF TypeInv
<1>1. CASE UNCHANGED vars
  BY <1>1 DEF vars, mainVars, loopVars, transVars, netVars, TypeOK, TargetInv
<1>2. ASSUME NEW n \in Node, Main(n) \/ CallRelease(n) \/ Quit(n)
      PROVE  TypeInv'
  BY <1>2, TypeMain, TargetStep
<1>3. ASSUME NEW n \in Node, NEW p \in Node, CallWrite(n, p)
      PROVE  TypeInv'
  BY <1>3, TypeMain, TargetStep
<1>4. ASSUME NEW n \in Node, NEW p \in Node, Fabric(n, p)
      PROVE  TypeInv'
  <2>1. UNCHANGED mainVars
    BY <1>4 DEF Fabric, CmResolve, CmRequest, CmRefuse, CmEstablish, CmAbandon,
       CmDisconnect, Deliver, RnrError
  <2> QED BY <1>4, <2>1, TypeFabric DEF TargetInv, mainVars
<1>5. ASSUME NEW n \in Node, Loop(n)
      PROVE  TypeInv'
  <2>1. UNCHANGED mainVars
    BY <1>5 DEF Loop, EpollWait, LoopExit, EnterCm, LeaveCm, OnAddrResolved,
       OnRouteResolved, OnConnectRequest, OnEstablished, OnDisconnected,
       OnConnectError, OnOtherEvent, StoreMr, PublishConnected, PollNothing
  <2>2. TypeOK'
    BY <1>5, TypeLoop, TypeHandler DEF Loop
  <2> QED BY <2>1, <2>2 DEF TargetInv, mainVars
<1> QED
  BY <1>1, <1>2, <1>3, <1>4, <1>5 DEF Next

\* Every variable of the connection set-up keeps its type: no main thread or
\* handler leaves its enumeration, and no more than two receives are posted.
THEOREM TypeCorrect == Spec => []TypeOK
<1>1. TypeInv => TypeOK
  BY DEF TypeInv
<1> QED
  BY TypeInit, TypeStep, <1>1, PTL DEF Spec

-----------------------------------------------------------------------------
(* The steps of the system, and what they do to queues and identifiers *)

\* Every disjunct of the next-state relation; actions of one node ignore p.
Action(n, p) ==
  \/ Listen(n) \/ ClearTable(n) \/ StartConnect(n) \/ StoreConnecting(n)
  \/ InitDone(n) \/ CheckState(n) \/ PostWrite(n) \/ Released(n)
  \/ CallWrite(n, p) \/ CallRelease(n) \/ Quit(n) \/ CreateFails(n)
  \/ EpollWait(n) \/ LoopExit(n) \/ EnterCm(n, p) \/ LeaveCm(n, p)
  \/ OnAddrResolved(n, p) \/ OnRouteResolved(n, p) \/ OnConnectRequest(n, p)
  \/ OnEstablished(n, p) \/ OnDisconnected(n, p) \/ OnConnectError(n, p)
  \/ OnOtherEvent(n, p)
  \/ StoreMr(n, p) \/ PublishConnected(n, p) \/ PollNothing(n, p)
  \/ CmResolve(n, p) \/ CmRequest(n, p) \/ CmRefuse(n, p) \/ CmEstablish(n, p)
  \/ CmAbandon(n, p) \/ CmDisconnect(n, p) \/ Deliver(n, p) \/ RnrError(n, p)

\* A step of the system is one action of one end.
LEMMA NextIsAction == Next => \E n, p \in Node : Action(n, p)
  BY ZenonT(90) DEF Next, Main, Loop, Fabric, Action

\* Reading a variable after one end of it was assigned.
LEMMA EndAt ==
  ASSUME NEW S, NEW f \in [Node -> [Node -> S]], NEW g,
         NEW n \in Node, NEW p \in Node, NEW v,
         g = [f EXCEPT ![n][p] = v]
  PROVE  /\ g[n][p] = v
         /\ \A a, b \in Node : a # n \/ b # p => g[a][b] = f[a][b]
  OBVIOUS

\* The types of the variables that are read at one end.
LEMMA EndTypes ==
  ASSUME IInv
  PROVE  /\ trans_state \in [Node -> [Node -> TransState]]
         /\ qp \in [Node -> [Node -> QpState]]
         /\ recvs \in [Node -> [Node -> 0 .. 2]]
         /\ recv_errors \in [Node -> [Node -> 0 .. 2]]
         /\ dram_mr \in [Node -> [Node -> BOOLEAN]]
         /\ cm \in [Node -> [Node -> CmPhase]]
         /\ events \in [Node -> [Node -> Seq(CmEvent)]]
         /\ msg \in [Node -> [Node -> MsgState]]
         /\ batch \in [Node -> SUBSET Fd]
         /\ cur \in [Node -> Fd]
  BY DEF IInv, TypeOK

\* Which event a handler gets, in which phase, and what is left of the queue.
LEMMA TakeEffect ==
  ASSUME TypeOK, QueueInv, NEW n \in Node, NEW p \in Node, NEW e, Take(n, p, e)
  PROVE  /\ p # n
         /\ \A a, b \in Node : a # n \/ b # p => events'[a][b] = events[a][b]
         /\ \/ events[n][p] = <<e>> /\ events'[n][p] = <<>>
            \/ /\ e = "ESTABLISHED" /\ cm[n][p] = "closed"
               /\ events[n][p] = <<"ESTABLISHED", "DISCONNECTED">>
               /\ events'[n][p] = <<"DISCONNECTED">>
         /\ e = "ADDR_RESOLVED" => cm[n][p] = "addr_done"
         /\ e = "ROUTE_RESOLVED" => cm[n][p] = "route_done"
         /\ e = "CONNECT_REQUEST" => cm[n][p] = "request"
         /\ e = "ESTABLISHED" => cm[n][p] \in {"est", "closed"}
         /\ e = "DISCONNECTED" => cm[n][p] = "closed"
         /\ e \in {"OTHER", "CONNECT_ERROR"} => cm[n][p] = "failed"
<1>1. /\ p # n /\ events[n][p] # <<>> /\ e = Head(events[n][p])
      /\ events' = [events EXCEPT ![n][p] = Tail(events[n][p])]
  BY DEF Take, TypeOK
<1>2. /\ events'[n][p] = Tail(events[n][p])
      /\ \A a, b \in Node : a # n \/ b # p => events'[a][b] = events[a][b]
  BY <1>1, EndAt DEF TypeOK
<1>3. ASSUME NEW x, events[n][p] = <<x>>
      PROVE  e = x /\ events[n][p] = <<e>> /\ events'[n][p] = <<>>
  <2>1. Head(<<x>>) = x /\ Tail(<<x>>) = <<>> OBVIOUS
  <2> QED BY <1>1, <1>2, <1>3, <2>1
<1>4. ASSUME events[n][p] = <<"ESTABLISHED", "DISCONNECTED">>
      PROVE  e = "ESTABLISHED" /\ events'[n][p] = <<"DISCONNECTED">>
  <2>1. /\ Head(<<"ESTABLISHED", "DISCONNECTED">>) = "ESTABLISHED"
        /\ Tail(<<"ESTABLISHED", "DISCONNECTED">>) = <<"DISCONNECTED">>
    OBVIOUS
  <2> QED BY <1>1, <1>2, <1>4, <2>1
<1>5. \/ cm[n][p] = "addr_done" /\ events[n][p] = <<"ADDR_RESOLVED">>
      \/ cm[n][p] = "route_done" /\ events[n][p] = <<"ROUTE_RESOLVED">>
      \/ cm[n][p] = "request" /\ events[n][p] = <<"CONNECT_REQUEST">>
      \/ cm[n][p] = "est" /\ events[n][p] = <<"ESTABLISHED">>
      \/ cm[n][p] = "closed" /\ events[n][p] = <<"ESTABLISHED", "DISCONNECTED">>
      \/ cm[n][p] = "closed" /\ events[n][p] = <<"DISCONNECTED">>
      \/ cm[n][p] = "failed" /\ events[n][p] = <<"OTHER">>
      \/ cm[n][p] = "failed" /\ events[n][p] = <<"CONNECT_ERROR">>
  BY <1>1, Zenon DEF QueueInv
<1> QED
  BY <1>1, <1>2, <1>3, <1>4, <1>5

\* An event appended to a queue of one.
LEMMA AppendTwo ==
  ASSUME NEW S, NEW x \in S, NEW y \in S
  PROVE  Append(<<x>>, y) = <<x, y>>
<1>1. /\ <<x>> \in Seq(S) /\ <<x, y>> \in Seq(S)
      /\ Append(<<x>>, y) \in Seq(S)
  OBVIOUS
<1>2. Len(Append(<<x>>, y)) = 2 /\ Len(<<x, y>>) = 2
  OBVIOUS
<1>3. \A i \in 1 .. 2 : Append(<<x>>, y)[i] = <<x, y>>[i]
  OBVIOUS
<1> QED
  BY <1>1, <1>2, <1>3, SeqEqual

\* What a step of the fabric leaves in the queue and the phase of its end.
LEMMA QueueEffect ==
  ASSUME TypeOK, NEW n \in Node, NEW p \in Node, NEW e, NEW phase,
         Queue(n, p, e, phase)
  PROVE  /\ cm'[n][p] = phase
         /\ \A a, b \in Node : a # n \/ b # p =>
              cm'[a][b] = cm[a][b] /\ events'[a][b] = events[a][b]
         /\ events[n][p] = <<>> => events'[n][p] = <<e>>
         /\ events[n][p] = <<"ESTABLISHED">> /\ e = "DISCONNECTED" =>
              events'[n][p] = <<"ESTABLISHED", "DISCONNECTED">>
<1>1. /\ cm' = [cm EXCEPT ![n][p] = phase]
      /\ events' = [events EXCEPT ![n][p] = Append(events[n][p], e)]
  BY DEF Queue, TypeOK
<1>2. /\ cm'[n][p] = phase
      /\ \A a, b \in Node : a # n \/ b # p => cm'[a][b] = cm[a][b]
  BY <1>1, EndAt DEF TypeOK
<1>3. /\ events'[n][p] = Append(events[n][p], e)
      /\ \A a, b \in Node : a # n \/ b # p => events'[a][b] = events[a][b]
  BY <1>1, EndAt DEF TypeOK
<1>4. Append(<<>>, e) = <<e>>
  OBVIOUS
<1>5. Append(<<"ESTABLISHED">>, "DISCONNECTED") = <<"ESTABLISHED", "DISCONNECTED">>
  <2>1. "ESTABLISHED" \in CmEvent /\ "DISCONNECTED" \in CmEvent BY DEF CmEvent
  <2> QED BY <2>1, AppendTwo
<1> QED
  BY <1>2, <1>3, <1>4, <1>5

-----------------------------------------------------------------------------
(* Queues, roles, the start of the connections, and the INIT messages *)

\* The steps that leave the connection manager's identifiers alone.
QuietAction(n, p) ==
  \/ Listen(n) \/ ClearTable(n) \/ StoreConnecting(n)
  \/ InitDone(n) \/ CheckState(n) \/ PostWrite(n) \/ Released(n)
  \/ CallWrite(n, p) \/ CallRelease(n) \/ Quit(n) \/ CreateFails(n)
  \/ EpollWait(n) \/ LoopExit(n) \/ EnterCm(n, p) \/ LeaveCm(n, p)
  \/ StoreMr(n, p) \/ PublishConnected(n, p) \/ PollNothing(n, p)
  \/ Deliver(n, p) \/ RnrError(n, p)

\* A quiet step leaves the identifiers and their queues alone.
LEMMA QuietEffect ==
  ASSUME NEW n, NEW p, QuietAction(n, p)
  PROVE  UNCHANGED <<cm, events>>
  BY Zenon DEF QuietAction, Listen, ClearTable, StoreConnecting, InitDone, CheckState,
     PostWrite, Released, CallWrite, CallRelease, Quit, CreateFails, EpollWait, LoopExit,
     EnterCm, LeaveCm, StoreMr, PublishConnected, PollNothing, Deliver, RnrError, netVars

\* An identifier that is in use moves on within its role.
LEMMA RoleKept ==
  ASSUME IInv, NEW n \in Node, NEW p \in Node,
         \A a, b \in Node : a # n \/ b # p => cm'[a][b] = cm[a][b],
         cm[n][p] # "idle", cm'[n][p] # "idle",
         cm'[n][p] \in Unrequested \cup {"requested"} => cm[n][p] \in Unrequested,
         cm'[n][p] \in {"request", "accepted"} => cm[n][p] \in {"request", "accepted"},
         UNCHANGED mainVars
  PROVE  RoleInv' /\ StartInv'
<1>1. RoleInv'
  BY NodeFacts DEF IInv, RoleInv, Unrequested
<1>2. StartInv'
  BY DEF IInv, StartInv, mainVars
<1> QED
  BY <1>1, <1>2

\* The main thread moves on only past ends it has connected.
LEMMA QuietStart ==
  ASSUME IInv, NEW n \in Node, NEW p \in Node, QuietAction(n, p)
  PROVE  StartInv'
<1>0. UNCHANGED cm
  BY QuietEffect
<1> USE DEF IInv, TypeOK, StartInv
<1>1. CASE Listen(n)
  BY <1>0, <1>1 DEF Listen
<1>2. CASE ClearTable(n)
  <2>1. pc' = [pc EXCEPT ![n] = "connect"] /\ peer' = [peer EXCEPT ![n] = n + 1]
    BY <1>2 DEF ClearTable
  <2>2. \A q \in Node : n + 1 <= q => cm[n][q] = "idle"
    BY <1>2, NodeFacts DEF ClearTable
  <2>3. n < n + 1
    BY NodeFacts
  <2> QED BY <1>0, <2>1, <2>2, <2>3
<1>3. CASE StoreConnecting(n)
  <2>1. pc' = [pc EXCEPT ![n] = "connect"] /\ peer' = [peer EXCEPT ![n] = peer[n] + 1]
    BY <1>3 DEF StoreConnecting
  <2>2. n < peer[n] + 1 /\ \A q \in Node : peer[n] + 1 <= q => cm[n][q] = "idle"
    <3>1. pc[n] = "store"
      BY <1>3 DEF StoreConnecting
    <3>2. n < peer[n] /\ \A q \in Node : peer[n] < q => cm[n][q] = "idle"
      BY <3>1
    <3>3. n \in Int /\ peer[n] \in Int /\ \A q \in Node : q \in Int
      BY NodeFacts, NAssumption
    <3> HIDE DEF IInv, TypeOK, StartInv
    <3>4. n < peer[n] + 1
      BY <3>2, <3>3
    <3>5. ASSUME NEW q \in Node, peer[n] + 1 <= q
          PROVE  cm[n][q] = "idle"
      <4>1. peer[n] < q
        BY <3>3, <3>5
      <4> QED BY <3>2, <4>1
    <3> QED BY <3>4, <3>5
  <2> QED BY <1>0, <2>1, <2>2
<1>4. CASE InitDone(n) \/ CheckState(n) \/ PostWrite(n) \/ Released(n)
           \/ CallRelease(n) \/ Quit(n) \/ CreateFails(n)
  <2>1. /\ UNCHANGED peer
        /\ \E l \in {"ready", "post", "released", "join", "dead"} :
             pc' = [pc EXCEPT ![n] = l]
    BY <1>4 DEF InitDone, CheckState, PostWrite, Released, CallRelease, Quit, CreateFails
  <2> QED BY <1>0, <2>1
<1>5. CASE CallWrite(n, p)
  <2>1. \/ pc' = [pc EXCEPT ![n] = "check"] /\ peer' = [peer EXCEPT ![n] = p]
        \/ pc' = [pc EXCEPT ![n] = "dead"] /\ UNCHANGED peer
    BY <1>5, Zenon DEF CallWrite
  <2>2. CASE pc' = [pc EXCEPT ![n] = "check"] /\ peer' = [peer EXCEPT ![n] = p]
    BY <1>0, <2>2
  <2>3. CASE pc' = [pc EXCEPT ![n] = "dead"] /\ UNCHANGED peer
    BY <1>0, <2>3
  <2> QED BY <2>1, <2>2, <2>3
<1>6. CASE EpollWait(n) \/ LoopExit(n) \/ EnterCm(n, p) \/ LeaveCm(n, p)
           \/ StoreMr(n, p) \/ PublishConnected(n, p) \/ PollNothing(n, p)
           \/ Deliver(n, p) \/ RnrError(n, p)
  <2>1. UNCHANGED <<pc, peer>>
    BY <1>6, Zenon DEF EpollWait, LoopExit, EnterCm, LeaveCm, StoreMr,
       PublishConnected, PollNothing, Deliver, RnrError, mainVars
  <2> QED BY <1>0, <2>1
<1> QED
  BY <1>1, <1>2, <1>3, <1>4, <1>5, <1>6, Zenon DEF QuietAction

\* A quiet step sends no INIT message.
LEMMA QuietMsg ==
  ASSUME IInv, NEW n \in Node, NEW p \in Node, QuietAction(n, p)
  PROVE  MsgInv'
<1>0. UNCHANGED <<cm, events>>
  BY QuietEffect
<1>1. CASE StoreMr(n, p)
  <2>1. msg[p][n] # "unsent"
    BY <1>1 DEF StoreMr, IInv, KeyInv
  <2>2. msg' = [msg EXCEPT ![p][n] = "handled"]
    BY <1>1 DEF StoreMr
  <2>3. \A a, b \in Node : a # p \/ b # n => msg'[a][b] = msg[a][b]
    BY <2>2, EndAt, EndTypes
  <2> QED BY <1>0, <2>1, <2>3 DEF IInv, MsgInv
<1>2. CASE Deliver(n, p) \/ RnrError(n, p)
  <2>1. /\ msg[n][p] # "unsent"
        /\ \E m \in {"delivered", "lost"} : msg' = [msg EXCEPT ![n][p] = m]
    BY <1>2 DEF Deliver, RnrError
  <2>2. \A a, b \in Node : a # n \/ b # p => msg'[a][b] = msg[a][b]
    BY <2>1, EndAt, EndTypes
  <2> QED BY <1>0, <2>1, <2>2 DEF IInv, MsgInv
<1>3. CASE UNCHANGED msg
  BY <1>0, <1>3 DEF IInv, MsgInv
<1>4. StoreMr(n, p) \/ Deliver(n, p) \/ RnrError(n, p) \/ UNCHANGED msg
  BY Zenon DEF QuietAction, Listen, ClearTable, StoreConnecting, InitDone,
     CheckState, PostWrite, Released, CallWrite, CallRelease, Quit, CreateFails, EpollWait,
     LoopExit, EnterCm, LeaveCm, PublishConnected, PollNothing, netVars
<1> QED
  BY <1>1, <1>2, <1>3, <1>4

\* Starting a connection takes an unused identifier to its first phase.
LEMMA StartStep ==
  ASSUME IInv, NEW n \in Node, StartConnect(n)
  PROVE  QueueInv' /\ RoleInv' /\ StartInv' /\ MsgInv'
<1> DEFINE q == peer[n]
<1>1. /\ q \in Node /\ n < q /\ cm[n][q] = "idle" /\ UNCHANGED <<events, msg>>
      /\ \A r \in Node : q <= r => cm[n][r] = "idle"
  <2>1. q \in Node /\ pc[n] = "connect" /\ UNCHANGED <<events, msg>>
    BY DEF StartConnect
  <2>2. n < q /\ \A r \in Node : q <= r => cm[n][r] = "idle"
    BY <2>1 DEF IInv, StartInv
  <2> QED BY <2>1, <2>2, NodeFacts
<1>2. \/ /\ cm' = [cm EXCEPT ![n][q] = "addr"]
         /\ pc' = [pc EXCEPT ![n] = "store"] /\ UNCHANGED peer
      \/ /\ UNCHANGED <<cm, pc>>
         /\ peer' = [peer EXCEPT ![n] = q + 1]
  BY Zenon DEF StartConnect
<1>3. pc[n] = "connect"
  BY DEF StartConnect
<1> HIDE DEF q
<1>4. CASE UNCHANGED cm
  <2>1. q + 1 > q /\ \A r \in Node : q + 1 <= r => q <= r
    BY <1>1, NodeFacts
  <2>2. StartInv'
    <3>1. peer' = [peer EXCEPT ![n] = q + 1] /\ UNCHANGED pc
      <4>1. cm' # [cm EXCEPT ![n][q] = "addr"]
        BY <1>1, <1>4, EndAt, EndTypes
      <4> QED BY <1>2, <4>1
    <3>2. /\ peer'[n] = q + 1 /\ pc'[n] = "connect"
          /\ \A m \in Node : m # n => peer'[m] = peer[m]
      BY <1>3, <3>1 DEF IInv, TypeOK
    <3>3. n < q + 1
      BY <1>1, NodeFacts
    <3> QED BY <1>1, <1>4, <2>1, <3>1, <3>2, <3>3 DEF IInv, StartInv
  <2> QED BY <1>1, <1>4, <2>2 DEF IInv, QueueInv, RoleInv, MsgInv
<1>5. CASE cm' = [cm EXCEPT ![n][q] = "addr"]
  <2>1. /\ cm'[n][q] = "addr"
        /\ \A a, b \in Node : a # n \/ b # q => cm'[a][b] = cm[a][b]
    BY <1>1, <1>5, EndAt, EndTypes
  <2>2. pc' = [pc EXCEPT ![n] = "store"] /\ UNCHANGED peer
    BY <1>1, <1>2, <2>1
  <2>3. QueueInv'
    BY <1>1, <2>1 DEF IInv, QueueInv
  <2>4. RoleInv'
    BY <1>1, <2>1, NodeFacts DEF IInv, RoleInv, Unrequested
  <2>5. StartInv'
    <3>1. /\ pc'[n] = "store" /\ peer'[n] = q
          /\ \A m \in Node : m # n => pc'[m] = pc[m] /\ peer'[m] = peer[m]
      BY <2>2 DEF IInv, TypeOK, q
    <3>2. \A r \in Node : q < r => cm'[n][r] = "idle"
      BY <1>1, <2>1, NodeFacts
    <3>3. \A m, r \in Node : m # n => cm'[m][r] = cm[m][r]
      BY <2>1
    <3> QED BY <1>1, <3>1, <3>2, <3>3 DEF IInv, StartInv
  <2>6. MsgInv'
    BY <1>1, <2>1 DEF IInv, MsgInv
  <2> QED BY <2>3, <2>4, <2>5, <2>6
<1> QED
  BY <1>2, <1>4, <1>5

\* A handler whose event is not ESTABLISHED, and the phase it leaves behind.
LEMMA HandlerKeeps ==
  ASSUME IInv, NEW n \in Node, NEW p \in Node,
         NEW e \in {"ADDR_RESOLVED", "ROUTE_RESOLVED", "CONNECT_REQUEST",
                    "DISCONNECTED", "CONNECT_ERROR", "OTHER"},
         Take(n, p, e),
         UNCHANGED <<mainVars, msg>>,
         NEW phase,
         cm' = cm \/ cm' = [cm EXCEPT ![n][p] = phase],
         \/ e = "ADDR_RESOLVED" /\ phase = "route"
         \/ e = "ROUTE_RESOLVED" /\ phase = "connect"
         \/ e = "CONNECT_REQUEST" /\ phase = "accepted"
         \/ phase = cm[n][p]
  PROVE  QueueInv' /\ RoleInv' /\ StartInv' /\ MsgInv'
<1>1. /\ events[n][p] = <<e>> /\ events'[n][p] = <<>>
      /\ \A a, b \in Node : a # n \/ b # p => events'[a][b] = events[a][b]
  BY TakeEffect DEF IInv
<1>2. /\ e = "ADDR_RESOLVED" => cm[n][p] = "addr_done"
      /\ e = "ROUTE_RESOLVED" => cm[n][p] = "route_done"
      /\ e = "CONNECT_REQUEST" => cm[n][p] = "request"
      /\ e = "DISCONNECTED" => cm[n][p] = "closed"
      /\ e \in {"OTHER", "CONNECT_ERROR"} => cm[n][p] = "failed"
  BY TakeEffect DEF IInv
<1>3. /\ cm'[n][p] \in {cm[n][p], phase}
      /\ \A a, b \in Node : a # n \/ b # p => cm'[a][b] = cm[a][b]
  BY EndAt, EndTypes
<1>4. QueueInv'
  BY <1>1, <1>3 DEF IInv, QueueInv
<1>5. RoleInv' /\ StartInv'
  BY <1>2, <1>3, RoleKept DEF Unrequested
<1>6. MsgInv'
  BY <1>1, <1>2, <1>3 DEF IInv, MsgInv
<1> QED
  BY <1>4, <1>5, <1>6

\* A handler keeps the invariants on phases, queues and INIT messages.
LEMMA HandlerStep ==
  ASSUME IInv, NEW n \in Node, NEW p \in Node,
         \/ OnAddrResolved(n, p) \/ OnRouteResolved(n, p)
         \/ OnConnectRequest(n, p) \/ OnEstablished(n, p)
         \/ OnDisconnected(n, p) \/ OnConnectError(n, p) \/ OnOtherEvent(n, p)
  PROVE  QueueInv' /\ RoleInv' /\ StartInv' /\ MsgInv'
<1>1. CASE OnAddrResolved(n, p)
  <2>1. /\ Take(n, p, "ADDR_RESOLVED") /\ UNCHANGED <<mainVars, msg>>
        /\ cm' = cm \/ cm' = [cm EXCEPT ![n][p] = "route"]
    BY <1>1, Zenon DEF OnAddrResolved, GiveUp
  <2> QED BY <2>1, HandlerKeeps
<1>2. CASE OnRouteResolved(n, p)
  <2>1. /\ Take(n, p, "ROUTE_RESOLVED") /\ UNCHANGED <<mainVars, msg>>
        /\ cm' = cm \/ cm' = [cm EXCEPT ![n][p] = "connect"]
    BY <1>2, Zenon DEF OnRouteResolved, GiveUp
  <2> QED BY <2>1, HandlerKeeps
<1>3. CASE OnConnectRequest(n, p)
  <2>1. /\ Take(n, p, "CONNECT_REQUEST") /\ UNCHANGED <<mainVars, msg>>
        /\ cm' = cm \/ cm' = [cm EXCEPT ![n][p] = "accepted"]
    BY <1>3, Zenon DEF OnConnectRequest, GiveUp
  <2> QED BY <2>1, HandlerKeeps
<1>4. CASE OnEstablished(n, p)
  <2>1. /\ Take(n, p, "ESTABLISHED") /\ UNCHANGED <<mainVars, cm>>
        /\ msg' = msg \/ msg' = [msg EXCEPT ![n][p] = "sent"]
    BY <1>4, Zenon DEF OnEstablished
  <2>2. /\ \/ events[n][p] = <<"ESTABLISHED">> /\ events'[n][p] = <<>>
           \/ /\ cm[n][p] = "closed"
              /\ events[n][p] = <<"ESTABLISHED", "DISCONNECTED">>
              /\ events'[n][p] = <<"DISCONNECTED">>
        /\ \A a, b \in Node : a # n \/ b # p => events'[a][b] = events[a][b]
        /\ cm[n][p] \in {"est", "closed"}
    BY <2>1, TakeEffect DEF IInv
  <2>3. \A a, b \in Node : a # n \/ b # p => msg'[a][b] = msg[a][b]
    BY <2>1, EndAt, EndTypes
  <2>4. QueueInv'
    BY <2>1, <2>2 DEF IInv, QueueInv
  <2>5. RoleInv' /\ StartInv'
    BY <2>1 DEF IInv, RoleInv, StartInv, mainVars
  <2>6. MsgInv'
    <3>1. MsgInv /\ UNCHANGED cm
      BY <2>1 DEF IInv
    <3>2. events'[n][p] \in {<<>>, <<"DISCONNECTED">>}
      BY <2>2
    <3>3. ASSUME NEW a \in Node, NEW b \in Node, msg'[a][b] # "unsent"
          PROVE  /\ cm[a][b] \in {"est", "closed"}
                 /\ events'[a][b] \in {<<>>, <<"DISCONNECTED">>}
      <4>1. CASE a = n /\ b = p BY <2>2, <3>2, <4>1
      <4>2. CASE a # n \/ b # p BY <2>2, <2>3, <3>1, <3>3, <4>2 DEF MsgInv
      <4> QED BY <4>1, <4>2
    <3> QED BY <3>1, <3>3 DEF MsgInv
  <2> QED BY <2>4, <2>5, <2>6
<1>5. CASE OnDisconnected(n, p)
  <2>1. Take(n, p, "DISCONNECTED") /\ UNCHANGED <<mainVars, msg, cm>>
    BY <1>5, Zenon DEF OnDisconnected
  <2> QED BY <2>1, HandlerKeeps
<1>6. CASE OnConnectError(n, p)
  <2>1. Take(n, p, "CONNECT_ERROR") /\ UNCHANGED <<mainVars, msg, cm>>
    BY <1>6, Zenon DEF OnConnectError
  <2> QED BY <2>1, HandlerKeeps
<1>7. CASE OnOtherEvent(n, p)
  <2>1. Take(n, p, "OTHER") /\ UNCHANGED <<mainVars, msg, cm>>
    BY <1>7, Zenon DEF OnOtherEvent
  <2> QED BY <2>1, HandlerKeeps
<1> QED
  BY <1>1, <1>2, <1>3, <1>4, <1>5, <1>6, <1>7

\* The fabric moves an identifier whose queue holds nothing, or only
\* ESTABLISHED, on to the phase of the event it queues.
LEMMA FabricMoves ==
  ASSUME IInv, NEW n \in Node, NEW p \in Node, NEW e, NEW phase,
         Queue(n, p, e, phase), UNCHANGED <<mainVars, msg>>,
         \/ cm[n][p] = "addr" /\ phase = "addr_done" /\ e = "ADDR_RESOLVED"
         \/ cm[n][p] = "route" /\ phase = "route_done" /\ e = "ROUTE_RESOLVED"
         \/ /\ cm[n][p] \in {"addr", "route", "connect", "requested", "accepted"}
            /\ phase = "failed" /\ e \in {"OTHER", "CONNECT_ERROR"}
         \/ /\ cm[n][p] \in {"requested", "accepted"}
            /\ phase = "est" /\ e = "ESTABLISHED"
         \/ cm[n][p] = "est" /\ phase = "closed" /\ e = "DISCONNECTED"
  PROVE  QueueInv' /\ RoleInv' /\ StartInv' /\ MsgInv'
<1>1. /\ cm'[n][p] = phase
      /\ \A a, b \in Node : a # n \/ b # p =>
           cm'[a][b] = cm[a][b] /\ events'[a][b] = events[a][b]
      /\ events[n][p] = <<>> => events'[n][p] = <<e>>
      /\ events[n][p] = <<"ESTABLISHED">> /\ e = "DISCONNECTED" =>
           events'[n][p] = <<"ESTABLISHED", "DISCONNECTED">>
  BY QueueEffect DEF IInv
<1>2. \/ events[n][p] = <<>>
      \/ cm[n][p] = "est" /\ events[n][p] = <<"ESTABLISHED">>
  BY DEF IInv, QueueInv
<1>3. \/ events'[n][p] = <<e>>
      \/ cm[n][p] = "est" /\ events'[n][p] = <<"ESTABLISHED", "DISCONNECTED">>
  BY <1>1, <1>2
<1>4. QueueInv'
  BY <1>1, <1>3 DEF IInv, QueueInv
<1>5. RoleInv' /\ StartInv'
  BY <1>1, RoleKept DEF Unrequested
<1>6. MsgInv'
  <2>1. cm[n][p] # "est" => msg[n][p] = "unsent"
    BY DEF IInv, MsgInv
  <2>2. events[n][p] = <<"ESTABLISHED">> => msg[n][p] = "unsent"
    BY DEF IInv, MsgInv
  <2> QED BY <1>1, <1>2, <2>1, <2>2 DEF IInv, MsgInv
<1> QED
  BY <1>4, <1>5, <1>6

\* The fabric keeps the invariants on phases, queues and INIT messages.
LEMMA FabricStep ==
  ASSUME IInv, NEW n \in Node, NEW p \in Node,
         \/ CmResolve(n, p) \/ CmRequest(n, p) \/ CmRefuse(n, p)
         \/ CmEstablish(n, p) \/ CmAbandon(n, p) \/ CmDisconnect(n, p)
  PROVE  QueueInv' /\ RoleInv' /\ StartInv' /\ MsgInv'
<1>1. CASE CmRequest(n, p)
  <2>1. /\ cm[n][p] = "connect" /\ UNCHANGED <<mainVars, msg>>
        /\ cm' = [cm EXCEPT ![n][p] = "requested", ![p][n] = "request"]
        /\ events' = [events EXCEPT ![p][n] = Append(events[p][n], "CONNECT_REQUEST")]
    BY <1>1 DEF CmRequest, IInv, TypeOK
  <2>2. n < p /\ cm[p][n] = "idle"
    BY <2>1 DEF IInv, RoleInv, Unrequested
  <2>3. n # p
    BY <2>2, NodeFacts
  <2>4. events[p][n] = <<>>
    BY <2>2 DEF IInv, QueueInv
  <2>5. /\ cm'[n][p] = "requested" /\ cm'[p][n] = "request"
        /\ \A a, b \in Node : (a # n \/ b # p) /\ (a # p \/ b # n) =>
             cm'[a][b] = cm[a][b]
    BY <2>1, <2>3 DEF IInv, TypeOK
  <2>6. /\ events'[p][n] = <<"CONNECT_REQUEST">>
        /\ \A a, b \in Node : a # p \/ b # n => events'[a][b] = events[a][b]
    <3>1. Append(<<>>, "CONNECT_REQUEST") = <<"CONNECT_REQUEST">>
      OBVIOUS
    <3> QED BY <2>1, <2>4, <3>1, EndAt, EndTypes
  <2>7. events[n][p] = <<>>
    BY <2>1 DEF IInv, QueueInv
  <2>8. QueueInv'
    BY <2>3, <2>5, <2>6, <2>7 DEF IInv, QueueInv
  <2>9. RoleInv'
    BY <2>2, <2>3, <2>5, NodeFacts DEF IInv, RoleInv, Unrequested
  <2>10. StartInv'
    <3>1. \A m, r \in Node : cm'[m][r] # "idle" => cm[m][r] # "idle" \/ (m = p /\ r = n)
      BY <2>1, <2>5
    <3>2. pc' = pc /\ peer' = peer
      BY <2>1 DEF mainVars
    <3>3. ~(p < n) /\ \A k \in Nat : p < k => ~(k <= n) /\ ~(k < n)
      BY <2>2, NodeFacts
    <3>4. \A m \in Node : peer[m] \in Nat
      BY NAssumption DEF IInv, TypeOK
    <3> QED BY <3>1, <3>2, <3>3, <3>4 DEF IInv, StartInv
  <2>11. MsgInv'
    <3>1. msg[n][p] = "unsent" /\ msg[p][n] = "unsent" /\ msg' = msg
      BY <2>1, <2>2 DEF IInv, MsgInv
    <3>2. ASSUME NEW a \in Node, NEW b \in Node, msg[a][b] # "unsent"
          PROVE  cm'[a][b] = cm[a][b] /\ events'[a][b] = events[a][b]
      BY <2>5, <2>6, <3>1, <3>2
    <3> QED BY <3>1, <3>2 DEF IInv, MsgInv
  <2> QED BY <2>8, <2>9, <2>10, <2>11
<1>2. CASE CmResolve(n, p)
  <2>1. UNCHANGED <<mainVars, msg>>
    BY <1>2, Zenon DEF CmResolve
  <2>2. \/ cm[n][p] = "addr" /\ Queue(n, p, "ADDR_RESOLVED", "addr_done")
        \/ cm[n][p] = "addr" /\ Queue(n, p, "OTHER", "failed")
        \/ cm[n][p] = "route" /\ Queue(n, p, "ROUTE_RESOLVED", "route_done")
        \/ cm[n][p] = "route" /\ Queue(n, p, "OTHER", "failed")
    BY <1>2, Zenon DEF CmResolve
  <2> QED BY <2>1, <2>2, FabricMoves
<1>3. CASE CmRefuse(n, p) \/ CmAbandon(n, p)
  <2>1. /\ UNCHANGED <<mainVars, msg>>
        /\ cm[n][p] \in {"connect", "requested", "accepted"}
        /\ Queue(n, p, "OTHER", "failed") \/ Queue(n, p, "CONNECT_ERROR", "failed")
    BY <1>3 DEF CmRefuse, CmAbandon
  <2> QED BY <2>1, FabricMoves
<1>4. CASE CmEstablish(n, p)
  <2>1. /\ UNCHANGED <<mainVars, msg>> /\ cm[n][p] \in {"requested", "accepted"}
        /\ Queue(n, p, "ESTABLISHED", "est")
    BY <1>4 DEF CmEstablish
  <2> QED BY <2>1, FabricMoves
<1>5. CASE CmDisconnect(n, p)
  <2>1. /\ UNCHANGED <<mainVars, msg>> /\ cm[n][p] = "est"
        /\ Queue(n, p, "DISCONNECTED", "closed")
    BY <1>5 DEF CmDisconnect
  <2> QED BY <2>1, FabricMoves
<1> QED
  BY <1>1, <1>2, <1>3, <1>4, <1>5

\* Every step keeps the invariants on phases, queues and INIT messages.
LEMMA PhaseStep ==
  ASSUME IInv, NEW n \in Node, NEW p \in Node, Action(n, p)
  PROVE  QueueInv' /\ RoleInv' /\ StartInv' /\ MsgInv'
<1>1. CASE QuietAction(n, p)
  <2>1. QueueInv' /\ RoleInv'
    BY <1>1, QuietEffect DEF IInv, QueueInv, RoleInv
  <2> QED BY <1>1, <2>1, QuietStart, QuietMsg
<1>2. CASE StartConnect(n)
  BY <1>2, StartStep
<1>3. CASE \/ OnAddrResolved(n, p) \/ OnRouteResolved(n, p)
           \/ OnConnectRequest(n, p) \/ OnEstablished(n, p)
           \/ OnDisconnected(n, p) \/ OnConnectError(n, p) \/ OnOtherEvent(n, p)
  BY <1>3, HandlerStep
<1>4. CASE \/ CmResolve(n, p) \/ CmRequest(n, p) \/ CmRefuse(n, p)
           \/ CmEstablish(n, p) \/ CmAbandon(n, p) \/ CmDisconnect(n, p)
  BY <1>4, FabricStep
<1> QED
  BY <1>1, <1>2, <1>3, <1>4, Zenon DEF Action, QuietAction

-----------------------------------------------------------------------------
(* Queue pairs, receive requests and keys *)

\* A queue pair that was built stays built, or is destroyed.
LEMMA BuiltForGood ==
  ASSUME IInv, NEW n \in Node, NEW p \in Node, Action(n, p)
  PROVE  \A a, b \in Node : qp[a][b] # "none" => qp'[a][b] # "none"
<1>1. \/ UNCHANGED qp
      \/ qp' = [qp EXCEPT ![n][p] = "ready"]
      \/ qp' = [qp EXCEPT ![n][p] = "destroyed"]
  BY Zenon DEF Action, Listen, ClearTable, StartConnect, StoreConnecting, InitDone,
     CheckState, PostWrite, Released, CallWrite, CallRelease, Quit, CreateFails, EpollWait,
     LoopExit, EnterCm, LeaveCm, OnAddrResolved, OnRouteResolved,
     OnConnectRequest, OnEstablished, OnDisconnected, OnConnectError,
     OnOtherEvent, StoreMr, PublishConnected, PollNothing, CmResolve, CmRequest,
     CmRefuse, CmEstablish, CmAbandon, CmDisconnect, Deliver, RnrError, GiveUp, transVars
<1>2. CASE qp' = [qp EXCEPT ![n][p] = "ready"]
  <2>1. /\ qp'[n][p] = "ready"
        /\ \A a, b \in Node : a # n \/ b # p => qp'[a][b] = qp[a][b]
    BY <1>2, EndAt, EndTypes
  <2> QED BY <2>1
<1>3. CASE qp' = [qp EXCEPT ![n][p] = "destroyed"]
  <2>1. /\ qp'[n][p] = "destroyed"
        /\ \A a, b \in Node : a # n \/ b # p => qp'[a][b] = qp[a][b]
    BY <1>3, EndAt, EndTypes
  <2> QED BY <2>1
<1> QED
  BY <1>1, <1>2, <1>3

\* An identifier that moves on has the queue pairs its new phase needs.
LEMMA BuiltKept ==
  ASSUME IInv, NEW n \in Node, NEW p \in Node, Action(n, p), NEW phase,
         cm' = cm \/ cm' = [cm EXCEPT ![n][p] = phase],
         phase \in {"connect", "requested", "accepted"} => qp'[n][p] # "none",
         phase \in {"est", "closed"} => qp[n][p] # "none" /\ qp[p][n] # "none"
  PROVE  BuiltInv'
<1>1. \A a, b \in Node : qp[a][b] # "none" => qp'[a][b] # "none"
  BY BuiltForGood
<1>2. /\ cm'[n][p] \in {cm[n][p], phase}
      /\ \A a, b \in Node : a # n \/ b # p => cm'[a][b] = cm[a][b]
  BY EndAt, EndTypes
<1> QED
  BY <1>1, <1>2 DEF IInv, BuiltInv

\* Every step keeps BuiltInv: no phase is entered before its queue pairs exist.
LEMMA BuiltStep ==
  ASSUME IInv, NEW n \in Node, NEW p \in Node, Action(n, p)
  PROVE  BuiltInv'
<1>1. CASE UNCHANGED cm
  BY <1>1, BuiltForGood DEF IInv, BuiltInv
<1>2. CASE StartConnect(n)
  <2>1. peer[n] \in Node /\ (cm' = cm \/ cm' = [cm EXCEPT ![n][peer[n]] = "addr"])
    BY <1>2, Zenon DEF StartConnect
  <2>2. Action(n, peer[n])
    BY <1>2 DEF Action
  <2> QED BY <2>1, <2>2, BuiltKept
<1>3. CASE OnAddrResolved(n, p)
  <2>1. cm' = cm \/ cm' = [cm EXCEPT ![n][p] = "route"]
    BY <1>3, Zenon DEF OnAddrResolved, GiveUp
  <2> QED BY <2>1, BuiltKept
<1>4. CASE OnRouteResolved(n, p)
  <2>1. \/ cm' = cm
        \/ cm' = [cm EXCEPT ![n][p] = "connect"] /\ qp' = [qp EXCEPT ![n][p] = "ready"]
    BY <1>4, Zenon DEF OnRouteResolved, GiveUp
  <2>2. qp' = [qp EXCEPT ![n][p] = "ready"] => qp'[n][p] = "ready"
    BY EndAt, EndTypes
  <2> QED BY <1>1, <2>1, <2>2, BuiltKept
<1>5. CASE OnConnectRequest(n, p)
  <2>1. \/ cm' = cm
        \/ cm' = [cm EXCEPT ![n][p] = "accepted"] /\ qp' = [qp EXCEPT ![n][p] = "ready"]
    BY <1>5, Zenon DEF OnConnectRequest, GiveUp
  <2>2. qp' = [qp EXCEPT ![n][p] = "ready"] => qp'[n][p] = "ready"
    BY EndAt, EndTypes
  <2> QED BY <1>1, <2>1, <2>2, BuiltKept
<1>6. CASE CmResolve(n, p)
  <2>1. \/ cm' = [cm EXCEPT ![n][p] = "addr_done"]
        \/ cm' = [cm EXCEPT ![n][p] = "route_done"]
        \/ cm' = [cm EXCEPT ![n][p] = "failed"]
    BY <1>6, Zenon DEF CmResolve, Queue
  <2> QED BY <2>1, BuiltKept
<1>7. CASE CmRequest(n, p)
  <2>1. /\ cm[n][p] = "connect" /\ UNCHANGED qp
        /\ cm' = [cm EXCEPT ![n][p] = "requested", ![p][n] = "request"]
    BY <1>7 DEF CmRequest, transVars
  <2>2. n # p
    BY <2>1, NodeFacts DEF IInv, RoleInv, Unrequested
  <2>3. /\ cm'[n][p] = "requested" /\ cm'[p][n] = "request"
        /\ \A a, b \in Node : (a # n \/ b # p) /\ (a # p \/ b # n) =>
             cm'[a][b] = cm[a][b]
    BY <2>1, <2>2 DEF IInv, TypeOK
  <2>4. ASSUME NEW a \in Node, NEW b \in Node
        PROVE  /\ cm'[a][b] \in {"connect", "accepted", "est", "closed"} =>
                    cm'[a][b] = cm[a][b]
               /\ cm'[a][b] = "requested" => cm[a][b] \in {"connect", "requested"}
    BY <2>1, <2>3
  <2>5. BuiltInv /\ UNCHANGED qp
    BY <2>1 DEF IInv
  <2>6. ASSUME NEW a \in Node, NEW b \in Node
        PROVE  /\ cm'[a][b] \in {"connect", "requested", "accepted"} => qp[a][b] # "none"
               /\ cm'[a][b] \in {"est", "closed"} => qp[a][b] # "none" /\ qp[b][a] # "none"
    BY <2>4, <2>5 DEF BuiltInv
  <2> QED BY <2>5, <2>6 DEF BuiltInv
<1>8. CASE CmRefuse(n, p) \/ CmAbandon(n, p)
  <2>1. cm' = [cm EXCEPT ![n][p] = "failed"]
    BY <1>8 DEF CmRefuse, CmAbandon, Queue
  <2> QED BY <2>1, BuiltKept
<1>9. CASE CmEstablish(n, p)
  <2>1. /\ cm[n][p] \in {"requested", "accepted"}
        /\ cm[p][n] \in {"requested", "accepted", "est"}
        /\ cm' = [cm EXCEPT ![n][p] = "est"]
    BY <1>9 DEF CmEstablish, Queue
  <2>2. qp[n][p] # "none" /\ qp[p][n] # "none"
    BY <2>1 DEF IInv, BuiltInv
  <2> QED BY <2>1, <2>2, BuiltKept
<1>10. CASE CmDisconnect(n, p)
  <2>1. cm[n][p] = "est" /\ cm' = [cm EXCEPT ![n][p] = "closed"]
    BY <1>10 DEF CmDisconnect, Queue
  <2>2. qp[n][p] # "none" /\ qp[p][n] # "none"
    BY <2>1 DEF IInv, BuiltInv
  <2> QED BY <2>1, <2>2, BuiltKept
<1>11. CASE OnEstablished(n, p) \/ OnDisconnected(n, p) \/ OnConnectError(n, p)
            \/ OnOtherEvent(n, p)
  BY <1>1, <1>11 DEF OnEstablished, OnDisconnected, OnConnectError, OnOtherEvent
<1>12. CASE QuietAction(n, p)
  BY <1>1, <1>12, QuietEffect
<1> QED
  BY <1>2, <1>3, <1>4, <1>5, <1>6, <1>7, <1>8, <1>9, <1>10, <1>11, <1>12, Zenon
     DEF Action, QuietAction

\* Which step touches an INIT message, and in which state it finds the message.
LEMMA MsgEffect ==
  ASSUME IInv, NEW n \in Node, NEW p \in Node, Action(n, p)
  PROVE  \/ UNCHANGED msg
         \/ /\ OnEstablished(n, p) /\ msg[n][p] = "unsent" /\ msg'[n][p] = "sent"
            /\ \A a, b \in Node : a # n \/ b # p => msg'[a][b] = msg[a][b]
         \/ /\ Deliver(n, p) /\ msg[n][p] = "sent" /\ msg'[n][p] = "delivered"
            /\ \A a, b \in Node : a # n \/ b # p => msg'[a][b] = msg[a][b]
         \/ /\ RnrError(n, p) /\ msg[n][p] = "sent" /\ msg'[n][p] = "lost"
            /\ \A a, b \in Node : a # n \/ b # p => msg'[a][b] = msg[a][b]
         \/ /\ StoreMr(n, p) /\ msg[p][n] \in {"delivered", "handled"}
            /\ msg'[p][n] = "handled"
            /\ \A a, b \in Node : a # p \/ b # n => msg'[a][b] = msg[a][b]
<1>1. CASE OnEstablished(n, p)
  <2>1. /\ Take(n, p, "ESTABLISHED")
        /\ msg' = msg \/ msg' = [msg EXCEPT ![n][p] = "sent"]
    BY <1>1, Zenon DEF OnEstablished
  <2>2. msg[n][p] = "unsent"
    <3>1. \/ events[n][p] = <<"ESTABLISHED">>
          \/ events[n][p] = <<"ESTABLISHED", "DISCONNECTED">>
      BY <2>1, TakeEffect DEF IInv
    <3> QED BY <3>1 DEF IInv, MsgInv
  <2> QED BY <1>1, <2>1, <2>2, EndAt, EndTypes
<1>2. CASE Deliver(n, p)
  <2>1. msg[n][p] = "sent" /\ msg' = [msg EXCEPT ![n][p] = "delivered"]
    BY <1>2 DEF Deliver
  <2> QED BY <1>2, <2>1, EndAt, EndTypes
<1>5. CASE RnrError(n, p)
  <2>1. msg[n][p] = "sent" /\ msg' = [msg EXCEPT ![n][p] = "lost"]
    BY <1>5 DEF RnrError
  <2> QED BY <1>5, <2>1, EndAt, EndTypes
<1>3. CASE StoreMr(n, p)
  <2>1. <<"cq", p>> \in batch[n] /\ msg' = [msg EXCEPT ![p][n] = "handled"]
    BY <1>3 DEF StoreMr
  <2>2. msg[p][n] \in {"delivered", "handled"}
    BY <2>1 DEF IInv, KeyInv
  <2> QED BY <1>3, <2>1, <2>2, EndAt, EndTypes
<1>4. OnEstablished(n, p) \/ Deliver(n, p) \/ RnrError(n, p) \/ StoreMr(n, p) \/ UNCHANGED msg
  BY Zenon DEF Action, Listen, ClearTable, StartConnect, StoreConnecting, InitDone,
     CheckState, PostWrite, Released, CallWrite, CallRelease, Quit, CreateFails, EpollWait,
     LoopExit, EnterCm, LeaveCm, OnAddrResolved, OnRouteResolved,
     OnConnectRequest, OnDisconnected, OnConnectError,
     OnOtherEvent, PublishConnected, PollNothing, CmResolve, CmRequest,
     CmRefuse, CmEstablish, CmAbandon, CmDisconnect, netVars
<1> QED
  BY <1>1, <1>2, <1>3, <1>4, <1>5

\* Receive requests: posted with the queue pair, consumed by Deliver.
LEMMA RecvStep ==
  ASSUME IInv, NEW n \in Node, NEW p \in Node, Action(n, p)
  PROVE  RecvInv'
<1>1. ASSUME NEW a \in Node, NEW b \in Node, msg'[b][a] \in {"unsent", "sent"}
      PROVE  msg[b][a] \in {"unsent", "sent"}
  <2>1. CASE UNCHANGED msg
    BY <1>1, <2>1
  <2>2. ASSUME NEW c \in Node, NEW d \in Node,
               msg'[c][d] \notin {"unsent", "sent"} \/ msg[c][d] = "unsent",
               \A x, y \in Node : x # c \/ y # d => msg'[x][y] = msg[x][y]
        PROVE  msg[b][a] \in {"unsent", "sent"}
    <3>1. CASE b = c /\ a = d BY <1>1, <2>2, <3>1
    <3>2. CASE b # c \/ a # d BY <1>1, <2>2, <3>2
    <3> QED BY <3>1, <3>2
  <2> QED BY <2>1, <2>2, MsgEffect
<1>0. \A a, b \in Node : msg[a][b] = "lost" => msg'[a][b] = "lost"
  BY MsgEffect
<1>2. CASE OnRouteResolved(n, p) \/ OnConnectRequest(n, p)
  <2>1. \/ UNCHANGED <<qp, recvs, recv_errors>>
        \/ /\ \/ qp' = [qp EXCEPT ![n][p] = "ready"]
              \/ qp' = [qp EXCEPT ![n][p] = "destroyed"]
           /\ PrePostRecv(n, p)
    BY <1>2, Zenon DEF OnRouteResolved, OnConnectRequest, GiveUp
  <2>2. CASE UNCHANGED <<qp, recvs, recv_errors>>
    BY <1>0, <1>1, <2>2 DEF IInv, RecvInv
  <2>3. CASE /\ \/ qp' = [qp EXCEPT ![n][p] = "ready"]
                \/ qp' = [qp EXCEPT ![n][p] = "destroyed"]
             /\ PrePostRecv(n, p)
    <3>0. /\ PrePostRecv(n, p) /\ qp \in [Node -> [Node -> QpState]]
          /\ recvs \in [Node -> [Node -> 0 .. 2]]
          /\ recv_errors \in [Node -> [Node -> 0 .. 2]]
      BY <2>3, EndTypes
    <3>1. /\ recvs'[n][p] + recv_errors'[n][p] = 2
          /\ \A a, b \in Node : a # n \/ b # p =>
               recvs'[a][b] = recvs[a][b] /\ recv_errors'[a][b] = recv_errors[a][b]
      BY <3>0, PrePostTypes
    <3>2. \A a, b \in Node : a # n \/ b # p => qp'[a][b] = qp[a][b]
      <4>1. ASSUME NEW v, qp' = [qp EXCEPT ![n][p] = v]
            PROVE  \A a, b \in Node : a # n \/ b # p => qp'[a][b] = qp[a][b]
        BY <3>0, <4>1, EndAt
      <4> QED BY <2>3, <4>1
    <3> QED BY <1>0, <1>1, <3>1, <3>2 DEF IInv, RecvInv
  <2> QED BY <2>1, <2>2, <2>3
<1>3. CASE OnDisconnected(n, p)
  <2>1. UNCHANGED <<recvs, recv_errors>> /\ qp' = [qp EXCEPT ![n][p] = "destroyed"]
    BY <1>3 DEF OnDisconnected
  <2>2. \A a, b \in Node : qp'[a][b] = "ready" => qp[a][b] = "ready"
    <3>1. /\ qp'[n][p] = "destroyed"
          /\ \A a, b \in Node : a # n \/ b # p => qp'[a][b] = qp[a][b]
      BY <2>1, EndAt, EndTypes
    <3> QED BY <3>1
  <2> QED BY <1>0, <1>1, <2>1, <2>2 DEF IInv, RecvInv
<1>4. CASE Deliver(n, p)
  <2>1. UNCHANGED <<qp, recv_errors>> /\ recvs' = [recvs EXCEPT ![p][n] = recvs[p][n] - 1]
    BY <1>4 DEF Deliver, IInv, TypeOK
  <2>2. \A a, b \in Node : a # p \/ b # n => recvs'[a][b] = recvs[a][b]
    BY <2>1, EndAt, EndTypes
  <2>3. msg' = [msg EXCEPT ![n][p] = "delivered"]
    BY <1>4 DEF Deliver
  <2>4. msg'[n][p] = "delivered"
    BY <2>3, EndAt, EndTypes
  <2> QED BY <1>0, <1>1, <2>1, <2>2, <2>4 DEF IInv, RecvInv
<1>7. CASE RnrError(n, p)
  <2>1. /\ UNCHANGED <<qp, recv_errors>> /\ recvs' = [recvs EXCEPT ![n][p] = 0]
        /\ msg' = [msg EXCEPT ![n][p] = "lost"]
    BY <1>7 DEF RnrError
  <2>2. \A a, b \in Node : a # n \/ b # p => recvs'[a][b] = recvs[a][b]
    BY <2>1, EndAt, EndTypes
  <2>3. msg'[n][p] = "lost"
    BY <2>1, EndAt, EndTypes
  <2> QED BY <1>0, <1>1, <2>1, <2>2, <2>3 DEF IInv, RecvInv
<1>5. CASE UNCHANGED <<qp, recvs, recv_errors>>
  BY <1>0, <1>1, <1>5 DEF IInv, RecvInv
<1>6. \/ OnRouteResolved(n, p) \/ OnConnectRequest(n, p)
      \/ OnDisconnected(n, p) \/ Deliver(n, p) \/ RnrError(n, p)
      \/ UNCHANGED <<qp, recvs, recv_errors>>
  BY Zenon DEF Action, Listen, ClearTable, StartConnect, StoreConnecting, InitDone,
     CheckState, PostWrite, Released, CallWrite, CallRelease, Quit, CreateFails, EpollWait,
     LoopExit, EnterCm, LeaveCm, OnAddrResolved, OnEstablished, OnConnectError,
     OnOtherEvent, StoreMr, PublishConnected, PollNothing, CmResolve, CmRequest,
     CmRefuse, CmEstablish, CmAbandon, CmDisconnect, GiveUp, transVars
<1> QED
  BY <1>2, <1>3, <1>4, <1>5, <1>6, <1>7

\* Entering or leaving a handler that is not the completion handler.
LEMMA CurKept ==
  ASSUME IInv, NEW n \in Node,
         \/ cur' = cur
         \/ cur' = [cur EXCEPT ![n] = <<"exited", 0>>]
         \/ cur' = [cur EXCEPT ![n] = <<"idle", 0>>]
         \/ \E c \in Node : cur' = [cur EXCEPT ![n] = <<"cm", c>>]
  PROVE  \A a, b \in Node : cur'[a] = <<"cq", b>> => cur[a] = <<"cq", b>>
<1>1. ASSUME NEW v, cur' = [cur EXCEPT ![n] = v],
             \A b \in Node : v # <<"cq", b>>
      PROVE  \A a, b \in Node : cur'[a] = <<"cq", b>> => cur[a] = <<"cq", b>>
  <2>1. cur'[n] = v /\ \A a \in Node : a # n => cur'[a] = cur[a]
    BY <1>1 DEF IInv, TypeOK
  <2> QED BY <1>1, <2>1
<1>2. \A b : /\ <<"exited", 0>> # <<"cq", b>> /\ <<"idle", 0>> # <<"cq", b>>
             /\ \A c : <<"cm", c>> # <<"cq", b>>
  OBVIOUS
<1> QED
  BY <1>1, <1>2

\* What a step may do: serve a delivered message, store a key that came with a
\* message, publish a transport whose key is stored, let such a caller through.
LEMMA KeyKept ==
  ASSUME IInv,
         \A a, b \in Node : <<"cq", b>> \in batch'[a] =>
           <<"cq", b>> \in batch[a] \/ msg[b][a] = "delivered",
         \A a, b \in Node : cur'[a] = <<"cq", b>> =>
           cur[a] = <<"cq", b>> \/ dram_mr'[a][b],
         \A a, b \in Node : trans_state'[a][b] = "CONNECTED" =>
           trans_state[a][b] = "CONNECTED" \/ dram_mr'[a][b],
         \A a, b \in Node : msg[b][a] \in {"delivered", "handled"} =>
           msg'[b][a] \in {msg[b][a], "handled"},
         \A a, b \in Node : dram_mr[a][b] => dram_mr'[a][b],
         \A a, b \in Node : dram_mr'[a][b] => dram_mr[a][b] \/ msg'[b][a] = "handled",
         \A a \in Node : pc'[a] = "post" =>
           peer'[a] = peer[a] /\ (pc[a] = "post" \/ dram_mr[a][peer[a]])
  PROVE  KeyInv'
<1> SUFFICES ASSUME NEW a \in Node, NEW b \in Node
             PROVE  /\ <<"cq", b>> \in batch'[a] => msg'[b][a] \in {"delivered", "handled"}
                    /\ cur'[a] = <<"cq", b>> => dram_mr'[a][b]
                    /\ trans_state'[a][b] = "CONNECTED" => dram_mr'[a][b]
                    /\ dram_mr'[a][b] => msg'[b][a] = "handled"
                    /\ pc'[a] = "post" /\ peer'[a] = b => dram_mr'[a][b]
  BY DEF KeyInv
<1>1. /\ <<"cq", b>> \in batch[a] => msg[b][a] \in {"delivered", "handled"}
      /\ cur[a] = <<"cq", b>> => dram_mr[a][b]
      /\ trans_state[a][b] = "CONNECTED" => dram_mr[a][b]
      /\ dram_mr[a][b] => msg[b][a] = "handled"
      /\ pc[a] = "post" /\ peer[a] = b => dram_mr[a][b]
  BY DEF IInv, KeyInv
<1>2. msg[b][a] \in {"delivered", "handled"} => msg'[b][a] \in {msg[b][a], "handled"}
  OBVIOUS
<1>3. <<"cq", b>> \in batch'[a] => msg'[b][a] \in {"delivered", "handled"}
  BY <1>1, <1>2
<1>4. cur'[a] = <<"cq", b>> => dram_mr'[a][b]
  BY <1>1
<1>5. trans_state'[a][b] = "CONNECTED" => dram_mr'[a][b]
  BY <1>1
<1>6. dram_mr'[a][b] => msg'[b][a] = "handled"
  BY <1>1, <1>2
<1>7. pc'[a] = "post" /\ peer'[a] = b => dram_mr'[a][b]
  BY <1>1
<1> QED
  BY <1>3, <1>4, <1>5, <1>6, <1>7

\* The main thread publishes no key; it is let through only to a CONNECTED peer.
LEMMA KeyMain ==
  ASSUME IInv, NEW n \in Node, NEW p \in Node,
         \/ Listen(n) \/ ClearTable(n) \/ StartConnect(n) \/ StoreConnecting(n)
         \/ InitDone(n) \/ CheckState(n) \/ PostWrite(n) \/ Released(n)
         \/ CallWrite(n, p) \/ CallRelease(n) \/ Quit(n) \/ CreateFails(n)
  PROVE  KeyInv'
<1>1. UNCHANGED <<batch, cur, dram_mr, msg>>
  BY Zenon DEF Listen, ClearTable, StartConnect, StoreConnecting, InitDone,
     CheckState, PostWrite, Released, CallWrite, CallRelease, Quit, CreateFails,
     loopVars, transVars, netVars
<1>2. \A a, b \in Node : trans_state'[a][b] = "CONNECTED" =>
        trans_state[a][b] = "CONNECTED"
  <2>1. \/ UNCHANGED trans_state
        \/ /\ StartConnect(n) /\ peer[n] \in Node
           /\ trans_state' = [trans_state EXCEPT ![n][peer[n]] = "INIT"]
        \/ /\ StoreConnecting(n)
           /\ trans_state' = [trans_state EXCEPT ![n][peer[n]] = "CONNECTING"]
    BY Zenon DEF Listen, ClearTable, StartConnect, StoreConnecting, InitDone,
       CheckState, PostWrite, Released, CallWrite, CallRelease, Quit, CreateFails, transVars
  <2>2. StoreConnecting(n) => peer[n] \in Node
    BY DEF StoreConnecting, IInv, TargetInv
  <2>3. CASE trans_state' = [trans_state EXCEPT ![n][peer[n]] = "INIT"] /\ peer[n] \in Node
    <3>1. /\ trans_state'[n][peer[n]] = "INIT"
          /\ \A a, b \in Node : a # n \/ b # peer[n] => trans_state'[a][b] = trans_state[a][b]
      BY <2>3, EndAt, EndTypes
    <3> QED BY <3>1
  <2>4. CASE trans_state' = [trans_state EXCEPT ![n][peer[n]] = "CONNECTING"] /\ peer[n] \in Node
    <3>1. /\ trans_state'[n][peer[n]] = "CONNECTING"
          /\ \A a, b \in Node : a # n \/ b # peer[n] => trans_state'[a][b] = trans_state[a][b]
      BY <2>4, EndAt, EndTypes
    <3> QED BY <3>1
  <2> QED BY <2>1, <2>2, <2>3, <2>4
<1>3. ASSUME NEW a \in Node, pc'[a] = "post"
      PROVE  peer'[a] = peer[a] /\ (pc[a] = "post" \/ dram_mr[a][peer[a]])
  <2>1. CASE CheckState(n)
    <3>1. /\ UNCHANGED peer /\ peer[n] \in Node
          /\ \/ pc' = [pc EXCEPT ![n] = "post"] /\ trans_state[n][peer[n]] = "CONNECTED"
             \/ pc' = [pc EXCEPT ![n] = "ready"]
      BY <2>1 DEF CheckState, IInv, TargetInv
    <3>2. trans_state[n][peer[n]] = "CONNECTED" => dram_mr[n][peer[n]]
      BY <3>1 DEF IInv, KeyInv
    <3>3. a # n => pc[a] = "post"
      BY <1>3, <3>1 DEF IInv, TypeOK
    <3>4. a = n => trans_state[n][peer[n]] = "CONNECTED"
      BY <1>3, <3>1 DEF IInv, TypeOK
    <3> QED BY <3>1, <3>2, <3>3, <3>4
  <2>2. CASE CallWrite(n, p)
    <3>1. \/ pc' = [pc EXCEPT ![n] = "check"] /\ peer' = [peer EXCEPT ![n] = p]
          \/ pc' = [pc EXCEPT ![n] = "dead"] /\ UNCHANGED peer
      BY <2>2, Zenon DEF CallWrite
    <3> QED BY <1>3, <3>1 DEF IInv, TypeOK
  <2>3. CASE StartConnect(n)
    <3>1. /\ pc[n] = "connect"
          /\ \/ pc' = [pc EXCEPT ![n] = "store"] /\ UNCHANGED peer
             \/ pc' = pc /\ peer' = [peer EXCEPT ![n] = peer[n] + 1]
      BY <2>3, Zenon DEF StartConnect
    <3> QED BY <1>3, <3>1 DEF IInv, TypeOK
  <2>4. CASE Listen(n) \/ ClearTable(n) \/ StoreConnecting(n) \/ InitDone(n)
             \/ PostWrite(n) \/ Released(n) \/ CallRelease(n) \/ Quit(n) \/ CreateFails(n)
    BY <1>3, <2>4 DEF Listen, ClearTable, StoreConnecting, InitDone, PostWrite,
       Released, CallRelease, Quit, CreateFails, IInv, TypeOK
  <2> QED BY <2>1, <2>2, <2>3, <2>4
<1> QED
  BY <1>1, <1>2, <1>3, KeyKept

\* The epoll thread between handlers, and the completion handler's two steps.
LEMMA KeyLoop ==
  ASSUME IInv, NEW n \in Node, NEW p \in Node,
         \/ EpollWait(n) \/ LoopExit(n) \/ EnterCm(n, p) \/ LeaveCm(n, p)
         \/ PollNothing(n, p) \/ StoreMr(n, p) \/ PublishConnected(n, p)
  PROVE  KeyInv'
<1>0. UNCHANGED <<pc, peer>>
  BY Zenon DEF EpollWait, LoopExit, EnterCm, LeaveCm, PollNothing, StoreMr,
     PublishConnected, mainVars
<1>1. CASE EpollWait(n)
  <2>1. \A b \in Node : <<"cq", b>> \in Ready(n) => msg[b][n] = "delivered"
    BY DEF Ready
  <2>2. batch' = [batch EXCEPT ![n] = Ready(n)] /\ UNCHANGED <<cur, transVars, netVars>>
    BY <1>1 DEF EpollWait
  <2>3. /\ batch'[n] = Ready(n)
        /\ \A a \in Node : a # n => batch'[a] = batch[a]
    BY <2>2 DEF IInv, TypeOK
  <2> QED BY <1>0, <2>1, <2>2, <2>3, KeyKept DEF transVars, netVars
<1>2. CASE LoopExit(n) \/ LeaveCm(n, p) \/ EnterCm(n, p) \/ PollNothing(n, p)
  <2>1. /\ UNCHANGED <<transVars, netVars>>
        /\ \/ UNCHANGED batch
           \/ batch' = [batch EXCEPT ![n] = batch[n] \ {<<"cm", p>>}]
           \/ batch' = [batch EXCEPT ![n] = batch[n] \ {<<"cq", p>>}]
        /\ \/ UNCHANGED cur
           \/ cur' = [cur EXCEPT ![n] = <<"exited", 0>>]
           \/ cur' = [cur EXCEPT ![n] = <<"idle", 0>>]
           \/ cur' = [cur EXCEPT ![n] = <<"cm", p>>]
    BY <1>2 DEF LoopExit, LeaveCm, EnterCm, PollNothing, Idle, Exited, IInv, TypeOK
  <2>2. \A a \in Node : batch'[a] \subseteq batch[a]
    <3>1. ASSUME NEW v, batch' = [batch EXCEPT ![n] = batch[n] \ {v}]
          PROVE  \A a \in Node : batch'[a] \subseteq batch[a]
      BY <3>1, EndTypes
    <3> QED BY <2>1, <3>1, Zenon
  <2>3. \A a, b \in Node : cur'[a] = <<"cq", b>> => cur[a] = <<"cq", b>>
    BY <2>1, CurKept
  <2> QED BY <1>0, <2>1, <2>2, <2>3, KeyKept DEF transVars, netVars
<1>3. CASE StoreMr(n, p)
  <2>1. /\ <<"cq", p>> \in batch[n] /\ UNCHANGED trans_state
        /\ batch' = [batch EXCEPT ![n] = batch[n] \ {<<"cq", p>>}]
        /\ dram_mr' = [dram_mr EXCEPT ![n][p] = TRUE]
        /\ msg' = [msg EXCEPT ![p][n] = "handled"]
        /\ cur' = [cur EXCEPT ![n] = <<"cq", p>>]
    BY <1>3 DEF StoreMr, IInv, TypeOK
  <2>2. \A a \in Node : batch'[a] \subseteq batch[a]
    BY <2>1, EndTypes
  <2>3. /\ dram_mr'[n][p]
        /\ \A a, b \in Node : a # n \/ b # p => dram_mr'[a][b] = dram_mr[a][b]
    BY <2>1, EndAt, EndTypes
  <2>4. /\ msg'[p][n] = "handled"
        /\ \A a, b \in Node : a # p \/ b # n => msg'[a][b] = msg[a][b]
    BY <2>1, EndAt, EndTypes
  <2>5. \A a, b \in Node : cur'[a] = <<"cq", b>> =>
          cur[a] = <<"cq", b>> \/ (a = n /\ b = p)
    BY <2>1 DEF IInv, TypeOK
  <2> QED BY <1>0, <2>1, <2>2, <2>3, <2>4, <2>5, KeyKept
<1>4. CASE PublishConnected(n, p)
  <2>1. /\ cur[n] = <<"cq", p>> /\ UNCHANGED <<batch, dram_mr, msg>>
        /\ trans_state' = [trans_state EXCEPT ![n][p] = "CONNECTED"]
        /\ cur' = [cur EXCEPT ![n] = <<"idle", 0>>]
    BY <1>4 DEF PublishConnected, Idle, netVars
  <2>2. dram_mr[n][p]
    BY <2>1 DEF IInv, KeyInv
  <2>3. \A a, b \in Node : a # n \/ b # p => trans_state'[a][b] = trans_state[a][b]
    BY <2>1, EndAt, EndTypes
  <2>4. \A a, b \in Node : cur'[a] = <<"cq", b>> => cur[a] = <<"cq", b>>
    BY <2>1, CurKept
  <2>5. KeyInv
    BY DEF IInv
  <2>6. ASSUME NEW a \in Node, NEW b \in Node, trans_state'[a][b] = "CONNECTED"
        PROVE  dram_mr[a][b]
    <3>1. CASE a = n /\ b = p BY <2>2, <3>1
    <3>2. CASE a # n \/ b # p
      <4>1. trans_state[a][b] = "CONNECTED"
        BY <2>3, <2>6, <3>2
      <4> QED BY <2>5, <4>1 DEF KeyInv
    <3> QED BY <3>1, <3>2
  <2> QED BY <1>0, <2>1, <2>4, <2>6, KeyKept
<1> QED
  BY <1>1, <1>2, <1>3, <1>4

\* The handlers of CM events store no key and publish no transport.
LEMMA KeyHandler ==
  ASSUME IInv, NEW n \in Node, NEW p \in Node, Action(n, p),
         \/ OnAddrResolved(n, p) \/ OnRouteResolved(n, p)
         \/ OnConnectRequest(n, p) \/ OnEstablished(n, p)
         \/ OnDisconnected(n, p) \/ OnConnectError(n, p) \/ OnOtherEvent(n, p)
  PROVE  KeyInv'
<1>1. UNCHANGED <<pc, peer, batch, dram_mr>>
  BY Zenon DEF OnAddrResolved, OnRouteResolved, OnConnectRequest, OnEstablished,
     OnDisconnected, OnConnectError, OnOtherEvent, mainVars, transVars
<1>2. cur' = cur \/ cur' = [cur EXCEPT ![n] = <<"idle", 0>>]
  BY Zenon DEF OnAddrResolved, OnRouteResolved, OnConnectRequest, OnEstablished,
     OnDisconnected, OnConnectError, OnOtherEvent, GiveUp, ReturnOk, ReturnError,
     Idle
<1>3. \A a, b \in Node : cur'[a] = <<"cq", b>> => cur[a] = <<"cq", b>>
  BY <1>2, CurKept
<1>4. \/ UNCHANGED trans_state
      \/ trans_state' = [trans_state EXCEPT ![n][p] = "INIT"]
      \/ trans_state' = [trans_state EXCEPT ![n][p] = "CONNECTING"]
      \/ trans_state' = [trans_state EXCEPT ![n][p] = "ERROR"]
  BY Zenon DEF OnAddrResolved, OnRouteResolved, OnConnectRequest, OnEstablished,
     OnDisconnected, OnConnectError, OnOtherEvent, GiveUp, transVars
<1>5. \A a, b \in Node : trans_state'[a][b] = "CONNECTED" =>
        trans_state[a][b] = "CONNECTED"
  <2>1. ASSUME NEW v, v # "CONNECTED",
               trans_state' = [trans_state EXCEPT ![n][p] = v]
        PROVE  \A a, b \in Node : trans_state'[a][b] = "CONNECTED" =>
                 trans_state[a][b] = "CONNECTED"
    <3>1. /\ trans_state'[n][p] = v
          /\ \A a, b \in Node : a # n \/ b # p => trans_state'[a][b] = trans_state[a][b]
      BY <2>1, EndAt, EndTypes
    <3> QED BY <2>1, <3>1
  <2> QED BY <1>4, <2>1
<1>6. \A a, b \in Node : msg[b][a] \in {"delivered", "handled"} => msg'[b][a] = msg[b][a]
  <2>1. \/ UNCHANGED msg
        \/ /\ OnEstablished(n, p) /\ msg[n][p] = "unsent"
           /\ \A a, b \in Node : a # n \/ b # p => msg'[a][b] = msg[a][b]
    <3>1. CASE OnEstablished(n, p)
      <4>1. msg' = msg \/ msg' = [msg EXCEPT ![n][p] = "sent"]
        BY <3>1, Zenon DEF OnEstablished
      <4>2. \/ events[n][p] = <<"ESTABLISHED">>
            \/ events[n][p] = <<"ESTABLISHED", "DISCONNECTED">>
        BY <3>1, TakeEffect DEF OnEstablished, IInv
      <4>3. msg[n][p] = "unsent"
        BY <4>2 DEF IInv, MsgInv
      <4> QED BY <3>1, <4>1, <4>3, EndAt, EndTypes
    <3>2. OnEstablished(n, p) \/ UNCHANGED msg
      BY Zenon DEF OnAddrResolved, OnRouteResolved, OnConnectRequest,
         OnDisconnected, OnConnectError, OnOtherEvent
    <3> QED BY <3>1, <3>2
  <2> QED BY <2>1
<1> QED
  BY <1>1, <1>3, <1>5, <1>6, KeyKept

\* The fabric stores no key and publishes no transport.
LEMMA KeyFabric ==
  ASSUME IInv, NEW n \in Node, NEW p \in Node,
         \/ CmResolve(n, p) \/ CmRequest(n, p) \/ CmRefuse(n, p) \/ CmEstablish(n, p)
         \/ CmAbandon(n, p) \/ CmDisconnect(n, p) \/ Deliver(n, p) \/ RnrError(n, p)
  PROVE  KeyInv'
<1>1. UNCHANGED <<pc, peer, batch, cur, trans_state, dram_mr>>
  BY Zenon DEF CmResolve, CmRequest, CmRefuse, CmEstablish, CmAbandon,
     CmDisconnect, Deliver, RnrError, mainVars, loopVars, transVars
<1>2. \/ UNCHANGED msg
      \/ /\ msg[n][p] = "sent"
         /\ \A a, b \in Node : a # n \/ b # p => msg'[a][b] = msg[a][b]
  <2>1. \/ UNCHANGED msg
        \/ msg[n][p] = "sent" /\ msg' = [msg EXCEPT ![n][p] = "delivered"]
        \/ msg[n][p] = "sent" /\ msg' = [msg EXCEPT ![n][p] = "lost"]
    BY Zenon DEF CmResolve, CmRequest, CmRefuse, CmEstablish, CmAbandon,
       CmDisconnect, Deliver, RnrError
  <2>2. ASSUME NEW v, msg' = [msg EXCEPT ![n][p] = v]
        PROVE  \A a, b \in Node : a # n \/ b # p => msg'[a][b] = msg[a][b]
    BY <2>2, EndAt, EndTypes
  <2> QED BY <2>1, <2>2
<1>3. \A a, b \in Node : msg[b][a] \in {"delivered", "handled"} => msg'[b][a] = msg[b][a]
  BY <1>2
<1> QED
  BY <1>1, <1>3, KeyKept

-----------------------------------------------------------------------------
(* The safety invariants *)

\* The inductive invariant holds at the start.
LEMMA IInvInit == Init => IInv
<1> SUFFICES ASSUME Init PROVE IInv
  OBVIOUS
<1>1. TypeOK /\ TargetInv
  BY TypeInit DEF TypeInv
<1>2. QueueInv /\ RoleInv /\ StartInv
  BY DEF Init, QueueInv, RoleInv, StartInv, Unrequested
<1>3. MsgInv /\ BuiltInv /\ RecvInv
  BY DEF Init, MsgInv, BuiltInv, RecvInv
<1>4. KeyInv
  BY DEF Init, KeyInv, Idle
<1> QED
  BY <1>1, <1>2, <1>3, <1>4 DEF IInv

\* Every step keeps the inductive invariant.
LEMMA IInvStep == IInv /\ [Next]_vars => IInv'
<1> SUFFICES ASSUME IInv, [Next]_vars PROVE IInv'
  OBVIOUS
<1>1. TypeOK' /\ TargetInv'
  BY TypeStep DEF TypeInv, IInv
<1>2. CASE UNCHANGED vars
  BY <1>1, <1>2 DEF vars, mainVars, loopVars, transVars, netVars, IInv, QueueInv,
     RoleInv, StartInv, MsgInv, BuiltInv, KeyInv, RecvInv
<1>3. CASE Next
  <2>1. PICK n \in Node, p \in Node : Action(n, p)
    BY <1>3, NextIsAction
  <2>2. KeyInv'
    BY <2>1, KeyMain, KeyLoop, KeyHandler, KeyFabric, Zenon DEF Action
  <2>3. BuiltInv' /\ RecvInv'
    BY <2>1, BuiltStep, RecvStep
  <2>4. QueueInv' /\ RoleInv' /\ StartInv' /\ MsgInv'
    BY <2>1, PhaseStep
  <2> QED BY <1>1, <2>2, <2>3, <2>4 DEF IInv
<1> QED
  BY <1>2, <1>3

\* The inductive invariant holds in every state of the connection set-up.
THEOREM Inductive == Spec => []IInv
  BY IInvInit, IInvStep, PTL DEF Spec

\* A stored key came in an INIT message over a connection built at both ends.
LEMMA HandledMeansBuilt ==
  ASSUME IInv, NEW n \in Node, NEW p \in Node, dram_mr[n][p]
  PROVE  /\ msg[p][n] = "handled" /\ cm[p][n] \in {"est", "closed"}
         /\ qp[n][p] # "none" /\ qp[p][n] # "none"
<1>1. msg[p][n] = "handled"
  BY DEF IInv, KeyInv
<1>2. cm[p][n] \in {"est", "closed"}
  BY <1>1 DEF IInv, MsgInv
<1> QED
  BY <1>1, <1>2 DEF IInv, BuiltInv

\* hmp_rdma_write and hmp_rdma_read use the rkey of a peer only after the
\* peer's INIT message was handled: the epoll thread stores it before it
\* publishes CONNECTED, and hmp_transport_check_state waits for CONNECTED.
THEOREM KeyBeforePost == Spec => []PostHasKey
<1>1. IInv => PostHasKey
  <2> SUFFICES ASSUME IInv, NEW n \in Node, pc[n] = "post"
               PROVE  /\ dram_mr[n][peer[n]]
                      /\ qp[n][peer[n]] # "none" /\ qp[peer[n]][n] # "none"
    BY DEF PostHasKey
  <2>1. peer[n] \in Node
    BY DEF IInv, TargetInv
  <2>2. dram_mr[n][peer[n]]
    BY <2>1 DEF IInv, KeyInv
  <2> QED BY <2>1, <2>2, HandledMeansBuilt
<1> QED
  BY Inductive, <1>1, PTL

\* Both ends call hmp_pre_post_recv before they can be connected, and only the
\* peer's one INIT message takes a request: an INIT message meets an empty receive
\* queue only where both calls of hmp_post_recv failed, or at a queue pair that
\* failed because its own INIT message met an empty queue.
THEOREM ReceivesPosted == Spec => []ReceivePosted
<1>1. IInv => ReceivePosted
  <2> SUFFICES ASSUME IInv, NEW n \in Node, NEW p \in Node,
                      msg[p][n] = "sent", qp[n][p] = "ready", msg[n][p] # "lost"
               PROVE  recvs[n][p] > 0 \/ recv_errors[n][p] = 2
    BY DEF ReceivePosted
  <2>1. recvs[n][p] + recv_errors[n][p] = 2
    BY DEF IInv, RecvInv
  <2>2. recvs[n][p] \in 0 .. 2 /\ recv_errors[n][p] \in 0 .. 2
    BY DEF IInv, TypeOK
  <2> QED BY <2>1, <2>2
<1> QED
  BY Inductive, <1>1, PTL

\* hmp_handle_mr_msg publishes CONNECTED only when the peer's half of the
\* handshake is over too.
THEOREM ConnectedIsMutual == Spec => []ConnectedMeansHandshake
<1>1. IInv => ConnectedMeansHandshake
  <2> SUFFICES ASSUME IInv, NEW n \in Node, NEW p \in Node,
                      trans_state[n][p] = "CONNECTED"
               PROVE  /\ qp[n][p] # "none" /\ qp[p][n] # "none"
                      /\ msg[p][n] = "handled" /\ dram_mr[n][p]
    BY DEF ConnectedMeansHandshake
  <2>1. dram_mr[n][p]
    BY DEF IInv, KeyInv
  <2> QED BY <2>1, HandledMeansBuilt
<1> QED
  BY Inductive, <1>1, PTL

-----------------------------------------------------------------------------
(* The set-up implements the abstract handshake *)

\* The mapped variables, by name.
Built   == {e \in Node \X Node : qp[e[1]][e[2]] # "none"}
Offered == {e \in Node \X Node : msg[e[1]][e[2]] # "unsent"}
Known   == {e \in Node \X Node : dram_mr[e[1]][e[2]]}
Granted == {e \in Node \X Node : pc[e[1]] = "post" /\ peer[e[1]] = e[2]}

\* How building one end changes the set of built ends.
LEMMA BuiltMap ==
  ASSUME NEW n \in Node, NEW p \in Node,
         \A a, b \in Node : a # n \/ b # p => qp'[a][b] = qp[a][b]
  PROVE  /\ qp'[n][p] # "none" => Built' = Built \cup {<<n, p>>}
         /\ (qp'[n][p] = "none" <=> qp[n][p] = "none") => Built' = Built
  BY DEF Built

\* How sending one INIT message changes the set of offers.
LEMMA OfferedMap ==
  ASSUME NEW n \in Node, NEW p \in Node,
         \A a, b \in Node : a # n \/ b # p => msg'[a][b] = msg[a][b]
  PROVE  /\ msg'[n][p] # "unsent" => Offered' = Offered \cup {<<n, p>>}
         /\ (msg'[n][p] = "unsent" <=> msg[n][p] = "unsent") => Offered' = Offered
  BY DEF Offered

\* How storing one key changes the set of known regions.
LEMMA KnownMap ==
  ASSUME NEW n \in Node, NEW p \in Node, dram_mr'[n][p],
         \A a, b \in Node : a # n \/ b # p => dram_mr'[a][b] = dram_mr[a][b]
  PROVE  Known' = Known \cup {<<n, p>>}
  BY DEF Known

\* How one main thread changes the set of granted accesses.
LEMMA GrantedMap ==
  ASSUME NEW n \in Node,
         \A a \in Node : a # n => pc'[a] = pc[a] /\ peer'[a] = peer[a]
  PROVE  /\ pc'[n] = "post" /\ pc[n] # "post" /\ peer'[n] \in Node =>
              Granted' = Granted \cup {<<n, peer'[n]>>}
         /\ pc'[n] # "post" /\ pc[n] = "post" /\ peer[n] \in Node =>
              Granted' = Granted \ {<<n, peer[n]>>}
         /\ pc'[n] # "post" /\ pc[n] # "post" => Granted' = Granted
  BY DEF Granted

\* The initial state maps to an initial state of the handshake.
LEMMA HandshakeInit == Init => Handshake!Init
  BY DEF Init, Handshake!Init

\* A step of the main thread grants or spends an access, or is invisible.
LEMMA MainMaps ==
  ASSUME IInv, NEW n \in Node, NEW p \in Node,
         \/ Listen(n) \/ ClearTable(n) \/ StartConnect(n) \/ StoreConnecting(n)
         \/ InitDone(n) \/ CheckState(n) \/ PostWrite(n) \/ Released(n)
         \/ CallWrite(n, p) \/ CallRelease(n) \/ Quit(n) \/ CreateFails(n)
  PROVE  Handshake!Next \/ UNCHANGED Handshake!vars
<1>1. UNCHANGED <<qp, msg, dram_mr>>
  BY Zenon DEF Listen, ClearTable, StartConnect, StoreConnecting, InitDone,
     CheckState, PostWrite, Released, CallWrite, CallRelease, Quit, CreateFails, transVars, netVars
<1>2. UNCHANGED <<Built, Offered, Known>>
  BY <1>1 DEF Built, Offered, Known
<1>3. \A a \in Node : a # n => pc'[a] = pc[a] /\ peer'[a] = peer[a]
  <2>1. CASE CallWrite(n, p)
    <3>1. \/ pc' = [pc EXCEPT ![n] = "check"] /\ peer' = [peer EXCEPT ![n] = p]
          \/ pc' = [pc EXCEPT ![n] = "dead"] /\ UNCHANGED peer
      BY <2>1, Zenon DEF CallWrite
    <3> QED BY <3>1 DEF IInv, TypeOK
  <2>2. CASE StartConnect(n)
    <3>1. \/ pc' = [pc EXCEPT ![n] = "store"] /\ UNCHANGED peer
          \/ pc' = pc /\ peer' = [peer EXCEPT ![n] = peer[n] + 1]
      BY <2>2, Zenon DEF StartConnect
    <3> QED BY <3>1 DEF IInv, TypeOK
  <2>3. CASE Listen(n) \/ ClearTable(n) \/ StoreConnecting(n) \/ InitDone(n)
             \/ CheckState(n) \/ PostWrite(n) \/ Released(n) \/ CallRelease(n)
             \/ Quit(n) \/ CreateFails(n)
    BY <2>3 DEF Listen, ClearTable, StoreConnecting, InitDone, CheckState,
       PostWrite, Released, CallRelease, Quit, CreateFails, IInv, TypeOK
  <2> QED BY <2>1, <2>2, <2>3
<1>4. CASE CheckState(n) /\ pc'[n] = "post"
  <2>1. /\ pc[n] = "check" /\ UNCHANGED peer /\ peer[n] \in Node
        /\ trans_state[n][peer[n]] = "CONNECTED"
    BY <1>4 DEF CheckState, IInv, TargetInv, TypeOK
  <2>2. PICK q \in Node : q = peer[n]
    BY <2>1
  <2>3. <<n, q>> \in Known
    BY <2>1, <2>2 DEF IInv, KeyInv, Known
  <2>4. Granted' = Granted \cup {<<n, q>>}
    BY <1>3, <1>4, <2>1, <2>2, GrantedMap
  <2>5. Handshake!Grant(n, q)
    BY <1>2, <2>3, <2>4 DEF Handshake!Grant, Built, Offered, Known, Granted
  <2> QED BY <2>5 DEF Handshake!Next
<1>5. CASE pc[n] = "post" /\ pc'[n] # "post"
  <2>1. PICK q \in Node : q = peer[n]
    BY <1>5 DEF IInv, TargetInv
  <2>2. Granted' = Granted \ {<<n, q>>}
    BY <1>3, <1>5, <2>1, GrantedMap
  <2>3. Handshake!Spend(n, q)
    BY <1>2, <2>2 DEF Handshake!Spend, Built, Offered, Known, Granted
  <2> QED BY <2>3 DEF Handshake!Next
<1>6. CASE pc[n] # "post" /\ pc'[n] # "post"
  <2>1. Granted' = Granted
    BY <1>3, <1>6, GrantedMap
  <2> QED BY <1>2, <2>1 DEF Handshake!vars, Built, Offered, Known, Granted
<1>7. pc'[n] = "post" => CheckState(n)
  <2>1. CASE CallWrite(n, p)
    <3>1. pc' = [pc EXCEPT ![n] = "check"] \/ pc' = [pc EXCEPT ![n] = "dead"]
      BY <2>1, Zenon DEF CallWrite
    <3> QED BY <3>1 DEF IInv, TypeOK
  <2>2. CASE StartConnect(n)
    <3>1. pc[n] = "connect" /\ (pc' = [pc EXCEPT ![n] = "store"] \/ pc' = pc)
      BY <2>2, Zenon DEF StartConnect
    <3> QED BY <3>1 DEF IInv, TypeOK
  <2>3. CASE Listen(n) \/ ClearTable(n) \/ StoreConnecting(n) \/ InitDone(n)
             \/ PostWrite(n) \/ Released(n) \/ CallRelease(n) \/ Quit(n) \/ CreateFails(n)
    BY <2>3 DEF Listen, ClearTable, StoreConnecting, InitDone,
       PostWrite, Released, CallRelease, Quit, CreateFails, IInv, TypeOK
  <2> QED BY <2>1, <2>2, <2>3
<1> QED
  BY <1>4, <1>5, <1>6, <1>7

\* Any other step builds an end, offers or learns a region, or is invisible.
LEMMA OtherMaps ==
  ASSUME IInv, NEW n \in Node, NEW p \in Node, Action(n, p), UNCHANGED mainVars
  PROVE  Handshake!Next \/ UNCHANGED Handshake!vars
<1>1. Granted' = Granted
  BY DEF Granted, mainVars
<1>2. CASE OnRouteResolved(n, p) \/ OnConnectRequest(n, p) \/ OnDisconnected(n, p)
  <2>1. /\ UNCHANGED <<msg, dram_mr>>
        /\ \/ UNCHANGED qp
           \/ qp' = [qp EXCEPT ![n][p] = "ready"]
           \/ qp' = [qp EXCEPT ![n][p] = "destroyed"]
    BY <1>2, Zenon DEF OnRouteResolved, OnConnectRequest, OnDisconnected, GiveUp
  <2>2. \/ UNCHANGED qp
        \/ /\ qp'[n][p] # "none"
           /\ \A a, b \in Node : a # n \/ b # p => qp'[a][b] = qp[a][b]
    <3>1. ASSUME NEW v, v # "none", qp' = [qp EXCEPT ![n][p] = v]
          PROVE  /\ qp'[n][p] # "none"
                 /\ \A a, b \in Node : a # n \/ b # p => qp'[a][b] = qp[a][b]
      <4>1. qp'[n][p] = v /\ \A a, b \in Node : a # n \/ b # p => qp'[a][b] = qp[a][b]
        BY <3>1, EndAt, EndTypes
      <4> QED BY <3>1, <4>1
    <3> QED BY <2>1, <3>1
  <2>3. Built' = Built \/ Built' = Built \cup {<<n, p>>}
    <3>1. UNCHANGED qp => Built' = Built
      BY DEF Built
    <3> QED BY <2>2, <3>1, BuiltMap
  <2>4. Offered' = Offered /\ Known' = Known
    BY <2>1 DEF Offered, Known
  <2>5. UNCHANGED Handshake!vars \/ Handshake!Build(n, p)
    BY <1>1, <2>3, <2>4 DEF Handshake!vars, Handshake!Build, Built, Offered, Known, Granted
  <2> QED BY <2>5 DEF Handshake!Next
<1>3. CASE OnEstablished(n, p)
  <2>1. UNCHANGED <<qp, dram_mr>>
    BY <1>3 DEF OnEstablished, transVars
  <2>2. Built' = Built /\ Known' = Known
    BY <2>1 DEF Built, Known
  <2>3. cm[n][p] \in {"est", "closed"}
    BY <1>3, TakeEffect DEF OnEstablished, IInv
  <2>4. <<n, p>> \in Built /\ <<p, n>> \in Built
    BY <2>3 DEF IInv, BuiltInv, Built
  <2>5. \/ UNCHANGED msg
        \/ /\ msg'[n][p] = "sent"
           /\ \A a, b \in Node : a # n \/ b # p => msg'[a][b] = msg[a][b]
    <3>1. msg' = msg \/ msg' = [msg EXCEPT ![n][p] = "sent"]
      BY <1>3, Zenon DEF OnEstablished
    <3> QED BY <3>1, EndAt, EndTypes
  <2>6. Offered' = Offered \/ Offered' = Offered \cup {<<n, p>>}
    <3>1. UNCHANGED msg => Offered' = Offered
      BY DEF Offered
    <3> QED BY <2>5, <3>1, OfferedMap
  <2>7. UNCHANGED Handshake!vars \/ Handshake!Offer(n, p)
    BY <1>1, <2>2, <2>4, <2>6 DEF Handshake!vars, Handshake!Offer, Built, Offered, Known, Granted
  <2> QED BY <2>7 DEF Handshake!Next
<1>4. CASE StoreMr(n, p)
  <2>1. /\ <<"cq", p>> \in batch[n] /\ UNCHANGED qp
        /\ dram_mr' = [dram_mr EXCEPT ![n][p] = TRUE]
        /\ msg' = [msg EXCEPT ![p][n] = "handled"]
    BY <1>4 DEF StoreMr
  <2>2. msg[p][n] \in {"delivered", "handled"}
    BY <2>1 DEF IInv, KeyInv
  <2>3. <<p, n>> \in Offered
    BY <2>2 DEF Offered
  <2>4. Offered' = Offered
    <3>1. msg'[p][n] = "handled" /\ \A a, b \in Node : a # p \/ b # n => msg'[a][b] = msg[a][b]
      BY <2>1, EndAt, EndTypes
    <3> QED BY <2>2, <3>1, OfferedMap
  <2>5. Known' = Known \cup {<<n, p>>}
    <3>1. dram_mr'[n][p] /\ \A a, b \in Node : a # n \/ b # p => dram_mr'[a][b] = dram_mr[a][b]
      BY <2>1, EndAt, EndTypes
    <3> QED BY <3>1, KnownMap
  <2>6. Built' = Built
    BY <2>1 DEF Built
  <2>7. Handshake!Learn(n, p)
    BY <1>1, <2>3, <2>4, <2>5, <2>6 DEF Handshake!Learn, Built, Offered, Known, Granted
  <2> QED BY <2>7 DEF Handshake!Next
<1>5. CASE Deliver(n, p) \/ RnrError(n, p)
  <2>1. /\ msg[n][p] = "sent" /\ UNCHANGED <<qp, dram_mr>>
        /\ \E m \in {"delivered", "lost"} : msg' = [msg EXCEPT ![n][p] = m]
    BY <1>5 DEF Deliver, RnrError
  <2>2. Offered' = Offered
    <3>1. msg'[n][p] # "unsent" /\ \A a, b \in Node : a # n \/ b # p => msg'[a][b] = msg[a][b]
      BY <2>1, EndAt, EndTypes
    <3> QED BY <2>1, <3>1, OfferedMap
  <2>3. Built' = Built /\ Known' = Known
    BY <2>1 DEF Built, Known
  <2> QED BY <1>1, <2>2, <2>3 DEF Handshake!vars, Built, Offered, Known, Granted
<1>6. CASE UNCHANGED <<qp, msg, dram_mr>>
  <2>1. Built' = Built /\ Offered' = Offered /\ Known' = Known
    BY <1>6 DEF Built, Offered, Known
  <2> QED BY <1>1, <2>1 DEF Handshake!vars, Built, Offered, Known, Granted
<1>7. \/ OnRouteResolved(n, p) \/ OnConnectRequest(n, p) \/ OnDisconnected(n, p)
      \/ OnEstablished(n, p) \/ StoreMr(n, p) \/ Deliver(n, p) \/ RnrError(n, p)
      \/ UNCHANGED <<qp, msg, dram_mr>>
  BY Zenon DEF Action, Listen, ClearTable, StartConnect, StoreConnecting, InitDone,
     CheckState, PostWrite, Released, CallWrite, CallRelease, Quit, CreateFails, EpollWait,
     LoopExit, EnterCm, LeaveCm, OnAddrResolved, OnConnectError, OnOtherEvent,
     PublishConnected, PollNothing, CmResolve, CmRequest, CmRefuse, CmEstablish,
     CmAbandon, CmDisconnect, GiveUp, transVars, netVars
<1> QED
  BY <1>2, <1>3, <1>4, <1>5, <1>6, <1>7

\* Every step maps to a step of the handshake or a stutter.
LEMMA HandshakeStep ==
  IInv /\ [Next]_vars => [Handshake!Next]_(Handshake!vars)
<1> SUFFICES ASSUME IInv, [Next]_vars
             PROVE  Handshake!Next \/ UNCHANGED Handshake!vars
  OBVIOUS
<1>1. CASE UNCHANGED vars
  BY <1>1 DEF vars, mainVars, loopVars, transVars, netVars, Handshake!vars
<1>2. CASE Next
  <2>1. PICK n \in Node, p \in Node : Action(n, p)
    BY <1>2, NextIsAction
  <2>2. \/ UNCHANGED mainVars
        \/ Listen(n) \/ ClearTable(n) \/ StartConnect(n) \/ StoreConnecting(n)
        \/ InitDone(n) \/ CheckState(n) \/ PostWrite(n) \/ Released(n)
        \/ CallWrite(n, p) \/ CallRelease(n) \/ Quit(n) \/ CreateFails(n)
    BY <2>1, Zenon DEF Action, EpollWait, LoopExit, EnterCm, LeaveCm, OnAddrResolved,
       OnRouteResolved, OnConnectRequest, OnEstablished, OnDisconnected,
       OnConnectError, OnOtherEvent, StoreMr, PublishConnected, PollNothing,
       CmResolve, CmRequest, CmRefuse, CmEstablish, CmAbandon, CmDisconnect, Deliver, RnrError
  <2> QED BY <2>1, <2>2, MainMaps, OtherMaps
<1> QED
  BY <1>1, <1>2

\* hmp_node_init, the handlers of the epoll thread and hmp_transport_check_state
\* together never let an access through that the abstract handshake would not.
THEOREM SetupImplementsHandshake == Spec => ImplementsHandshake
  BY Inductive, HandshakeInit, HandshakeStep, PTL
     DEF Spec, ImplementsHandshake, Handshake!Spec

-----------------------------------------------------------------------------
(* Ends that are not in use yet *)

\* No transport was allocated for [n][p], or its connect request still waits in
\* the listener's channel: there is no queue pair.
FreshEnd(n, p) ==
  /\ trans_state[n][p] = "NONE" => cm[n][p] \in {"idle", "request"} /\ qp[n][p] = "none"
  /\ cm[n][p] = "idle" => qp[n][p] = "none"
  /\ cm[n][p] = "request" /\ events[n][p] # <<>> => qp[n][p] = "none"

\* hmp_transport_connect allocates the transport before rdma_resolve_addr.
FreshInv ==
  /\ \A n, p \in Node : FreshEnd(n, p)
  /\ \A n \in Node : pc[n] = "store" => trans_state[n][peer[n]] # "NONE"

\* An end that a step leaves alone stays as it is.
LEMMA FreshKept ==
  ASSUME FreshInv, NEW n \in Node, NEW p \in Node,
         \A a, b \in Node : a # n \/ b # p =>
           /\ trans_state'[a][b] = trans_state[a][b] /\ qp'[a][b] = qp[a][b]
           /\ cm'[a][b] = cm[a][b] /\ events'[a][b] = events[a][b],
         FreshEnd(n, p)'
  PROVE  \A a, b \in Node : FreshEnd(a, b)'
<1> SUFFICES ASSUME NEW a \in Node, NEW b \in Node PROVE FreshEnd(a, b)'
  OBVIOUS
<1>1. CASE a = n /\ b = p
  BY <1>1
<1>2. CASE a # n \/ b # p
  BY <1>2 DEF FreshInv, FreshEnd
<1> QED
  BY <1>1, <1>2

\* One end's trans_state was assigned.
LEMMA StateAt ==
  ASSUME IInv, NEW n \in Node, NEW p \in Node, NEW v \in TransState \ {"NONE"},
         trans_state' = [trans_state EXCEPT ![n][p] = v]
  PROVE  /\ trans_state'[n][p] # "NONE"
         /\ \A a, b \in Node : a # n \/ b # p => trans_state'[a][b] = trans_state[a][b]
  BY EndTypes

\* No step takes a transport away, and a value is assigned at one end only.
LEMMA StateEffect ==
  ASSUME IInv, NEW n \in Node, NEW p \in Node, Action(n, p)
  PROVE  \/ UNCHANGED trans_state
         \/ /\ StartConnect(n) \/ StoreConnecting(n)
            /\ peer[n] \in Node /\ trans_state'[n][peer[n]] # "NONE"
            /\ \A a, b \in Node : a # n \/ b # peer[n] =>
                 trans_state'[a][b] = trans_state[a][b]
         \/ /\ OnRouteResolved(n, p) \/ OnConnectRequest(n, p)
               \/ OnConnectError(n, p) \/ PublishConnected(n, p)
            /\ trans_state'[n][p] # "NONE"
            /\ \A a, b \in Node : a # n \/ b # p =>
                 trans_state'[a][b] = trans_state[a][b]
<1>1. CASE StartConnect(n) \/ StoreConnecting(n)
  <2>1. peer[n] \in Node
    BY <1>1 DEF StartConnect, StoreConnecting, IInv, TargetInv
  <2>2. \E v \in TransState \ {"NONE"} :
          trans_state' = [trans_state EXCEPT ![n][peer[n]] = v]
    BY <1>1 DEF StartConnect, StoreConnecting, TransState
  <2>3. PICK v \in TransState \ {"NONE"} :
          trans_state' = [trans_state EXCEPT ![n][peer[n]] = v]
    BY <2>2
  <2>4. /\ trans_state'[n][peer[n]] # "NONE"
        /\ \A a, b \in Node : a # n \/ b # peer[n] =>
             trans_state'[a][b] = trans_state[a][b]
    BY <2>1, <2>3, StateAt
  <2> QED BY <1>1, <2>1, <2>4, Zenon
<1>2. CASE OnRouteResolved(n, p) \/ OnConnectRequest(n, p)
           \/ OnConnectError(n, p) \/ PublishConnected(n, p)
  <2>1. \/ UNCHANGED trans_state
        \/ \E v \in TransState \ {"NONE"} :
             trans_state' = [trans_state EXCEPT ![n][p] = v]
    BY <1>2 DEF OnRouteResolved, OnConnectRequest, OnConnectError,
       PublishConnected, GiveUp, TransState
  <2>2. CASE \E v \in TransState \ {"NONE"} :
               trans_state' = [trans_state EXCEPT ![n][p] = v]
    <3>1. PICK v \in TransState \ {"NONE"} :
            trans_state' = [trans_state EXCEPT ![n][p] = v]
      BY <2>2
    <3>2. /\ trans_state'[n][p] # "NONE"
          /\ \A a, b \in Node : a # n \/ b # p =>
               trans_state'[a][b] = trans_state[a][b]
      BY <3>1, StateAt
    <3> QED BY <1>2, <3>2, Zenon
  <2> QED BY <2>1, <2>2, Zenon
<1>3. \/ UNCHANGED trans_state
      \/ StartConnect(n) \/ StoreConnecting(n)
      \/ OnRouteResolved(n, p) \/ OnConnectRequest(n, p)
      \/ OnConnectError(n, p) \/ PublishConnected(n, p)
  BY Zenon DEF Action, Listen, ClearTable, InitDone,
     CheckState, PostWrite, Released, CallWrite, CallRelease, Quit, CreateFails, EpollWait,
     LoopExit, EnterCm, LeaveCm, OnAddrResolved, OnEstablished, OnDisconnected,
     OnOtherEvent, StoreMr, PollNothing, CmResolve, CmRequest,
     CmRefuse, CmEstablish, CmAbandon, CmDisconnect, Deliver, RnrError, GiveUp, transVars
<1> QED
  BY <1>1, <1>2, <1>3

\* A transport that was allocated stays allocated.
LEMMA Allocated ==
  ASSUME IInv, NEW n \in Node, NEW p \in Node, Action(n, p)
  PROVE  \A a, b \in Node : trans_state[a][b] # "NONE" => trans_state'[a][b] # "NONE"
  BY StateEffect

\* The event handlers other than on_cm_connect_request work on an end that is
\* in use already.
LEMMA HandlerInUse ==
  ASSUME IInv, FreshInv, NEW n \in Node, NEW p \in Node,
         \/ OnAddrResolved(n, p) \/ OnRouteResolved(n, p) \/ OnEstablished(n, p)
         \/ OnDisconnected(n, p) \/ OnConnectError(n, p) \/ OnOtherEvent(n, p)
  PROVE  cm[n][p] \notin {"idle", "request"} /\ trans_state[n][p] # "NONE"
<1>1. \E e \in CmEvent \ {"CONNECT_REQUEST"} : Take(n, p, e)
  BY DEF OnAddrResolved, OnRouteResolved, OnEstablished, OnDisconnected,
     OnConnectError, OnOtherEvent, CmEvent
<1>2. PICK e \in CmEvent \ {"CONNECT_REQUEST"} : Take(n, p, e)
  BY <1>1
<1>3. cm[n][p] \notin {"idle", "request"}
  BY <1>2, TakeEffect DEF IInv, CmEvent
<1> QED
  BY <1>3 DEF FreshInv, FreshEnd

\* They leave it in use.
LEMMA FreshHandler ==
  ASSUME IInv, FreshInv, NEW n \in Node, NEW p \in Node,
         \/ OnAddrResolved(n, p) \/ OnRouteResolved(n, p) \/ OnEstablished(n, p)
         \/ OnDisconnected(n, p) \/ OnConnectError(n, p) \/ OnOtherEvent(n, p)
  PROVE  FreshEnd(n, p)'
<1>3. cm[n][p] \notin {"idle", "request"} /\ trans_state[n][p] # "NONE"
  BY HandlerInUse
<1>4. trans_state'[n][p] # "NONE"
  BY <1>3, Allocated, Zenon DEF Action
<1>5. cm' = cm \/ \E v \in {"route", "connect"} : cm' = [cm EXCEPT ![n][p] = v]
  BY DEF OnAddrResolved, OnRouteResolved, OnEstablished, OnDisconnected,
     OnConnectError, OnOtherEvent, GiveUp
<1>6. cm'[n][p] \notin {"idle", "request"}
  BY <1>3, <1>5, EndTypes
<1> QED
  BY <1>4, <1>6 DEF FreshEnd

\* on_cm_connect_request takes the only request from the channel.
LEMMA FreshRequest ==
  ASSUME IInv, FreshInv, NEW n \in Node, NEW p \in Node, OnConnectRequest(n, p)
  PROVE  FreshEnd(n, p)'
<1>1. Take(n, p, "CONNECT_REQUEST")
  BY DEF OnConnectRequest
<1>2. cm[n][p] = "request" /\ events'[n][p] = <<>>
  BY <1>1, TakeEffect DEF IInv
<1>3. qp[n][p] = "none"
  BY <1>1, <1>2 DEF FreshInv, FreshEnd, Take
<1>4. \/ UNCHANGED <<trans_state, qp, cm>>
      \/ \E v \in TransState \ {"NONE"} : trans_state' = [trans_state EXCEPT ![n][p] = v]
  BY DEF OnConnectRequest, GiveUp, TransState
<1>5. CASE UNCHANGED <<trans_state, qp, cm>>
  BY <1>2, <1>3, <1>5 DEF FreshEnd
<1>6. CASE \E v \in TransState \ {"NONE"} : trans_state' = [trans_state EXCEPT ![n][p] = v]
  <2>1. trans_state'[n][p] # "NONE"
    BY <1>6, StateAt
  <2>2. cm' = cm \/ cm' = [cm EXCEPT ![n][p] = "accepted"]
    BY Zenon DEF OnConnectRequest, GiveUp
  <2>3. cm'[n][p] # "idle"
    BY <1>2, <2>2, EndTypes
  <2> QED BY <1>2, <2>1, <2>3 DEF FreshEnd
<1> QED
  BY <1>4, <1>5, <1>6

\* The connection manager moves identifiers that are in use ...
LEMMA FreshFabric ==
  ASSUME IInv, FreshInv, NEW n \in Node, NEW p \in Node,
         \/ CmResolve(n, p) \/ CmRefuse(n, p) \/ CmEstablish(n, p)
         \/ CmAbandon(n, p) \/ CmDisconnect(n, p)
  PROVE  FreshEnd(n, p)'
<1>1. cm[n][p] \notin {"idle", "request"}
  BY DEF CmResolve, CmRefuse, CmEstablish, CmAbandon, CmDisconnect
<1>2. trans_state'[n][p] # "NONE"
  BY <1>1, Allocated, Zenon DEF Action, FreshInv, FreshEnd
<1>3. \E v \in CmPhase \ {"idle", "request"} : cm' = [cm EXCEPT ![n][p] = v]
  BY DEF CmResolve, CmRefuse, CmEstablish, CmAbandon, CmDisconnect, Queue, CmPhase
<1>4. cm'[n][p] \notin {"idle", "request"}
  BY <1>3, EndTypes
<1> QED
  BY <1>2, <1>4 DEF FreshEnd

\* ... and gives the passive end its request before anything else happens there.
LEMMA FreshCmRequest ==
  ASSUME IInv, FreshInv, NEW n \in Node, NEW p \in Node, CmRequest(n, p)
  PROVE  \A a, b \in Node : FreshEnd(a, b)'
<1>1. /\ cm[n][p] = "connect" /\ UNCHANGED <<trans_state, qp>>
      /\ cm' = [cm EXCEPT ![n][p] = "requested", ![p][n] = "request"]
      /\ events' = [events EXCEPT ![p][n] = Append(events[p][n], "CONNECT_REQUEST")]
  BY EndTypes DEF CmRequest, transVars
<1>2. n # p /\ cm[p][n] = "idle"
  BY <1>1, NodeFacts DEF IInv, RoleInv, Unrequested
<1>3. /\ cm'[n][p] = "requested" /\ cm'[p][n] = "request"
      /\ \A a, b \in Node : (a # n \/ b # p) /\ (a # p \/ b # n) =>
           cm'[a][b] = cm[a][b]
  BY <1>1, <1>2, EndTypes
<1>4. \A a, b \in Node : a # p \/ b # n => events'[a][b] = events[a][b]
  BY <1>1, EndTypes
<1>5. trans_state[n][p] # "NONE" /\ qp[p][n] = "none"
  BY <1>1, <1>2 DEF FreshInv, FreshEnd
<1> SUFFICES ASSUME NEW a \in Node, NEW b \in Node PROVE FreshEnd(a, b)'
  OBVIOUS
<1>6. CASE a = n /\ b = p
  BY <1>1, <1>3, <1>5, <1>6 DEF FreshEnd
<1>7. CASE a = p /\ b = n
  BY <1>1, <1>3, <1>5, <1>7 DEF FreshEnd
<1>8. CASE (a # n \/ b # p) /\ (a # p \/ b # n)
  <2>1. /\ trans_state'[a][b] = trans_state[a][b] /\ qp'[a][b] = qp[a][b]
        /\ cm'[a][b] = cm[a][b] /\ events'[a][b] = events[a][b]
    BY <1>1, <1>3, <1>4, <1>8
  <2>2. FreshEnd(a, b)
    BY DEF FreshInv
  <2> QED BY <2>1, <2>2 DEF FreshEnd
<1> QED
  BY <1>6, <1>7, <1>8

\* The steps of the main thread that assign trans_state.
LEMMA FreshMain ==
  ASSUME IInv, FreshInv, NEW n \in Node, StartConnect(n) \/ StoreConnecting(n),
         NEW p \in Node, p = peer[n]
  PROVE  \A a, b \in Node : FreshEnd(a, b)'
<1>1. /\ UNCHANGED <<qp, events>>
      /\ cm' = cm \/ cm' = [cm EXCEPT ![n][p] = "addr"]
  BY DEF StartConnect, StoreConnecting, netVars
<1>2. /\ cm'[n][p] \in {cm[n][p], "addr"}
      /\ \A a, b \in Node : a # n \/ b # p => cm'[a][b] = cm[a][b]
  <2>1. ASSUME cm' = [cm EXCEPT ![n][p] = "addr"]
        PROVE  /\ cm'[n][p] = "addr"
               /\ \A a, b \in Node : a # n \/ b # p => cm'[a][b] = cm[a][b]
    BY <2>1, EndAt, EndTypes
  <2> QED BY <1>1, <2>1
<1>3. /\ trans_state'[n][p] # "NONE"
      /\ \A a, b \in Node : a # n \/ b # p => trans_state'[a][b] = trans_state[a][b]
  <2>1. \E v \in TransState \ {"NONE"} : trans_state' = [trans_state EXCEPT ![n][p] = v]
    BY DEF StartConnect, StoreConnecting, TransState
  <2>2. PICK v \in TransState \ {"NONE"} : trans_state' = [trans_state EXCEPT ![n][p] = v]
    BY <2>1
  <2> QED BY <2>2, StateAt
<1>4. FreshEnd(n, p)'
  <2>1. FreshEnd(n, p)
    BY DEF FreshInv
  <2> QED BY <1>1, <1>2, <1>3, <2>1 DEF FreshEnd
<1> QED
  BY <1>1, <1>2, <1>3, <1>4, FreshKept

\* A main thread that is about to assign CONNECTING has allocated the transport.
LEMMA StoreKept ==
  ASSUME IInv, FreshInv, NEW n \in Node, NEW p \in Node, Action(n, p)
  PROVE  \A a \in Node : pc'[a] = "store" => trans_state'[a][peer'[a]] # "NONE"
<1>1. CASE StartConnect(n)
  <2>1. peer[n] \in Node /\ \A a \in Node : a # n => pc'[a] = pc[a] /\ peer'[a] = peer[a]
    BY <1>1 DEF StartConnect, IInv, TypeOK
  <2>2. pc'[n] = "store" => peer'[n] = peer[n]
    BY <1>1 DEF StartConnect, IInv, TypeOK
  <2>3. trans_state'[n][peer[n]] # "NONE"
    <3>1. trans_state' = [trans_state EXCEPT ![n][peer[n]] = "INIT"]
      BY <1>1 DEF StartConnect
    <3> QED BY <2>1, <3>1, EndTypes
  <2> QED BY <2>1, <2>2, <2>3, Allocated DEF FreshInv, IInv, TargetInv
<1>2. CASE UNCHANGED <<pc, peer>>
  BY <1>2, Allocated DEF FreshInv, IInv, TargetInv
<1>3. CASE \/ Listen(n) \/ ClearTable(n) \/ StoreConnecting(n)
           \/ InitDone(n) \/ CheckState(n) \/ PostWrite(n) \/ Released(n)
           \/ CallWrite(n, p) \/ CallRelease(n) \/ Quit(n) \/ CreateFails(n)
  <2>1. /\ pc'[n] # "store"
        /\ \A a \in Node : a # n => pc'[a] = pc[a] /\ peer'[a] = peer[a]
    BY <1>3 DEF Listen, ClearTable, StoreConnecting, InitDone, CheckState, PostWrite,
       Released, CallWrite, CallRelease, Quit, CreateFails, IInv, TypeOK
  <2> QED BY <2>1, Allocated DEF FreshInv, IInv, TargetInv
<1>4. \/ StartConnect(n) \/ UNCHANGED <<pc, peer>>
      \/ Listen(n) \/ ClearTable(n) \/ StoreConnecting(n)
      \/ InitDone(n) \/ CheckState(n) \/ PostWrite(n) \/ Released(n)
      \/ CallWrite(n, p) \/ CallRelease(n) \/ Quit(n) \/ CreateFails(n)
  BY Zenon DEF Action, EpollWait, LoopExit, EnterCm, LeaveCm, OnAddrResolved,
     OnRouteResolved, OnConnectRequest, OnEstablished, OnDisconnected,
     OnConnectError, OnOtherEvent, StoreMr, PublishConnected, PollNothing,
     CmResolve, CmRequest, CmRefuse, CmEstablish, CmAbandon, CmDisconnect, Deliver, RnrError,
     mainVars
<1> QED
  BY <1>1, <1>2, <1>3, <1>4

\* An event handler works on one end.
LEMMA HandlerEnds ==
  ASSUME IInv, NEW n \in Node, NEW p \in Node,
         \/ OnAddrResolved(n, p) \/ OnRouteResolved(n, p)
         \/ OnConnectRequest(n, p) \/ OnEstablished(n, p)
         \/ OnDisconnected(n, p) \/ OnConnectError(n, p) \/ OnOtherEvent(n, p)
  PROVE  \A a, b \in Node : a # n \/ b # p =>
           /\ trans_state'[a][b] = trans_state[a][b] /\ qp'[a][b] = qp[a][b]
           /\ cm'[a][b] = cm[a][b] /\ events'[a][b] = events[a][b]
<1> USE DEF OnAddrResolved, OnRouteResolved, OnConnectRequest, OnEstablished,
        OnDisconnected, OnConnectError, OnOtherEvent, GiveUp, transVars
<1>1. \/ UNCHANGED trans_state
      \/ \E x \in TransState : trans_state' = [trans_state EXCEPT ![n][p] = x]
  BY DEF TransState
<1>2. UNCHANGED qp \/ \E x \in QpState : qp' = [qp EXCEPT ![n][p] = x]
  BY DEF QpState
<1>3. UNCHANGED cm \/ \E x \in CmPhase : cm' = [cm EXCEPT ![n][p] = x]
  BY DEF CmPhase
<1>4. \E e \in CmEvent : Take(n, p, e)
  BY DEF CmEvent
<1> HIDE DEF OnAddrResolved, OnRouteResolved, OnConnectRequest, OnEstablished,
        OnDisconnected, OnConnectError, OnOtherEvent
<1>5. \A a, b \in Node : a # n \/ b # p => events'[a][b] = events[a][b]
  BY <1>4, TakeEffect DEF IInv
<1>6. \A a, b \in Node : a # n \/ b # p => trans_state'[a][b] = trans_state[a][b]
  BY <1>1, EndTypes
<1>7. \A a, b \in Node : a # n \/ b # p => qp'[a][b] = qp[a][b]
  BY <1>2, EndTypes
<1>8. \A a, b \in Node : a # n \/ b # p => cm'[a][b] = cm[a][b]
  BY <1>3, EndTypes
<1> QED
  BY <1>5, <1>6, <1>7, <1>8

\* Every step keeps FreshInv.
LEMMA FreshStep ==
  ASSUME IInv, FreshInv, NEW n \in Node, NEW p \in Node, Action(n, p)
  PROVE  FreshInv'
<1>0. SUFFICES \A a, b \in Node : FreshEnd(a, b)'
  BY StoreKept DEF FreshInv
<1>1. CASE StartConnect(n) \/ StoreConnecting(n)
  <2>1. peer[n] \in Node
    BY <1>1 DEF StartConnect, StoreConnecting, IInv, TargetInv
  <2> QED BY <1>1, <2>1, FreshMain
<1>2. CASE CmRequest(n, p)
  BY <1>2, FreshCmRequest
<1>3. CASE OnConnectRequest(n, p)
  BY <1>3, FreshRequest, HandlerEnds, FreshKept
<1>4. CASE \/ OnAddrResolved(n, p) \/ OnRouteResolved(n, p) \/ OnEstablished(n, p)
           \/ OnDisconnected(n, p) \/ OnConnectError(n, p) \/ OnOtherEvent(n, p)
  BY <1>4, FreshHandler, HandlerEnds, FreshKept
<1>5. CASE \/ CmResolve(n, p) \/ CmRefuse(n, p) \/ CmEstablish(n, p)
           \/ CmAbandon(n, p) \/ CmDisconnect(n, p)
  <2>1. FreshEnd(n, p)'
    BY <1>5, FreshFabric
  <2>2. /\ UNCHANGED <<trans_state, qp>>
        /\ \E e, phase : Queue(n, p, e, phase)
    BY <1>5, Zenon DEF CmResolve, CmRefuse, CmEstablish, CmAbandon, CmDisconnect, transVars
  <2>3. PICK e, phase : Queue(n, p, e, phase)
    BY <2>2
  <2>4. \A a, b \in Node : a # n \/ b # p =>
          cm'[a][b] = cm[a][b] /\ events'[a][b] = events[a][b]
    BY <2>3, QueueEffect DEF IInv
  <2> QED BY <2>1, <2>2, <2>4, FreshKept
<1>6. CASE PublishConnected(n, p)
  <2>1. /\ UNCHANGED <<qp, cm, events>>
        /\ trans_state' = [trans_state EXCEPT ![n][p] = "CONNECTED"]
    BY <1>6 DEF PublishConnected, netVars
  <2>2. /\ trans_state'[n][p] = "CONNECTED"
        /\ \A a, b \in Node : a # n \/ b # p => trans_state'[a][b] = trans_state[a][b]
    BY <2>1, EndAt, EndTypes
  <2>3. FreshEnd(n, p)'
    BY <2>1, <2>2 DEF FreshInv, FreshEnd
  <2> QED BY <2>1, <2>2, <2>3, FreshKept
<1>7. CASE UNCHANGED <<trans_state, qp, cm, events>>
  BY <1>7 DEF FreshInv, FreshEnd
<1>8. CASE \/ Listen(n) \/ ClearTable(n) \/ InitDone(n) \/ CheckState(n)
           \/ PostWrite(n) \/ Released(n) \/ CallWrite(n, p) \/ CallRelease(n)
           \/ Quit(n) \/ CreateFails(n) \/ EpollWait(n) \/ LoopExit(n) \/ EnterCm(n, p)
           \/ LeaveCm(n, p) \/ StoreMr(n, p) \/ PollNothing(n, p) \/ Deliver(n, p) \/ RnrError(n, p)
  <2>1. UNCHANGED <<trans_state, qp, cm, events>>
    BY <1>8, Zenon DEF Listen, ClearTable, InitDone, CheckState, PostWrite, Released,
       CallWrite, CallRelease, Quit, CreateFails, EpollWait, LoopExit, EnterCm, LeaveCm, StoreMr,
       PollNothing, Deliver, RnrError, transVars, netVars
  <2> QED BY <1>7, <2>1
<1> QED
  BY <1>1, <1>2, <1>3, <1>4, <1>5, <1>6, <1>8, Zenon DEF Action

\* An end is fresh until a thread works on it, in every state of the set-up.
LEMMA Fresh == Spec => [](IInv /\ FreshInv)
<1>1. Init => FreshInv
  BY DEF Init, FreshInv, FreshEnd
<1>2. IInv /\ FreshInv /\ [Next]_vars => FreshInv'
  <2> SUFFICES ASSUME IInv, FreshInv, [Next]_vars PROVE FreshInv'
    OBVIOUS
  <2>1. CASE UNCHANGED vars
    BY <2>1 DEF vars, mainVars, transVars, netVars, FreshInv, FreshEnd
  <2>2. CASE Next
    BY <2>2, NextIsAction, FreshStep
  <2> QED BY <2>1, <2>2
<1> QED
  BY <1>1, <1>2, IInvInit, IInvStep, PTL DEF Spec

-----------------------------------------------------------------------------
(* The two action properties *)

\* Which steps write connect_trans: the memset clears the node's row, every
\* other assignment enters a transport.
LEMMA TableEffect ==
  ASSUME IInv, NEW n \in Node, NEW p \in Node, Action(n, p)
  PROVE  \/ ClearTable(n)
            /\ \A a, b \in Node : a # n => connect_trans'[a][b] = connect_trans[a][b]
         \/ \A a, b \in Node : connect_trans[a][b] => connect_trans'[a][b]
<1>1. connect_trans \in [Node -> [Node -> BOOLEAN]]
  BY DEF IInv, TypeOK
<1>2. CASE ClearTable(n)
  BY <1>1, <1>2 DEF ClearTable
<1>3. CASE UNCHANGED connect_trans
  BY <1>3
<1>4. CASE \E q \in Node : connect_trans' = [connect_trans EXCEPT ![n][q] = TRUE]
  BY <1>1, <1>4
<1>5. ClearTable(n) \/ StartConnect(n) \/ OnConnectRequest(n, p) \/ UNCHANGED connect_trans
  BY Zenon DEF Action, Listen, StoreConnecting, InitDone,
     CheckState, PostWrite, Released, CallWrite, CallRelease, Quit, CreateFails, EpollWait,
     LoopExit, EnterCm, LeaveCm, OnAddrResolved, OnRouteResolved, OnEstablished,
     OnDisconnected, OnConnectError, OnOtherEvent, StoreMr, PublishConnected,
     PollNothing, CmResolve, CmRequest, CmRefuse, CmEstablish, CmAbandon,
     CmDisconnect, Deliver, RnrError, GiveUp, transVars
<1>6. StartConnect(n) =>
        \E q \in Node : connect_trans' = [connect_trans EXCEPT ![n][q] = TRUE]
  BY Zenon DEF StartConnect
<1>7. OnConnectRequest(n, p) =>
        \/ UNCHANGED connect_trans
        \/ \E q \in Node : connect_trans' = [connect_trans EXCEPT ![n][q] = TRUE]
  BY Zenon DEF OnConnectRequest, EnterTable, GiveUp
<1> QED
  BY <1>2, <1>3, <1>4, <1>5, <1>6, <1>7

\* A key is stored only for a transport that was allocated.
LEMMA KeyAllocated ==
  ASSUME IInv, FreshInv, NEW n \in Node, NEW p \in Node, dram_mr[n][p]
  PROVE  trans_state[n][p] # "NONE"
  BY HandledMeansBuilt DEF FreshInv, FreshEnd

\* A transport that comes into use is entered in the table by the same step.
LEMMA EnteredAtOnce ==
  ASSUME IInv, FreshInv, NEW n \in Node, NEW p \in Node, Action(n, p),
         NEW a \in Node, NEW b \in Node, trans_state[a][b] = "NONE",
         trans_state'[a][b] \in {"CONNECTING", "CONNECTED"}
  PROVE  connect_trans'[a][b]
<1>0. connect_trans \in [Node -> [Node -> BOOLEAN]]
  BY DEF IInv, TypeOK
<1>1. CASE (StartConnect(n) \/ StoreConnecting(n)) /\ a = n /\ b = peer[n]
  <2>1. ~StoreConnecting(n)
    BY <1>1 DEF StoreConnecting, FreshInv
  <2>2. connect_trans' = [connect_trans EXCEPT ![n][b] = TRUE]
    BY <1>1, <2>1 DEF StartConnect
  <2> QED BY <1>0, <1>1, <2>2
<1>2. CASE (OnRouteResolved(n, p) \/ OnConnectError(n, p)) /\ a = n /\ b = p
  BY <1>2, HandlerInUse
<1>3. CASE OnConnectRequest(n, p) /\ a = n /\ b = p
  <2>1. \/ UNCHANGED trans_state
        \/ trans_state' = [trans_state EXCEPT ![n][p] = "INIT"]
        \/ connect_trans' = [connect_trans EXCEPT ![n][p] = TRUE]
    BY <1>3, Zenon DEF OnConnectRequest, EnterTable, GiveUp
  <2>2. trans_state' # trans_state /\ trans_state' # [trans_state EXCEPT ![n][p] = "INIT"]
    BY <1>3, EndTypes
  <2> QED BY <1>0, <1>3, <2>1, <2>2
<1>4. CASE PublishConnected(n, p) /\ a = n /\ b = p
  <2>1. dram_mr[n][p]
    BY <1>4 DEF PublishConnected, IInv, KeyInv
  <2> QED BY <1>4, <2>1, KeyAllocated
<1>5. trans_state'[a][b] # trans_state[a][b]
  OBVIOUS
<1> QED
  BY <1>1, <1>2, <1>3, <1>4, <1>5, StateEffect

\* hmp_node_init's memset of connect_trans is the only statement after which a
\* transport in use is missing from the table: on_cm_connect_request and
\* hmp_transport_connect enter theirs in the step that starts to use it.
THEOREM EntriesLostOnlyByMemset == Spec => EntryLostOnlyByMemset
<1> DEFINE Step == \A n, p \in Node :
             /\ connect_trans[n][p] \/ trans_state[n][p] = "NONE"
             /\ ~connect_trans'[n][p] /\ trans_state'[n][p] \in {"CONNECTING", "CONNECTED"}
             => pc[n] = "memset"
<1>1. IInv /\ FreshInv /\ [Next]_vars => [Step]_vars
  <2> SUFFICES ASSUME IInv, FreshInv, Next PROVE Step
    OBVIOUS
  <2>1. PICK n \in Node, p \in Node : Action(n, p)
    BY NextIsAction
  <2> SUFFICES ASSUME NEW a \in Node, NEW b \in Node,
                      connect_trans[a][b] \/ trans_state[a][b] = "NONE",
                      ~connect_trans'[a][b],
                      trans_state'[a][b] \in {"CONNECTING", "CONNECTED"}
               PROVE  pc[a] = "memset"
    OBVIOUS
  <2>2. connect_trans[a][b]
    BY <2>1, EnteredAtOnce
  <2> QED BY <2>1, <2>2, TableEffect DEF ClearTable
<1> QED
  BY <1>1, Fresh, PTL DEF Spec, EntryLostOnlyByMemset

\* The step that takes a transport out of CONNECTED.
LEMMA DemotedBy ==
  ASSUME IInv, FreshInv, NEW n \in Node, NEW p \in Node, Action(n, p),
         NEW a \in Node, NEW b \in Node, trans_state[a][b] = "CONNECTED",
         trans_state'[a][b] # "CONNECTED"
  PROVE  \/ pc[a] = "store" /\ pc'[a] = "connect" /\ peer[a] = b
         \/ trans_state'[a][b] = "ERROR" /\ stop'[a]
<1>0. /\ pc \in [Node -> MainLabel] /\ stop \in [Node -> BOOLEAN]
      /\ trans_state \in [Node -> [Node -> TransState]]
  BY DEF IInv, TypeOK
<1>1. dram_mr[a][b] /\ qp[a][b] # "none" /\ cm[a][b] # "idle"
  <2>1. dram_mr[a][b]
    BY DEF IInv, KeyInv
  <2>2. qp[a][b] # "none"
    BY <2>1, HandledMeansBuilt
  <2> QED BY <2>1, <2>2 DEF FreshInv, FreshEnd
<1>2. CASE (StartConnect(n) \/ StoreConnecting(n)) /\ a = n /\ b = peer[n]
  <2>1. ~StartConnect(n)
    <3> SUFFICES ASSUME StartConnect(n) PROVE FALSE
      OBVIOUS
    <3>1. pc[n] = "connect" /\ peer[n] <= b
      BY <1>2, NodeFacts DEF StartConnect
    <3>2. cm[n][b] = "idle"
      BY <3>1 DEF IInv, StartInv
    <3> QED BY <1>1, <1>2, <3>2
  <2> QED BY <1>0, <1>2, <2>1 DEF StoreConnecting
<1>3. CASE (OnRouteResolved(n, p) \/ OnConnectError(n, p)) /\ a = n /\ b = p
  <2>1. \/ UNCHANGED trans_state
        \/ /\ trans_state' = [trans_state EXCEPT ![n][p] = "ERROR"]
           /\ stop' = [stop EXCEPT ![n] = TRUE]
    BY <1>3, Zenon DEF OnRouteResolved, OnConnectError, GiveUp
  <2> QED BY <1>0, <1>3, <2>1
<1>4. CASE OnConnectRequest(n, p) /\ a = n /\ b = p
  <2>1. cm[n][p] = "request" /\ events[n][p] # <<>>
    BY <1>4, TakeEffect DEF OnConnectRequest, Take, IInv
  <2> QED BY <1>1, <1>4, <2>1 DEF FreshInv, FreshEnd
<1>5. CASE PublishConnected(n, p) /\ a = n /\ b = p
  BY <1>0, <1>5 DEF PublishConnected
<1>6. trans_state'[a][b] # trans_state[a][b]
  OBVIOUS
<1> QED
  BY <1>2, <1>3, <1>4, <1>5, <1>6, StateEffect

\* A CONNECTED transport goes back only by hmp_transport_connect's late
\* assignment of CONNECTING, or to ERROR with the loop stopped; no order of
\* events makes a handler take it back.
THEOREM DemotedOnlyLate == Spec => DemotedOnlyByLateStore
<1> DEFINE Step == \A n, p \in Node :
             trans_state[n][p] = "CONNECTED" /\ trans_state'[n][p] # "CONNECTED" =>
               \/ pc[n] = "store" /\ pc'[n] = "connect" /\ peer[n] = p
               \/ trans_state'[n][p] = "ERROR" /\ stop'[n]
<1>1. IInv /\ FreshInv /\ [Next]_vars => [Step]_vars
  <2> SUFFICES ASSUME IInv, FreshInv, Next PROVE Step
    OBVIOUS
  <2>1. PICK n \in Node, p \in Node : Action(n, p)
    BY NextIsAction
  <2> QED BY <2>1, DemotedBy
<1> QED
  BY <1>1, Fresh, PTL DEF Spec, DemotedOnlyByLateStore
=============================================================================
