-------------------------- MODULE HmpQueuePairProofs --------------------------
(***************************************************************************)
(* Proofs about HmpQueuePair, for any transports and any choice of faults:  *)
(* what a transport holds at each step of its set-up, its error paths       *)
(* included, and which transports completions can still be under way for.   *)
(***************************************************************************)
EXTENDS HmpQueuePair, TLAPS

\* The labels of hmp_cq_get, hmp_qp_create and their error paths.
InSetUp == {"hcq", "chan", "nonblock", "watch", "cq", "notify", "qp", "connect",
            "cleaneventfd", "cleanchannel", "cleanhcq", "freehcq", "qprelease"}
Label == Outcome \cup InSetUp \cup {"ec", "ecnonblock", "ecwatch", "cleanec", "cleantrans"}

\* Before hmp_cq_get has allocated anything.
Early == {"none", "ec", "ecnonblock", "ecwatch", "cleanec", "cleantrans", "created", "hcq"}

\* What transport t holds (h) when it is at label l.
Stage(t, l, h) ==
  /\ "watch" \in h => "chan" \in h
  /\ "ecwatch" \in h => "ec" \in h
  /\ "qp" \in h => "cq" \in h
  /\ l \in Early => h \cap {"hcq", "chan", "watch", "cq", "qp"} = {}
  /\ l \in Early \ {"created", "hcq"} => "ecwatch" \notin h
  /\ l \in {"ecnonblock", "ecwatch"} => "ec" \in h
  /\ l \in {"chan", "nonblock", "watch", "cq", "notify", "qp", "connect", "up", "down"} =>
       "hcq" \in h
  /\ l \in {"nonblock", "watch", "cq", "notify", "qp", "connect", "up"} => "chan" \in h
  /\ l \in {"chan", "nonblock", "watch", "cleanchannel", "cleanhcq"} => "watch" \notin h
  /\ l \in {"chan", "nonblock", "watch", "cq"} => "cq" \notin h
  /\ l \in {"notify", "qp", "freehcq", "connect", "up", "down"} => "cq" \in h
  /\ l = "chan" => "chan" \notin h
  /\ l = "cleanhcq" /\ "chan" \in h => "cq" \in h
  /\ l \in {"notify", "qp", "freehcq", "cleaneventfd", "cleanchannel", "cleanhcq"} => "qp" \notin h
  /\ l = "qprelease" => t \in Active
  /\ l = "failed" /\ "cq" \notin h =>
       h \cap {"hcq", "watch", "qp"} = {} /\ ("chan" \in h => t \in Active)

TypeInv ==
  /\ pc \in [Trans -> Label] /\ has \in [Trans -> SUBSET Resource]
  /\ cm \in [Trans -> {"none", "CONNECT_REQUEST", "ROUTE_RESOLVED", "DISCONNECTED"}]
  /\ comp \in [Trans -> BOOLEAN]
  /\ batch \subseteq Fd /\ cur \in Fd

HoldInv == \A t \in Trans : Stage(t, pc[t], has[t])

\* A queue pair is set up inside the handler of its event.
HandlerInv == \A t \in Trans : pc[t] \in InSetUp => cur = EventFd(t)

\* Completions are under way only for a queue pair that was connected.
CompInv ==
  \A t \in Trans :
    comp[t] \/ CqFd(t) \in batch \/ cur = CqFd(t) => pc[t] \in {"up", "down"}

IInv == TypeInv /\ HoldInv /\ HandlerInv /\ CompInv

-----------------------------------------------------------------------------
(* One transport at a time *)

\* Every step of a transport's set-up, in the main thread or in a handler.
SetUpStep(t) == CreateStep(t) \/ CqStep(t) \/ QpStep(t) \/ OnDisconnected(t)

\* What a building block assigns.
Moves(t, l, h) ==
  /\ pc' = [pc EXCEPT ![t] = l] /\ has' = [has EXCEPT ![t] = h]
  /\ UNCHANGED <<cm, comp, batch, cur>>

\* A call that makes a resource, or fails.
LEMMA AcquireMoves ==
  ASSUME TypeInv, NEW t \in Trans, NEW here, NEW r, NEW next, NEW call, NEW error,
         Acquire(t, here, r, next, call, error)
  PROVE  pc[t] = here /\ (Moves(t, next, has[t] \cup {r}) \/ Moves(t, error, has[t]))
<1>1. has' = has => has' = [has EXCEPT ![t] = has[t]]
  BY DEF TypeInv
<1> QED
  BY <1>1 DEF Acquire, Moves, Goto, Env

\* A call that makes nothing.
LEMMA AttemptMoves ==
  ASSUME TypeInv, NEW t \in Trans, NEW here, NEW next, NEW call, NEW error,
         Attempt(t, here, next, call, error)
  PROVE  pc[t] = here /\ (Moves(t, next, has[t]) \/ Moves(t, error, has[t]))
<1>1. has' = has => has' = [has EXCEPT ![t] = has[t]]
  BY DEF TypeInv
<1> QED
  BY <1>1 DEF Attempt, Moves, Goto, Env

\* A step of an error path.
LEMMA GiveBackMoves ==
  ASSUME TypeInv, NEW t \in Trans, NEW here, NEW rs, NEW next,
         GiveBack(t, here, rs, next)
  PROVE  pc[t] = here /\ Moves(t, next, has[t] \ rs)
  BY DEF TypeInv, GiveBack, Moves, Goto, Env

\* A step of the set-up takes one transport to a label whose stage it is in.
LEMMA StageStep ==
  ASSUME IInv, NEW t \in Trans, SetUpStep(t)
  PROVE  \E l \in Label, h \in SUBSET Resource :
           /\ Moves(t, l, h) /\ Stage(t, l, h)
           /\ l \in InSetUp => cur = EventFd(t)
           /\ pc[t] \in {"up", "down"} => l \in {"up", "down"}
<1> DEFINE Good(l, h) == /\ l \in Label /\ h \in SUBSET Resource
                         /\ Moves(t, l, h) /\ Stage(t, l, h)
                         /\ l \in InSetUp => cur = EventFd(t)
                         /\ pc[t] \in {"up", "down"} => l \in {"up", "down"}
<1>0. /\ TypeInv /\ has[t] \in SUBSET Resource
      /\ Stage(t, pc[t], has[t]) /\ (pc[t] \in InSetUp => cur = EventFd(t))
  BY DEF IInv, TypeInv, HoldInv, HandlerInv
<1> USE DEF Stage, Label, InSetUp, Early, Outcome, Resource
<1>1. CASE AllocTrans(t)
  <2>1. /\ pc[t] = "none"
        /\ Moves(t, "ec", has[t] \cup {"trans"}) \/ Moves(t, "failed", has[t])
    BY <1>0, <1>1, AcquireMoves DEF AllocTrans
  <2>2. Good("ec", has[t] \cup {"trans"}) \/ Good("failed", has[t])
    BY <1>0, <2>1
  <2> QED BY <2>2
<1>2. CASE CreateEc(t)
  <2>1. /\ pc[t] = "ec"
        /\ Moves(t, "ecnonblock", has[t] \cup {"ec"}) \/ Moves(t, "cleantrans", has[t])
    BY <1>0, <1>2, AcquireMoves DEF CreateEc
  <2>2. Good("ecnonblock", has[t] \cup {"ec"}) \/ Good("cleantrans", has[t])
    BY <1>0, <2>1
  <2> QED BY <2>2
<1>3. CASE EcWatch(t)
  <2>1. /\ pc[t] = "ecwatch"
        /\ Moves(t, "created", has[t] \cup {"ecwatch"}) \/ Moves(t, "created", has[t])
    BY <1>0, <1>3, AcquireMoves DEF EcWatch
  <2>2. Good("created", has[t] \cup {"ecwatch"}) \/ Good("created", has[t])
    BY <1>0, <2>1
  <2> QED BY <2>2
<1>4. CASE AllocHcq(t)
  <2>1. /\ pc[t] = "hcq"
        /\ Moves(t, "chan", has[t] \cup {"hcq"}) \/ Moves(t, "failed", has[t])
    BY <1>0, <1>4, AcquireMoves DEF AllocHcq
  <2>2. Good("chan", has[t] \cup {"hcq"}) \/ Good("failed", has[t])
    BY <1>0, <2>1
  <2> QED BY <2>2
<1>5. CASE CreateChannel(t)
  <2>1. /\ pc[t] = "chan"
        /\ Moves(t, "nonblock", has[t] \cup {"chan"}) \/ Moves(t, "cleanhcq", has[t])
    BY <1>0, <1>5, AcquireMoves DEF CreateChannel
  <2>2. Good("nonblock", has[t] \cup {"chan"}) \/ Good("cleanhcq", has[t])
    BY <1>0, <2>1
  <2> QED BY <2>2
<1>6. CASE Watch(t)
  <2>1. /\ pc[t] = "watch"
        /\ Moves(t, "cq", has[t] \cup {"watch"}) \/ Moves(t, "cleanchannel", has[t])
    BY <1>0, <1>6, AcquireMoves DEF Watch
  <2>2. Good("cq", has[t] \cup {"watch"}) \/ Good("cleanchannel", has[t])
    BY <1>0, <2>1
  <2> QED BY <2>2
<1>7. CASE CreateCq(t)
  <2>1. /\ pc[t] = "cq"
        /\ Moves(t, "notify", has[t] \cup {"cq"}) \/ Moves(t, "cleaneventfd", has[t])
    BY <1>0, <1>7, AcquireMoves DEF CreateCq
  <2>2. Good("notify", has[t] \cup {"cq"}) \/ Good("cleaneventfd", has[t])
    BY <1>0, <2>1
  <2> QED BY <2>2
<1>8. CASE CreateQp(t)
  <2>1. /\ pc[t] = "qp"
        /\ Moves(t, "connect", has[t] \cup {"qp"}) \/ Moves(t, "freehcq", has[t])
    BY <1>0, <1>8, AcquireMoves DEF CreateQp
  <2>2. Good("connect", has[t] \cup {"qp"}) \/ Good("freehcq", has[t])
    BY <1>0, <2>1
  <2> QED BY <2>2
<1>9. CASE EcNonblock(t)
  <2>1. pc[t] = "ecnonblock" /\ (Moves(t, "ecwatch", has[t]) \/ Moves(t, "cleanec", has[t]))
    BY <1>0, <1>9, AttemptMoves DEF EcNonblock
  <2>2. Good("ecwatch", has[t]) \/ Good("cleanec", has[t])
    BY <1>0, <2>1
  <2> QED BY <2>2
<1>10. CASE StartQp(t)
  <2>1. /\ pc[t] = "created" /\ cur = EventFd(t)
        /\ Moves(t, "hcq", has[t]) \/ Moves(t, "failed", has[t])
    BY <1>0, <1>10, AttemptMoves DEF StartQp
  <2>2. Good("hcq", has[t]) \/ Good("failed", has[t])
    BY <1>0, <2>1
  <2> QED BY <2>2
<1>11. CASE Nonblock(t)
  <2>1. pc[t] = "nonblock" /\ (Moves(t, "watch", has[t]) \/ Moves(t, "cleanchannel", has[t]))
    BY <1>0, <1>11, AttemptMoves DEF Nonblock
  <2>2. Good("watch", has[t]) \/ Good("cleanchannel", has[t])
    BY <1>0, <2>1
  <2> QED BY <2>2
<1>12. CASE ReqNotify(t)
  <2>1. pc[t] = "notify" /\ (Moves(t, "qp", has[t]) \/ Moves(t, "cleaneventfd", has[t]))
    BY <1>0, <1>12, AttemptMoves DEF ReqNotify
  <2>2. Good("qp", has[t]) \/ Good("cleaneventfd", has[t])
    BY <1>0, <2>1
  <2> QED BY <2>2
<1>13. CASE Connect(t)
  <2>1. /\ pc[t] = "connect"
        /\ \/ Moves(t, "up", has[t]) \/ Moves(t, "failed", has[t])
           \/ t \in Active /\ Moves(t, "qprelease", has[t])
    BY <1>0, <1>13, AttemptMoves DEF Connect
  <2>2. Good("up", has[t]) \/ Good("failed", has[t]) \/ Good("qprelease", has[t])
    BY <1>0, <2>1
  <2> QED BY <2>2
<1>14. CASE CleanEc(t)
  <2>1. pc[t] = "cleanec" /\ Moves(t, "cleantrans", has[t] \ {"ec"})
    BY <1>0, <1>14, GiveBackMoves DEF CleanEc
  <2>2. Good("cleantrans", has[t] \ {"ec"})
    BY <1>0, <2>1
  <2> QED BY <2>2
<1>15. CASE CleanTrans(t)
  <2>1. pc[t] = "cleantrans" /\ Moves(t, "failed", has[t] \ {"trans"})
    BY <1>0, <1>15, GiveBackMoves DEF CleanTrans
  <2>2. Good("failed", has[t] \ {"trans"})
    BY <1>0, <2>1
  <2> QED BY <2>2
<1>16. CASE CleanEventFd(t)
  <2>1. pc[t] = "cleaneventfd" /\ Moves(t, "cleanchannel", has[t] \ {"watch"})
    BY <1>0, <1>16, GiveBackMoves DEF CleanEventFd
  <2>2. Good("cleanchannel", has[t] \ {"watch"})
    BY <1>0, <2>1
  <2> QED BY <2>2
<1>17. CASE CleanHcq(t)
  <2>1. pc[t] = "cleanhcq" /\ Moves(t, "failed", has[t] \ {"hcq"})
    BY <1>0, <1>17, GiveBackMoves DEF CleanHcq
  <2>2. Good("failed", has[t] \ {"hcq"})
    BY <1>0, <2>1
  <2> QED BY <2>2
<1>18. CASE FreeHcq(t)
  <2>1. pc[t] = "freehcq" /\ Moves(t, "failed", has[t] \ {"hcq"})
    BY <1>0, <1>18, GiveBackMoves DEF FreeHcq
  <2>2. Good("failed", has[t] \ {"hcq"})
    BY <1>0, <2>1
  <2> QED BY <2>2
<1>19. CASE QpRelease(t)
  <2>1. pc[t] = "qprelease" /\ Moves(t, "failed", has[t] \ {"qp", "cq", "watch", "hcq"})
    BY <1>0, <1>19, GiveBackMoves DEF QpRelease
  <2>2. Good("failed", has[t] \ {"qp", "cq", "watch", "hcq"})
    BY <1>0, <2>1
  <2> QED BY <2>2
<1>20. CASE CleanChannel(t)
  <2>1. /\ pc[t] = "cleanchannel"
        /\ \/ "cq" \in has[t] /\ Moves(t, "cleanhcq", has[t] \ {})
           \/ "cq" \notin has[t] /\ Moves(t, "cleanhcq", has[t] \ {"chan"})
    BY <1>0, <1>20, GiveBackMoves DEF CleanChannel
  <2>2. Good("cleanhcq", has[t] \ {}) \/ Good("cleanhcq", has[t] \ {"chan"})
    BY <1>0, <2>1
  <2> QED BY <2>2
<1>21. CASE OnDisconnected(t)
  <2>1. pc[t] = "up" /\ Moves(t, "down", has[t] \ {"qp", "watch", "ecwatch"})
    BY <1>0, <1>21 DEF OnDisconnected, Moves, Goto, Env, TypeInv
  <2>2. Good("down", has[t] \ {"qp", "watch", "ecwatch"})
    BY <1>0, <2>1
  <2> QED BY <2>2
<1> QED
  BY <1>1, <1>2, <1>3, <1>4, <1>5, <1>6, <1>7, <1>8, <1>9, <1>10, <1>11, <1>12,
     <1>13, <1>14, <1>15, <1>16, <1>17, <1>18, <1>19, <1>20, <1>21
     DEF SetUpStep, CreateStep, CqStep, QpStep

-----------------------------------------------------------------------------
(* The whole system *)

\* The descriptors of different transports, and the two of one, differ.
LEMMA FdsDiffer ==
  \A t, u \in Trans : /\ EventFd(t) # CqFd(u) /\ EventFd(t) # Idle /\ CqFd(t) # Idle
                      /\ EventFd(t) = EventFd(u) => t = u
                      /\ CqFd(t) = CqFd(u) => t = u
                      /\ EventFd(t) \in Fd /\ CqFd(t) \in Fd
  BY DEF EventFd, CqFd, Idle, Fd

\* A step of the set-up keeps the inductive invariant.
LEMMA SetUpKeeps ==
  ASSUME IInv, NEW t \in Trans, SetUpStep(t)
  PROVE  IInv'
<1>1. PICK l \in Label, h \in SUBSET Resource :
        /\ Moves(t, l, h) /\ Stage(t, l, h)
        /\ l \in InSetUp => cur = EventFd(t)
        /\ pc[t] \in {"up", "down"} => l \in {"up", "down"}
  BY StageStep
<1>2. /\ pc'[t] = l /\ has'[t] = h
      /\ \A u \in Trans : u # t => pc'[u] = pc[u] /\ has'[u] = has[u]
      /\ UNCHANGED <<cm, comp, batch, cur>>
  BY <1>1 DEF Moves, IInv, TypeInv
<1>3. TypeInv'
  BY <1>1 DEF Moves, IInv, TypeInv
<1>4. HoldInv'
  <2> SUFFICES ASSUME NEW u \in Trans PROVE Stage(u, pc'[u], has'[u])
    BY DEF HoldInv
  <2>1. CASE u = t
    BY <1>1, <1>2, <2>1
  <2>2. CASE u # t
    BY <1>2, <2>2 DEF IInv, HoldInv
  <2> QED BY <2>1, <2>2
<1>5. HandlerInv'
  BY <1>1, <1>2 DEF IInv, HandlerInv, EventFd
<1>6. CompInv'
  BY <1>1, <1>2 DEF IInv, CompInv, CqFd
<1> QED
  BY <1>3, <1>4, <1>5, <1>6 DEF IInv

\* A step of the loop, the connection manager or the adapter keeps it.
LoopStep ==
  \/ \E t \in Trans :
       \/ LeaveEventHandler(t) \/ LeaveCompHandler(t)
       \/ CmRequest(t) \/ CmRoute(t) \/ CmDisconnect(t) \/ Completion(t)
  \/ EpollWait \/ \E f \in batch : Dispatch(f)

LEMMA LoopKeeps ==
  ASSUME IInv, LoopStep
  PROVE  IInv'
<1>1. UNCHANGED <<pc, has>>
  BY DEF LoopStep, LeaveEventHandler, LeaveCompHandler, CmRequest, CmRoute,
     CmDisconnect, CmEvent, Completion, EpollWait, Dispatch
<1>2. HoldInv'
  BY <1>1 DEF IInv, HoldInv
<1>3. CASE \E t \in Trans : LeaveEventHandler(t)
  <2>1. PICK t \in Trans : LeaveEventHandler(t)
    BY <1>3
  <2>2. /\ cur = EventFd(t) /\ pc[t] \notin InSetUp /\ cur' = Idle
        /\ cm' = [cm EXCEPT ![t] = "none"] /\ UNCHANGED <<comp, batch>>
    BY <2>1 DEF LeaveEventHandler, Outcome, InSetUp
  <2>3. TypeInv'
    BY <1>1, <2>2 DEF IInv, TypeInv, Idle, Fd
  <2>4. HandlerInv'
    BY <1>1, <2>2, FdsDiffer DEF IInv, HandlerInv, EventFd
  <2>5. CompInv'
    BY <1>1, <2>2, FdsDiffer DEF IInv, CompInv, CqFd
  <2> QED BY <1>2, <2>3, <2>4, <2>5 DEF IInv
<1>4. CASE \E t \in Trans : LeaveCompHandler(t)
  <2>1. PICK t \in Trans : LeaveCompHandler(t)
    BY <1>4
  <2>2. /\ cur = CqFd(t) /\ cur' = Idle
        /\ comp' = [comp EXCEPT ![t] = FALSE] /\ UNCHANGED <<cm, batch>>
    BY <2>1 DEF LeaveCompHandler
  <2>3. TypeInv'
    BY <1>1, <2>2 DEF IInv, TypeInv, Idle, Fd
  <2>4. HandlerInv'
    BY <1>1, <2>2, FdsDiffer DEF IInv, HandlerInv, EventFd
  <2>5. CompInv'
    BY <1>1, <2>2, FdsDiffer DEF IInv, CompInv, CqFd, TypeInv
  <2> QED BY <1>2, <2>3, <2>4, <2>5 DEF IInv
<1>5. CASE \E t \in Trans : CmRequest(t) \/ CmRoute(t) \/ CmDisconnect(t)
  <2>1. /\ UNCHANGED <<comp, batch, cur>>
        /\ \E t \in Trans, e \in {"CONNECT_REQUEST", "ROUTE_RESOLVED", "DISCONNECTED"} :
             cm' = [cm EXCEPT ![t] = e]
    BY <1>5 DEF CmRequest, CmRoute, CmDisconnect, CmEvent
  <2>2. TypeInv'
    BY <1>1, <2>1 DEF IInv, TypeInv
  <2> QED BY <1>1, <1>2, <2>1, <2>2 DEF IInv, HandlerInv, CompInv, EventFd, CqFd
<1>6. CASE \E t \in Trans : Completion(t)
  <2>1. PICK t \in Trans : Completion(t)
    BY <1>6
  <2>2. /\ pc[t] = "up" /\ comp' = [comp EXCEPT ![t] = TRUE]
        /\ UNCHANGED <<cm, batch, cur>>
    BY <2>1 DEF Completion
  <2>3. TypeInv'
    BY <1>1, <2>2 DEF IInv, TypeInv
  <2>4. CompInv'
    BY <1>1, <2>2 DEF IInv, CompInv, CqFd, TypeInv
  <2> QED BY <1>1, <1>2, <2>2, <2>3, <2>4 DEF IInv, HandlerInv, EventFd
<1>7. CASE EpollWait
  <2>1. /\ UNCHANGED <<cm, comp, cur>> /\ batch' = UNION {Ready(t) : t \in Trans}
    BY <1>7 DEF EpollWait
  <2>2. \A f \in batch' : \E t \in Trans : f = EventFd(t) \/ (f = CqFd(t) /\ comp[t])
    BY <2>1 DEF Ready
  <2>3. TypeInv'
    BY <1>1, <2>1, <2>2, FdsDiffer DEF IInv, TypeInv
  <2>4. CompInv'
    <3> SUFFICES ASSUME NEW t \in Trans, comp'[t] \/ CqFd(t) \in batch' \/ cur' = CqFd(t)
                 PROVE  pc[t] \in {"up", "down"}
      BY <1>1 DEF CompInv, CqFd
    <3>1. CqFd(t) \in batch' => comp[t]
      BY <2>2, FdsDiffer
    <3> QED BY <2>1, <3>1 DEF IInv, CompInv
  <2> QED BY <1>1, <1>2, <2>1, <2>3, <2>4 DEF IInv, HandlerInv, EventFd
<1>8. CASE \E f \in batch : Dispatch(f)
  <2>1. PICK f \in batch : Dispatch(f)
    BY <1>8
  <2>2. cur = Idle /\ cur' = f /\ batch' = batch \ {f} /\ UNCHANGED <<cm, comp>>
    BY <2>1 DEF Dispatch
  <2>3. TypeInv'
    BY <1>1, <2>2 DEF IInv, TypeInv
  <2>4. HandlerInv'
    BY <1>1, <2>2, FdsDiffer DEF IInv, HandlerInv, EventFd
  <2>5. CompInv'
    BY <1>1, <2>2 DEF IInv, CompInv, CqFd
  <2> QED BY <1>2, <2>3, <2>4, <2>5 DEF IInv
<1> QED
  BY <1>3, <1>4, <1>5, <1>6, <1>7, <1>8 DEF LoopStep

\* The inductive invariant holds in every state.
LEMMA Inductive == Spec => []IInv
<1>1. Init => IInv
  <2> SUFFICES ASSUME Init PROVE IInv
    OBVIOUS
  <2>1. TypeInv
    BY DEF Init, TypeInv, Label, Outcome, Resource, Idle, Fd
  <2>2. HoldInv
    BY DEF Init, HoldInv, Stage, Early
  <2>3. HandlerInv /\ CompInv
    BY FdsDiffer DEF Init, HandlerInv, CompInv, InSetUp
  <2> QED BY <2>1, <2>2, <2>3 DEF IInv
<1>2. IInv /\ [Next]_vars => IInv'
  <2> SUFFICES ASSUME IInv, [Next]_vars PROVE IInv'
    OBVIOUS
  <2>1. CASE UNCHANGED vars
    BY <2>1 DEF vars, IInv, TypeInv, HoldInv, HandlerInv, CompInv, EventFd, CqFd
  <2>2. CASE Next
    <3>1. LoopStep \/ \E t \in Trans : SetUpStep(t)
      BY <2>2, Zenon DEF Next, LoopStep, SetUpStep
    <3> QED BY <3>1, LoopKeeps, SetUpKeeps
  <2> QED BY <2>1, <2>2
<1> QED
  BY <1>1, <1>2, PTL DEF Spec

-----------------------------------------------------------------------------
(* The properties *)

\* Every variable of the set-up has its type, and hmp_cq_get and hmp_qp_create
\* run only inside the handler of their transport's event.
THEOREM TypeCorrect == Spec => []TypeOK
<1>1. IInv => TypeOK
  <2> SUFFICES ASSUME IInv PROVE TypeOK
    OBVIOUS
  <2>1. pc \in [Trans -> Label] /\ has \in [Trans -> SUBSET Resource]
    BY DEF IInv, TypeInv
  <2>2. \A t \in Trans : pc[t] \notin Outcome /\ has[t] \cap {"hcq", "chan"} # {} =>
          cur = EventFd(t)
    BY <2>1 DEF IInv, HoldInv, HandlerInv, Stage, Label, Early, Outcome, InSetUp
  <2> QED BY <2>1, <2>2 DEF TypeOK, IInv, TypeInv, Label, InSetUp
<1> QED
  BY <1>1, Inductive, PTL

\* Whichever calls fail, the cleanup labels take a descriptor out of the epoll
\* instance before they close it.
THEOREM WatchedFdsOpen == Spec => []RegisteredFdsOpen
<1>1. IInv => RegisteredFdsOpen
  BY DEF IInv, HoldInv, Stage, RegisteredFdsOpen
<1> QED
  BY <1>1, Inductive, PTL

\* hmp_cq_comp_channel_handler never runs on a freed hmp_cq: completions come
\* only from queue pairs that were connected, and those keep theirs.
THEOREM CompletionsFindTheirQueue == Spec => []HandlersFindTheirQueue
<1>1. IInv => HandlersFindTheirQueue
  BY DEF IInv, HoldInv, CompInv, Stage, HandlersFindTheirQueue
<1> QED
  BY <1>1, Inductive, PTL

\* A set-up that failed before its completion queue was made, or gave the queue
\* back, leaves no hmp_cq, registration or queue pair.
THEOREM FailuresRelease == Spec => []FailureReleases
<1>1. IInv => FailureReleases
  BY DEF IInv, HoldInv, Stage, FailureReleases
<1> QED
  BY <1>1, Inductive, PTL
=============================================================================
