-------------------------- MODULE HmpCompletionProofs --------------------------
(***************************************************************************)
(* Proofs about HmpCompletion, for every number of requests, every size of  *)
(* the queues and every choice of faults.                                   *)
(***************************************************************************)
EXTENDS HmpCompletion, FiniteSetTheorems, TLAPS

-----------------------------------------------------------------------------
(* The inductive invariant.                                                *)

\* An armed queue holds only what the handler is about to poll; an unarmed one
\* has an event on its way or is about to be armed.
AnnounceInv ==
  /\ armed /\ cq # <<>> => handler \in {"poll", "handle"}
  /\ ~armed /\ ~deaf => chan > 0 \/ handler = "notify"
  /\ handler = "get" => chan > 0

\* Each queued request is in the queue once, and nothing else is.
CqInv ==
  /\ \A i \in 1 .. Len(cq) : stage[cq[i]] = "queued"
  /\ \A i, j \in 1 .. Len(cq) : cq[i] = cq[j] => i = j

\* A task that is DONE belongs to a read that was performed and polled.
RequestInv ==
  \A r \in Reqs :
    /\ done[r] => op[r] = "RDMA_READ" /\ status[r] = "good" /\ stage[r] = "polled"
    /\ stage[r] \in {"queued", "lost", "polled"} => status[r] \in {"good", "bad"}

\* The main thread waits for a read it has tried to post, and the handler
\* holds a completion that it polled.
WaitInv ==
  /\ reader # NoReq => op[reader] = "RDMA_READ" /\ stage[reader] # "free"
  /\ wc # NoReq => stage[wc] = "polled"

\* Why a read returns only after its transfer, and no completion is overlooked.
IInv == TypeOK /\ AnnounceInv /\ CqInv /\ RequestInv /\ WaitInv

-----------------------------------------------------------------------------
(* Posting and completing *)

\* The queue does not notice a request that changes from free to posted.
LEMMA CqKept ==
  ASSUME CqInv, cq \in Seq(Reqs), UNCHANGED cq,
         \A r \in Reqs : stage[r] = "queued" => stage'[r] = "queued"
  PROVE  CqInv'
<1>1. \A i \in 1 .. Len(cq) : cq[i] \in Reqs
  OBVIOUS
<1> QED
  BY <1>1 DEF CqInv

\* What posting does to the request and to nothing else.
LEMMA PostEffect ==
  ASSUME TypeOK, NEW r \in Reqs, NEW o \in Opcode, PostSend(r, o)
  PROVE  /\ stage[r] = "free"
         /\ op' \in [Reqs -> Opcode \cup {"none"}] /\ op'[r] = o
         /\ stage' \in [Reqs -> Stage] /\ stage'[r] \in {"posted", "refused"}
         /\ \A q \in Reqs : q # r => op'[q] = op[q] /\ stage'[q] = stage[q]
         /\ alive' \in BOOLEAN
         /\ UNCHANGED <<connected, done, qp, status, cq, overrun, armed, chan, runVars>>
         /\ \/ stage'[r] = "posted" /\ sq' = Append(sq, r)
            \/ stage'[r] = "refused" /\ sq' = sq
<1> USE DEF TypeOK, PostSend
<1>1. op' = [op EXCEPT ![r] = o]
  OBVIOUS
<1>2. \/ stage' = [stage EXCEPT ![r] = "posted"] /\ sq' = Append(sq, r)
      \/ stage' = [stage EXCEPT ![r] = "refused"] /\ sq' = sq
  OBVIOUS
<1>3. stage' \in [Reqs -> Stage] /\ stage'[r] \in {"posted", "refused"}
  BY <1>2 DEF Stage
<1>8. \/ stage'[r] = "posted" /\ sq' = Append(sq, r)
      \/ stage'[r] = "refused" /\ sq' = sq
  BY <1>2
<1>4. \A q \in Reqs : q # r => stage'[q] = stage[q]
  BY <1>2
<1>5. alive' \in BOOLEAN
  OBVIOUS
<1>6. /\ op' \in [Reqs -> Opcode \cup {"none"}] /\ op'[r] = o
      /\ \A q \in Reqs : q # r => op'[q] = op[q]
  BY <1>1
<1>7. /\ stage[r] = "free"
      /\ UNCHANGED <<connected, done, qp, status, cq, overrun, armed, chan, runVars>>
  BY Zenon
<1> HIDE DEF TypeOK, PostSend
<1> QED
  BY <1>3, <1>4, <1>5, <1>6, <1>7, <1>8

\* Posting by either thread.
LEMMA PostStep ==
  ASSUME IInv, NEW r \in Reqs, NEW o \in Opcode, PostSend(r, o),
         reader' = reader \/ (reader' = r /\ o = "RDMA_READ"), burst' \in {burst, burst + 1}
  PROVE  IInv'
<1>1. /\ stage[r] = "free"
      /\ op' \in [Reqs -> Opcode \cup {"none"}] /\ op'[r] = o
      /\ stage' \in [Reqs -> Stage] /\ stage'[r] \in {"posted", "refused"}
      /\ \A q \in Reqs : q # r => op'[q] = op[q] /\ stage'[q] = stage[q]
      /\ alive' \in BOOLEAN
      /\ UNCHANGED <<connected, done, qp, status, cq, overrun, armed, chan, runVars>>
      /\ sq' = sq \/ sq' = Append(sq, r)
  BY PostEffect DEF IInv
<1>2. TypeOK'
  <2>2. sq \in Seq(Reqs) /\ burst \in Nat
    BY DEF IInv, TypeOK
  <2>3. sq' \in Seq(Reqs) /\ burst' \in Nat
    BY <1>1, <2>2
  <2>1. TypeOK /\ reader' \in Reqs \cup {NoReq} /\ sq' \in Seq(Reqs) /\ burst' \in Nat
    BY <2>3 DEF IInv, TypeOK
  <2> QED BY <1>1, <2>1 DEF TypeOK, runVars
<1>3. AnnounceInv'
  BY <1>1 DEF IInv, AnnounceInv, runVars
<1>4. CqInv'
  BY <1>1, CqKept DEF IInv, TypeOK
<1>5. RequestInv'
  BY <1>1 DEF IInv, RequestInv
<1>6. WaitInv'
  <2>1. reader \in Reqs \cup {NoReq} /\ wc \in Reqs \cup {NoReq} /\ UNCHANGED wc
    BY <1>1 DEF IInv, TypeOK, runVars
  <2>2. wc' # NoReq => stage'[wc'] = "polled"
    BY <1>1, <2>1 DEF IInv, WaitInv
  <2>3. reader' # NoReq => op'[reader'] = "RDMA_READ" /\ stage'[reader'] # "free"
    BY <1>1, <2>1 DEF IInv, WaitInv
  <2> QED BY <2>2, <2>3 DEF WaitInv
<1> QED
  BY <1>2, <1>3, <1>4, <1>5, <1>6 DEF IInv

\* What the adapter does to the request it performed.
LEMMA CompleteEffect ==
  ASSUME TypeOK, NEW r \in Reqs, Complete(r)
  PROVE  /\ stage[r] = "posted" /\ UNCHANGED <<appVars, qp, runVars>>
         /\ status' \in [Reqs -> {"none", "good", "bad"}] /\ status'[r] \in {"good", "bad"}
         /\ stage' \in [Reqs -> Stage] /\ stage'[r] \in {"queued", "lost"}
         /\ \A q \in Reqs : q # r => status'[q] = status[q] /\ stage'[q] = stage[q]
         /\ sq' \in Seq(Reqs)
<1>5. sq' \in Seq(Reqs)
  <2>1. sq \in Seq(Reqs)
    BY DEF TypeOK
  <2>2. sq' = sq \/ (sq # <<>> /\ sq' = Tail(sq))
    BY Zenon DEF Complete
  <2> QED BY <2>1, <2>2
<1> USE DEF TypeOK, Complete
<1>1. status' = [status EXCEPT ![r] = "good"] \/ status' = [status EXCEPT ![r] = "bad"]
  OBVIOUS
<1>2. stage' = [stage EXCEPT ![r] = "queued"] \/ stage' = [stage EXCEPT ![r] = "lost"]
  OBVIOUS
<1>3. /\ status' \in [Reqs -> {"none", "good", "bad"}] /\ status'[r] \in {"good", "bad"}
      /\ \A q \in Reqs : q # r => status'[q] = status[q]
  BY <1>1
<1>4. /\ stage' \in [Reqs -> Stage] /\ stage'[r] \in {"queued", "lost"}
      /\ \A q \in Reqs : q # r => stage'[q] = stage[q]
  BY <1>2 DEF Stage
<1> QED
  BY <1>3, <1>4, <1>5

\* A completion that enters the queue.
LEMMA EnterQueue ==
  ASSUME TypeOK, CqInv, NEW r \in Reqs, stage[r] = "posted", cq' = Append(cq, r),
         stage'[r] = "queued", \A q \in Reqs : q # r => stage'[q] = stage[q]
  PROVE  cq' \in Seq(Reqs) /\ CqInv'
<1>1. /\ cq \in Seq(Reqs) /\ Len(cq') = Len(cq) + 1 /\ cq'[Len(cq) + 1] = r
      /\ \A i \in 1 .. Len(cq) : cq'[i] = cq[i] /\ cq[i] \in Reqs
  BY DEF TypeOK
<1>2. Len(cq) \in Nat
  BY <1>1
<1>3. \A i \in 1 .. Len(cq) : cq[i] # r /\ stage'[cq[i]] = "queued"
  BY <1>1 DEF CqInv
<1>4. \A i \in 1 .. Len(cq') : i \in 1 .. Len(cq) \/ i = Len(cq) + 1
  BY <1>1, <1>2
<1>5. \A i \in 1 .. Len(cq') : stage'[cq'[i]] = "queued"
  BY <1>1, <1>3, <1>4
<1>6. \A i, j \in 1 .. Len(cq') : cq'[i] = cq'[j] => i = j
  BY <1>1, <1>3, <1>4 DEF CqInv
<1>7. cq' \in Seq(Reqs)
  BY <1>1
<1> QED
  BY <1>5, <1>6, <1>7 DEF CqInv

\* The adapter performs a request.
LEMMA CompleteStep ==
  ASSUME IInv, NEW r \in Reqs, Complete(r)
  PROVE  IInv'
<1>1. /\ stage[r] = "posted" /\ UNCHANGED <<appVars, qp, runVars>>
      /\ status' \in [Reqs -> {"none", "good", "bad"}] /\ status'[r] \in {"good", "bad"}
      /\ stage' \in [Reqs -> Stage] /\ stage'[r] \in {"queued", "lost"}
      /\ \A q \in Reqs : q # r => status'[q] = status[q] /\ stage'[q] = stage[q]
      /\ sq' \in Seq(Reqs)
  BY CompleteEffect DEF IInv
<1>2. RequestInv'
  BY <1>1 DEF IInv, RequestInv, appVars
<1>3. WaitInv'
  BY <1>1 DEF IInv, TypeOK, WaitInv, appVars, runVars
<1>4. CASE stage' = [stage EXCEPT ![r] = "queued"] /\ cq' = Append(cq, r)
           /\ armed' = FALSE /\ chan' = (IF armed THEN chan + 1 ELSE chan) /\ UNCHANGED overrun
  <2>1. stage'[r] = "queued"
    BY <1>4 DEF IInv, TypeOK
  <2>2. cq' \in Seq(Reqs) /\ CqInv'
    BY <1>1, <1>4, <2>1, EnterQueue DEF IInv
  <2>3. TypeOK'
    <3>1. armed' \in BOOLEAN /\ chan' \in Nat
      <4>1. chan \in Nat
        BY DEF IInv, TypeOK
      <4>2. armed => chan' = chan + 1
        BY <1>4, Zenon
      <4>3. ~armed => chan' = chan
        BY <1>4, Zenon
      <4>4. armed' \in BOOLEAN
        BY <1>4
      <4>5. chan' = chan \/ chan' = chan + 1
        BY <4>2, <4>3, Zenon
      <4>6. chan' \in Nat
        BY <4>1, <4>5
      <4> QED BY <4>4, <4>6
    <3>2. TypeOK /\ UNCHANGED <<appVars, qp, overrun, runVars>>
      BY <1>1, <1>4 DEF IInv
    <3> QED BY <1>1, <2>2, <3>1, <3>2 DEF TypeOK, appVars, runVars
  <2>4. AnnounceInv'
    <3>1. ~armed' /\ (armed => chan' > 0) /\ (~armed => chan' = chan)
      BY <1>4 DEF IInv, TypeOK
    <3> QED BY <1>1, <3>1 DEF IInv, AnnounceInv, runVars
  <2> QED BY <1>2, <1>3, <2>2, <2>3, <2>4 DEF IInv
<1>5. CASE overrun' = TRUE /\ UNCHANGED <<cq, armed, chan>>
  <2>1. CqInv'
    BY <1>1, <1>5, CqKept DEF IInv, TypeOK
  <2>2. TypeOK'
    BY <1>1, <1>5 DEF IInv, TypeOK, appVars, runVars
  <2>3. AnnounceInv'
    BY <1>1, <1>5 DEF IInv, AnnounceInv, runVars
  <2> QED BY <1>2, <1>3, <2>1, <2>2, <2>3 DEF IInv
<1> QED
  BY <1>4, <1>5 DEF Complete

-----------------------------------------------------------------------------
(* The epoll thread and the main thread *)

\* Waking up, taking the event and arming the queue again.
LEMMA ArmStep ==
  ASSUME IInv, Dispatch \/ GetCqEvent \/ ReqNotify
  PROVE  IInv'
<1>1. UNCHANGED <<appVars, qp, stage, status, sq, cq, overrun>>
  BY DEF Dispatch, GetCqEvent, ReqNotify, nicVars
<1>2. wc' \in {wc, NoReq}
  BY DEF Dispatch, GetCqEvent, ReqNotify
<1>3. CqInv' /\ RequestInv' /\ WaitInv'
  BY <1>1, <1>2 DEF IInv, CqInv, RequestInv, WaitInv, appVars
<1>4. CASE Dispatch
  BY <1>1, <1>2, <1>3, <1>4 DEF Dispatch, IInv, TypeOK, Step, AnnounceInv, appVars, nicVars
<1>5. CASE GetCqEvent
  <2>1. chan > 0 /\ handler' \in {"notify", "idle"} /\ UNCHANGED <<armed, deaf>>
        /\ chan' \in {chan - 1, chan} /\ (handler' = "idle" => chan' = chan)
    BY <1>5 DEF GetCqEvent, IInv, AnnounceInv
  <2>2. TypeOK'
    BY <1>1, <1>2, <2>1 DEF IInv, TypeOK, Step, appVars
  <2>3. AnnounceInv'
    BY <1>1, <1>5, <2>1 DEF GetCqEvent, IInv, AnnounceInv
  <2> QED BY <1>3, <2>2, <2>3 DEF IInv
<1>6. CASE ReqNotify
  <2>1. /\ UNCHANGED chan /\ handler = "notify"
        /\ \/ handler' = "poll" /\ armed' = TRUE /\ UNCHANGED deaf
           \/ handler' = "idle" /\ deaf' = TRUE /\ UNCHANGED armed
    BY <1>6 DEF ReqNotify
  <2>2. TypeOK'
    BY <1>1, <1>2, <2>1 DEF IInv, TypeOK, Step, appVars
  <2>3. AnnounceInv'
    BY <1>1, <2>1 DEF IInv, AnnounceInv
  <2> QED BY <1>3, <2>2, <2>3 DEF IInv
<1> QED
  BY <1>4, <1>5, <1>6

\* The entry at the head of the queue is taken.
LEMMA LeaveQueue ==
  ASSUME TypeOK, CqInv, cq # <<>>, cq' = Tail(cq),
         stage' = [stage EXCEPT ![Head(cq)] = "polled"]
  PROVE  /\ Head(cq) \in Reqs /\ stage[Head(cq)] = "queued" /\ stage'[Head(cq)] = "polled"
         /\ stage' \in [Reqs -> Stage] /\ cq' \in Seq(Reqs) /\ CqInv'
         /\ \A q \in Reqs : q # Head(cq) => stage'[q] = stage[q]
<1>1. /\ cq \in Seq(Reqs) /\ Len(cq) \in Nat \ {0} /\ Head(cq) = cq[1]
      /\ \A i \in 1 .. Len(cq) : cq[i] \in Reqs
  BY DEF TypeOK
<1>2. /\ cq' \in Seq(Reqs) /\ Len(cq') = Len(cq) - 1
      /\ \A i \in 1 .. Len(cq') : cq'[i] = cq[i + 1] /\ i + 1 \in 1 .. Len(cq) /\ i + 1 # 1
  BY <1>1
<1>3. Head(cq) \in Reqs /\ stage[Head(cq)] = "queued"
  BY <1>1 DEF CqInv
<1>4. /\ stage' \in [Reqs -> Stage] /\ stage'[Head(cq)] = "polled"
      /\ \A q \in Reqs : q # Head(cq) => stage'[q] = stage[q]
  BY <1>3 DEF TypeOK, Stage
<1>5. \A i \in 1 .. Len(cq') : cq'[i] \in Reqs /\ cq'[i] # Head(cq)
  BY <1>1, <1>2 DEF CqInv
<1>6. \A i \in 1 .. Len(cq') : stage'[cq'[i]] = "queued"
  BY <1>2, <1>4, <1>5 DEF CqInv
<1>7. \A i, j \in 1 .. Len(cq') : cq'[i] = cq'[j] => i = j
  <2> TAKE i \in 1 .. Len(cq'), j \in 1 .. Len(cq')
  <2> HAVE cq'[i] = cq'[j]
  <2>1. i + 1 = j + 1
    BY <1>2 DEF CqInv
  <2> QED BY <1>1, <1>2, <2>1
<1> QED
  BY <1>2, <1>3, <1>4, <1>6, <1>7 DEF CqInv

\* Polling, with its three outcomes.
LEMMA PollStep ==
  ASSUME IInv, PollCq
  PROVE  IInv'
<1>1. /\ handler = "poll" /\ handler' \in {"idle", "handle"}
      /\ UNCHANGED <<appVars, qp, status, sq, overrun, armed, chan, deaf>>
  BY DEF PollCq
<1>2. CASE UNCHANGED <<wc, stage, cq>> /\ (handler' = "idle" => cq = <<>>)
  <2>1. CqInv' /\ RequestInv' /\ WaitInv'
    BY <1>1, <1>2 DEF IInv, CqInv, RequestInv, WaitInv, appVars
  <2>2. TypeOK' /\ AnnounceInv'
    BY <1>1, <1>2 DEF IInv, TypeOK, AnnounceInv, Step, appVars
  <2> QED BY <2>1, <2>2 DEF IInv
<1>3. CASE /\ cq # <<>> /\ handler' = "handle" /\ wc' = Head(cq) /\ cq' = Tail(cq)
           /\ stage' = [stage EXCEPT ![Head(cq)] = "polled"]
  <2>1. /\ Head(cq) \in Reqs /\ stage[Head(cq)] = "queued" /\ stage'[Head(cq)] = "polled"
        /\ stage' \in [Reqs -> Stage] /\ cq' \in Seq(Reqs) /\ CqInv'
        /\ \A q \in Reqs : q # Head(cq) => stage'[q] = stage[q]
    BY <1>3, LeaveQueue DEF IInv
  <2>2. RequestInv'
    BY <1>1, <2>1 DEF IInv, RequestInv, appVars
  <2>3. WaitInv'
    BY <1>1, <1>3, <2>1 DEF IInv, TypeOK, WaitInv, appVars
  <2>4. TypeOK'
    BY <1>1, <1>3, <2>1 DEF IInv, TypeOK, Step, appVars
  <2>5. AnnounceInv'
    BY <1>1, <1>3 DEF IInv, AnnounceInv
  <2> QED BY <2>1, <2>2, <2>3, <2>4, <2>5 DEF IInv
<1> QED
  BY <1>2, <1>3 DEF PollCq

\* Handling a completion, or what was taken for one.
LEMMA HandleStep ==
  ASSUME IInv, HandleWc
  PROVE  IInv'
<1>1. /\ handler = "handle" /\ handler' = "poll" /\ alive' \in BOOLEAN /\ connected' \in BOOLEAN
      /\ UNCHANGED <<reader, op, burst, nicVars, wc, deaf>>
  BY DEF HandleWc, IInv, TypeOK
<1>2. /\ done' \in [Reqs -> BOOLEAN]
      /\ \A r \in Reqs : done'[r] =>
           done[r] \/ (r = wc /\ op[r] = "RDMA_READ" /\ status[r] = "good")
  BY DEF HandleWc, IInv, TypeOK
<1>3. wc \in Reqs => stage[wc] = "polled"
  BY ReqsAssumption DEF IInv, WaitInv
<1>4. RequestInv'
  BY <1>1, <1>2, <1>3 DEF IInv, RequestInv, nicVars
<1>5. CqInv' /\ WaitInv'
  BY <1>1 DEF IInv, CqInv, WaitInv, nicVars
<1>6. TypeOK' /\ AnnounceInv'
  BY <1>1, <1>2 DEF IInv, TypeOK, AnnounceInv, Step, nicVars
<1> QED
  BY <1>4, <1>5, <1>6 DEF IInv

\* A read returns, or the connection goes.
LEMMA ReturnStep ==
  ASSUME IInv, ReadReturn \/ Disconnect
  PROVE  IInv'
<1>1. /\ UNCHANGED <<alive, connected, op, done, stage, status, sq, cq, overrun, armed, chan, wc, deaf>>
      /\ reader' \in {reader, NoReq} /\ qp' \in {qp, "destroyed"} /\ burst' \in {burst, 0}
  BY DEF ReadReturn, Disconnect, appVars, nicVars, runVars
<1>2. \/ handler' = handler
      \/ handler = "idle" /\ chan > 0 /\ handler' = "get"
  BY DEF ReadReturn, Disconnect, runVars
<1>3. TypeOK'
  BY <1>1, <1>2 DEF IInv, TypeOK, Step
<1>4. AnnounceInv'
  <2>1. armed /\ cq # <<>> => handler \in {"poll", "handle"}
    BY DEF IInv, AnnounceInv
  <2>2. ~armed /\ ~deaf => chan > 0 \/ handler = "notify"
    BY DEF IInv, AnnounceInv
  <2>3. handler = "get" => chan > 0
    BY DEF IInv, AnnounceInv
  <2> QED BY <1>1, <1>2, <2>1, <2>2, <2>3 DEF AnnounceInv
<1>5. CqInv' /\ RequestInv' /\ WaitInv'
  BY <1>1 DEF IInv, CqInv, RequestInv, WaitInv
<1> QED
  BY <1>3, <1>4, <1>5 DEF IInv

-----------------------------------------------------------------------------
(* The theorems *)

\* The invariant holds when the transport was built.
LEMMA InvInit == Init => IInv
<1> SUFFICES ASSUME Init PROVE IInv
  OBVIOUS
<1>1. TypeOK
  <2>1. PICK R \in SUBSET Reqs :
          /\ op = [r \in Reqs |-> IF r \in R THEN "RECV" ELSE "none"]
          /\ stage = [r \in Reqs |-> IF r \in R THEN "posted" ELSE "free"]
    BY DEF Init
  <2>2. op \in [Reqs -> Opcode \cup {"none"}] /\ stage \in [Reqs -> Stage]
    BY <2>1 DEF Opcode, Stage
  <2>3. done \in [Reqs -> BOOLEAN] /\ status \in [Reqs -> {"none", "good", "bad"}]
    BY DEF Init
  <2>4. cq \in Seq(Reqs) /\ sq \in Seq(Reqs) /\ burst \in Nat /\ reader \in Reqs \cup {NoReq} /\ wc \in Reqs \cup {NoReq}
    BY DEF Init
  <2>5. /\ alive \in BOOLEAN /\ qp \in {"ready", "destroyed"} /\ connected \in BOOLEAN
        /\ overrun \in BOOLEAN /\ armed \in BOOLEAN /\ chan \in Nat
        /\ handler \in Step /\ deaf \in BOOLEAN
    BY DEF Init, Step
  <2> QED BY <2>2, <2>3, <2>4, <2>5 DEF TypeOK
<1>2. AnnounceInv /\ WaitInv
  BY DEF Init, AnnounceInv, WaitInv
<1>3. CqInv
  BY DEF Init, CqInv
<1>4. RequestInv
  BY DEF Init, RequestInv
<1> QED
  BY <1>1, <1>2, <1>3, <1>4 DEF IInv

\* The invariant is kept by every step.
LEMMA InvStep == IInv /\ [Next]_vars => IInv'
<1> SUFFICES ASSUME IInv, [Next]_vars PROVE IInv'
  OBVIOUS
<1>1. ASSUME NEW r \in Reqs, PostInit(r) \/ Write(r) \/ Read(r) PROVE IInv'
  <2>1. \/ PostSend(r, "SEND") /\ UNCHANGED reader
        \/ PostSend(r, "RDMA_WRITE") /\ UNCHANGED reader
        \/ PostSend(r, "RDMA_READ") /\ reader' = r
    BY <1>1 DEF PostInit, Write, Read
  <2>2. {"SEND", "RDMA_WRITE", "RDMA_READ"} \subseteq Opcode
    BY DEF Opcode
  <2>3. burst' \in {burst, burst + 1}
    BY <1>1 DEF PostInit, Write, Read
  <2> QED BY <2>1, <2>2, <2>3, PostStep
<1>2. ASSUME NEW r \in Reqs, Complete(r) PROVE IInv'
  BY <1>2, CompleteStep
<1>3. CASE ReadReturn \/ Disconnect
  BY <1>3, ReturnStep
<1>4. CASE Handler
  BY <1>4, ArmStep, PollStep, HandleStep DEF Handler
<1>5. CASE UNCHANGED vars
  BY <1>5 DEF IInv, TypeOK, AnnounceInv, CqInv, RequestInv, WaitInv,
     vars, appVars, nicVars, runVars
<1> QED
  BY <1>1, <1>2, <1>3, <1>4, <1>5 DEF Next

\* The inductive invariant of the completion queue.
THEOREM Inductive == Spec => []IInv
  BY InvInit, InvStep, PTL DEF Spec

\* Every variable of the completion queue has its type.
THEOREM TypeCorrect == Spec => []TypeOK
<1>1. IInv => TypeOK
  BY DEF IInv
<1> QED
  BY Inductive, <1>1, PTL

\* No completion is overlooked: whatever the order in which the adapter, the
\* epoll thread and the main thread run, a completion in the queue has the
\* handler of hmp_cq_comp_channel_handler running or an event in its channel.
THEOREM NoCompletionOverlooked == Spec => []CompletionAnnounced
<1>1. IInv => CompletionAnnounced
  BY DEF IInv, TypeOK, AnnounceInv, CompletionAnnounced
<1> QED
  BY Inductive, <1>1, PTL

\* hmp_rdma_read never leaves its loop before its transfer was performed.
THEOREM ReadsReturnAfterTransfer == Spec => ReadReturnsAfterTransfer
<1>1. IInv /\ [Next]_vars =>
        [reader # NoReq /\ reader' # reader =>
           op[reader] = "RDMA_READ" /\ status[reader] = "good"]_vars
  <2> SUFFICES ASSUME IInv, Next, reader # NoReq, reader' # reader
               PROVE  op[reader] = "RDMA_READ" /\ status[reader] = "good"
    OBVIOUS
  <2>1. ReadReturn
    BY DEF Next, PostInit, Write, Read, Complete, Handler, Dispatch, GetCqEvent,
       ReqNotify, PollCq, HandleWc, Disconnect, appVars
  <2> QED BY <2>1 DEF ReadReturn, IInv, TypeOK, RequestInv
<1> QED
  BY Inductive, <1>1, PTL DEF Spec, ReadReturnsAfterTransfer

\* There are finitely many requests on their way.
LEMMA OnTheWayFinite ==
  ASSUME NEW S, NEW T, S = {q \in Reqs : stage[q] \in T}
  PROVE  IsFiniteSet(S) /\ Cardinality(S) \in Nat
<1>1. S \in SUBSET Reqs /\ IsFiniteSet(Reqs)
  BY ReqsAssumption
<1>2. IsFiniteSet(S)
  BY <1>1, FS_Subset
<1> QED
  BY <1>2, FS_CardinalityType

\* Queued requests are as many as the queue has entries.
LEMMA QueuedCount ==
  ASSUME IInv, NEW r \in Reqs, stage[r] = "posted"
  PROVE  Cardinality({q \in Reqs : stage[q] \in {"posted", "queued"}}) > Len(cq)
<1> DEFINE OnTheWay == {q \in Reqs : stage[q] \in {"posted", "queued"}}
<1>1. IsFiniteSet(OnTheWay) /\ Cardinality(OnTheWay) \in Nat
  BY OnTheWayFinite
<1>2. /\ IsFiniteSet(OnTheWay \ {r})
      /\ Cardinality(OnTheWay \ {r}) = Cardinality(OnTheWay) - 1
  <2>1. r \in OnTheWay
    OBVIOUS
  <2> HIDE DEF OnTheWay
  <2> QED BY <1>1, <2>1, FS_RemoveElement
<1>3. cq \in Seq(Reqs) /\ Len(cq) \in Nat
  BY DEF IInv, TypeOK
<1> DEFINE f == [i \in 1 .. Len(cq) |-> cq[i]]
<1>4. f \in Injection(1 .. Len(cq), OnTheWay \ {r})
  <2>1. \A i \in 1 .. Len(cq) : cq[i] \in OnTheWay \ {r}
    BY <1>3 DEF IInv, CqInv
  <2>2. \A i, j \in 1 .. Len(cq) : cq[i] = cq[j] => i = j
    BY DEF IInv, CqInv
  <2>3. f \in [1 .. Len(cq) -> OnTheWay \ {r}]
    BY <2>1
  <2>4. \A i, j \in 1 .. Len(cq) : f[i] = f[j] => i = j
    BY <2>2
  <2> HIDE DEF f, OnTheWay
  <2> QED BY <2>3, <2>4 DEF Injection, IsInjective
<1> HIDE DEF f
<1>5. Cardinality(1 .. Len(cq)) <= Cardinality(OnTheWay \ {r})
  BY <1>2, <1>4, FS_Injection
<1>6. Cardinality(1 .. Len(cq)) = Len(cq)
  <2>1. Cardinality(1 .. Len(cq)) = IF 1 > Len(cq) THEN 0 ELSE Len(cq) - 1 + 1
    BY <1>3, 1 \in Int, Len(cq) \in Int, FS_Interval
  <2> QED BY <1>3, <2>1
<1> QED
  BY <1>1, <1>2, <1>3, <1>5, <1>6

\* A union has no more elements than its parts.
LEMMA UnionCount ==
  ASSUME NEW S, IsFiniteSet(S), NEW T, IsFiniteSet(T)
  PROVE  /\ IsFiniteSet(S \cup T) /\ Cardinality(S \cup T) \in Nat
         /\ Cardinality(S \cup T) <= Cardinality(S) + Cardinality(T)
<1>1. /\ IsFiniteSet(S \cup T)
      /\ Cardinality(S \cup T) = Cardinality(S) + Cardinality(T) - Cardinality(S \cap T)
  BY FS_Union
<1>2. IsFiniteSet(S \cap T)
  <2>1. S \cap T \in SUBSET S
    OBVIOUS
  <2> QED BY <2>1, FS_Subset
<1>3. /\ Cardinality(S) \in Nat /\ Cardinality(T) \in Nat /\ Cardinality(S \cap T) \in Nat
      /\ Cardinality(S \cup T) \in Nat
  BY <1>1, <1>2, FS_CardinalityType
<1> QED
  BY <1>1, <1>3

-----------------------------------------------------------------------------
(* Bursts: what is on its way to the completion queue.                       *)

\* Some entry a of a sequence stands before an entry b.
Before(s, a, b) == \E i, j \in 1 .. Len(s) : i < j /\ s[i] = a /\ s[j] = b

LEMMA BeforeAppend ==
  ASSUME NEW s \in Seq(Reqs), NEW r \in Reqs, NEW a \in Reqs, NEW b \in Reqs
  PROVE  /\ Before(s, a, b) => Before(Append(s, r), a, b)
         /\ (\E i \in 1 .. Len(s) : s[i] = a) => Before(Append(s, r), a, r)
<1>1. /\ Len(Append(s, r)) = Len(s) + 1 /\ Len(s) \in Nat
      /\ Append(s, r)[Len(s) + 1] = r
      /\ \A i \in 1 .. Len(s) : Append(s, r)[i] = s[i]
  OBVIOUS
<1>2. \A i \in 1 .. Len(s) : i \in 1 .. Len(Append(s, r)) /\ i < Len(s) + 1
  BY <1>1
<1>3. Len(s) + 1 \in 1 .. Len(Append(s, r))
  BY <1>1
<1>4. ASSUME Before(s, a, b) PROVE Before(Append(s, r), a, b)
  <2>1. PICK i, j \in 1 .. Len(s) : i < j /\ s[i] = a /\ s[j] = b
    BY <1>4 DEF Before
  <2>2. i \in 1 .. Len(Append(s, r)) /\ j \in 1 .. Len(Append(s, r))
        /\ Append(s, r)[i] = a /\ Append(s, r)[j] = b
    BY <2>1, <1>1, <1>2
  <2> QED BY <2>1, <2>2 DEF Before
<1>5. ASSUME NEW i \in 1 .. Len(s), s[i] = a PROVE Before(Append(s, r), a, r)
  <2>1. i \in 1 .. Len(Append(s, r)) /\ i < Len(s) + 1 /\ Append(s, r)[i] = a
    BY <1>5, <1>1, <1>2
  <2> QED BY <2>1, <1>1, <1>3 DEF Before
<1> QED
  BY <1>4, <1>5

\* No two positions of a sequence hold the same request.
Once(s) == \A i, j \in 1 .. Len(s) : s[i] = s[j] => i = j

\* Nothing stands before the head of a queue, and what stands before something
\* else does so without the head, unless it is the head.
LEMMA BeforeTail ==
  ASSUME NEW s \in Seq(Reqs), s # <<>>, Once(s), NEW a \in Reqs, NEW b \in Reqs, Before(s, a, b)
  PROVE  b # Head(s) /\ (a # Head(s) => Before(Tail(s), a, b))
<1>1. PICK i, j \in 1 .. Len(s) : i < j /\ s[i] = a /\ s[j] = b
  BY DEF Before
<1>2. /\ Len(s) \in Nat \ {0} /\ Head(s) = s[1] /\ Len(Tail(s)) = Len(s) - 1
      /\ 1 \in 1 .. Len(s)
  OBVIOUS
<1>3. \A k \in 1 .. Len(Tail(s)) : Tail(s)[k] = s[k + 1]
  OBVIOUS
<1>4. j # 1
  BY <1>1, <1>2
<1>5. b # Head(s)
  BY <1>1, <1>2, <1>4 DEF Once
<1>6. ASSUME a # Head(s) PROVE Before(Tail(s), a, b)
  <2>1. i # 1
    BY <1>1, <1>2, <1>6
  <2>2. i - 1 \in 1 .. Len(Tail(s)) /\ j - 1 \in 1 .. Len(Tail(s)) /\ i - 1 < j - 1
    BY <1>1, <1>2, <1>4, <2>1
  <2>3. i - 1 + 1 = i /\ j - 1 + 1 = j
    BY <1>1
  <2>4. Tail(s)[i - 1] = a /\ Tail(s)[j - 1] = b
    BY <1>1, <1>3, <2>2, <2>3
  <2> QED BY <2>2, <2>4 DEF Before
<1> QED
  BY <1>5, <1>6

\* The requests in a queue: each once, and those that should be there.
Holds(s, S) == Once(s) /\ \A r \in S : \E i \in 1 .. Len(s) : s[i] = r

LEMMA HoldsAppend ==
  ASSUME NEW s \in Seq(Reqs), NEW r \in Reqs, NEW S, NEW T, Holds(s, S), T \subseteq S \cup {r},
         \A i \in 1 .. Len(s) : s[i] # r
  PROVE  Holds(Append(s, r), T)
<1>1. /\ Len(Append(s, r)) = Len(s) + 1 /\ Len(s) \in Nat
      /\ Append(s, r)[Len(s) + 1] = r
      /\ \A i \in 1 .. Len(s) : Append(s, r)[i] = s[i]
  OBVIOUS
<1>2. \A i \in 1 .. Len(Append(s, r)) : i \in 1 .. Len(s) \/ i = Len(s) + 1
  BY <1>1
<1>3. /\ \A i \in 1 .. Len(s) : i \in 1 .. Len(Append(s, r))
      /\ Len(s) + 1 \in 1 .. Len(Append(s, r))
  BY <1>1
<1>4. Once(Append(s, r))
  BY <1>1, <1>2 DEF Holds, Once
<1>5. \A q \in T : \E i \in 1 .. Len(Append(s, r)) : Append(s, r)[i] = q
  BY <1>1, <1>3 DEF Holds
<1> QED
  BY <1>4, <1>5 DEF Holds

LEMMA HoldsTail ==
  ASSUME NEW s \in Seq(Reqs), s # <<>>, NEW S, NEW T, Holds(s, S), T \subseteq S \ {Head(s)}
  PROVE  Holds(Tail(s), T)
<1>1. /\ Len(s) \in Nat \ {0} /\ Head(s) = s[1] /\ Len(Tail(s)) = Len(s) - 1
  OBVIOUS
<1>2. \A k \in 1 .. Len(Tail(s)) : Tail(s)[k] = s[k + 1] /\ k + 1 \in 1 .. Len(s)
  OBVIOUS
<1>3. Once(Tail(s))
  <2> SUFFICES ASSUME NEW i \in 1 .. Len(Tail(s)), NEW j \in 1 .. Len(Tail(s)),
                      Tail(s)[i] = Tail(s)[j]
               PROVE  i = j
    BY DEF Once
  <2>1. i + 1 = j + 1
    BY <1>2 DEF Holds, Once
  <2> QED BY <2>1
<1>4. ASSUME NEW q \in T PROVE \E i \in 1 .. Len(Tail(s)) : Tail(s)[i] = q
  <2>1. PICK i \in 1 .. Len(s) : s[i] = q
    BY DEF Holds
  <2>2. i # 1
    BY <2>1, <1>1
  <2>3. i - 1 \in 1 .. Len(Tail(s)) /\ i - 1 + 1 = i
    BY <1>1, <2>2
  <2>4. Tail(s)[i - 1] = q
    BY <2>1, <2>3, <1>2
  <2> QED BY <2>3, <2>4
<1> QED
  BY <1>3, <1>4 DEF Holds

Rdma == {"RDMA_READ", "RDMA_WRITE"}
RdmaOnWay == {r \in Reqs : op[r] \in Rdma /\ stage[r] \in {"posted", "queued"}}
Recvs == {r \in Reqs : op[r] = "RECV"}

\* A request has an opcode once it is used; the two queues hold what their
\* stage says.
QueueInv ==
  /\ \A r \in Reqs : stage[r] = "free" <=> op[r] = "none"
  /\ \A i \in 1 .. Len(sq) : op[sq[i]] # "none"
  /\ Holds(sq, {r \in Reqs : stage[r] = "posted" /\ op[r] # "RECV"})
  /\ Holds(cq, {r \in Reqs : stage[r] = "queued"})

\* Of all reads and writes the one the main thread spins on is the last.
LastInv ==
  ~overrun /\ reader # NoReq /\ stage[reader] # "refused" =>
    \A q \in Reqs \ {reader} : op[q] \in Rdma =>
      /\ stage[q] = "posted" => stage[reader] = "posted" /\ Before(sq, q, reader)
      /\ stage[q] = "queued" =>
           stage[reader] = "posted" \/ (stage[reader] = "queued" /\ Before(cq, q, reader))

\* There is one INIT message, and of two receive requests one is used up before
\* the main thread gets through hmp_transport_check_state.
OthersInv ==
  /\ \A q, r \in Reqs : op[q] = "SEND" /\ op[r] = "SEND" => q = r
  /\ Cardinality(Recvs) <= 2
  /\ burst > 0 \/ reader # NoReq => connected
  /\ connected => \E r \in Recvs : stage[r] = "polled"

\* Reads and writes on their way were asked for since the last read returned.
WayInv == ~overrun => Cardinality(RdmaOnWay) <= burst

BurstInv == QueueInv /\ LastInv /\ OthersInv /\ WayInv

-----------------------------------------------------------------------------
(* The steps, and bursts *)

LEMMA WayFinite == IsFiniteSet(RdmaOnWay) /\ Cardinality(RdmaOnWay) \in Nat
<1>1. RdmaOnWay \in SUBSET Reqs
  BY DEF RdmaOnWay
<1>2. IsFiniteSet(RdmaOnWay)
  BY <1>1, ReqsAssumption, FS_Subset
<1> QED
  BY <1>2, FS_CardinalityType

\* Of the requests on their way fewer remain.
LEMMA WayShrinks ==
  ASSUME TypeOK, WayInv, RdmaOnWay' \subseteq RdmaOnWay, overrun' \/ ~overrun,
         UNCHANGED burst
  PROVE  WayInv'
<1>1. IsFiniteSet(RdmaOnWay) /\ Cardinality(RdmaOnWay) \in Nat /\ burst \in Nat
  BY WayFinite DEF TypeOK
<1>2. IsFiniteSet(RdmaOnWay') /\ Cardinality(RdmaOnWay') <= Cardinality(RdmaOnWay)
  BY <1>1, FS_Subset
<1>3. Cardinality(RdmaOnWay') \in Nat
  BY <1>2, FS_CardinalityType
<1>4. ~overrun => Cardinality(RdmaOnWay) <= burst
  BY DEF WayInv
<1> QED
  BY <1>1, <1>2, <1>3, <1>4 DEF WayInv

LEMMA BurstInit == Init => BurstInv
<1> SUFFICES ASSUME Init PROVE BurstInv
  OBVIOUS
<1>1. PICK R \in SUBSET Reqs :
        /\ Cardinality(R) <= 2
        /\ op = [r \in Reqs |-> IF r \in R THEN "RECV" ELSE "none"]
        /\ stage = [r \in Reqs |-> IF r \in R THEN "posted" ELSE "free"]
  BY DEF Init
<1>2. /\ sq = <<>> /\ cq = <<>> /\ reader = NoReq /\ burst = 0 /\ connected = FALSE
      /\ overrun = FALSE
  BY DEF Init
<1>3. \A r \in Reqs : op[r] \in {"RECV", "none"} /\ stage[r] \in {"posted", "free"}
                      /\ (stage[r] = "free" <=> op[r] = "none")
  BY <1>1
<1>4. QueueInv
  <2>1. \A S : S = {} => Holds(<<>>, S)
    BY DEF Holds, Once
  <2>2. {r \in Reqs : stage[r] = "posted" /\ op[r] # "RECV"} = {}
    BY <1>3
  <2>3. {r \in Reqs : stage[r] = "queued"} = {}
    BY <1>3
  <2>4. \A i \in 1 .. Len(sq) : op[sq[i]] # "none"
    BY <1>2
  <2> QED BY <1>2, <1>3, <2>1, <2>2, <2>3, <2>4 DEF QueueInv
<1>5. LastInv
  BY <1>2 DEF LastInv
<1>6. OthersInv
  <2>1. Recvs = R
    BY <1>1 DEF Recvs
  <2> QED BY <1>1, <1>2, <1>3, <2>1 DEF OthersInv
<1>7. WayInv
  <2>1. RdmaOnWay = {}
    BY <1>3 DEF RdmaOnWay, Rdma
  <2> QED BY <1>2, <2>1, FS_EmptySet DEF WayInv
<1> QED
  BY <1>4, <1>5, <1>6, <1>7 DEF BurstInv

\* The INIT message, a write or a read is posted, or refused.
LEMMA BurstPost ==
  ASSUME IInv, BurstInv, NEW r \in Reqs, PostInit(r) \/ Write(r) \/ Read(r)
  PROVE  BurstInv'
<1>0. QueueInv /\ LastInv /\ OthersInv /\ WayInv /\ TypeOK
  BY DEF BurstInv, IInv
<1>1. PICK o \in {"SEND", "RDMA_WRITE", "RDMA_READ"} :
        /\ PostSend(r, o)
        /\ o = "SEND" => UNCHANGED <<reader, burst>> /\ (\A q \in Reqs : op[q] # "SEND")
        /\ o # "SEND" => burst' = burst + 1 /\ reader = NoReq /\ connected
        /\ o = "RDMA_WRITE" => UNCHANGED reader
        /\ o = "RDMA_READ" => reader' = r
  BY Zenon DEF PostInit, Write, Read
<1>2. /\ stage[r] = "free" /\ op'[r] = o /\ stage'[r] \in {"posted", "refused"}
      /\ \A q \in Reqs : q # r => op'[q] = op[q] /\ stage'[q] = stage[q]
      /\ UNCHANGED <<connected, done, qp, status, cq, overrun, armed, chan, runVars>>
      /\ \/ stage'[r] = "posted" /\ sq' = Append(sq, r)
         \/ stage'[r] = "refused" /\ sq' = sq
  <2>1. o \in Opcode
    BY DEF Opcode
  <2> QED BY <1>0, <1>1, <2>1, PostEffect
<1>3. op[r] = "none" /\ sq \in Seq(Reqs) /\ burst \in Nat
  BY <1>0, <1>2 DEF QueueInv, TypeOK
<1>4. QueueInv'
  <2>1. \A q \in Reqs : stage'[q] = "free" <=> op'[q] = "none"
    BY <1>0, <1>2 DEF QueueInv
  <2>2. Holds(cq', {q \in Reqs : stage'[q] = "queued"})
    <3>1. {q \in Reqs : stage'[q] = "queued"} = {q \in Reqs : stage[q] = "queued"}
      BY <1>2
    <3> QED BY <1>0, <1>2, <3>1 DEF QueueInv
  <2> DEFINE S == {q \in Reqs : stage[q] = "posted" /\ op[q] # "RECV"}
  <2> DEFINE T == {q \in Reqs : stage'[q] = "posted" /\ op'[q] # "RECV"}
  <2>3. \A i \in 1 .. Len(sq) : sq[i] \in Reqs /\ op[sq[i]] # "none" /\ sq[i] # r
    BY <1>0, <1>3 DEF QueueInv
  <2>4. CASE stage'[r] = "refused" /\ sq' = sq
    <3>1. T = S
      BY <1>2, <2>4
    <3>2. \A i \in 1 .. Len(sq') : op'[sq'[i]] # "none"
      BY <1>2, <2>3, <2>4
    <3>3. Holds(sq', T)
      BY <1>0, <2>4, <3>1 DEF QueueInv
    <3> QED BY <2>1, <2>2, <3>2, <3>3 DEF QueueInv
  <2>5. CASE stage'[r] = "posted" /\ sq' = Append(sq, r)
    <3>1. T \subseteq S \cup {r}
      BY <1>2
    <3>2. Holds(sq, S)
      BY <1>0 DEF QueueInv
    <3> HIDE DEF S, T
    <3>3. Holds(sq', T)
      BY <1>3, <2>3, <2>5, <3>1, <3>2, HoldsAppend
    <3>4. \A i \in 1 .. Len(sq') : op'[sq'[i]] # "none"
      <4>1. \A i \in 1 .. Len(sq') : i \in 1 .. Len(sq) \/ sq'[i] = r
        BY <1>3, <2>5
      <4>2. \A i \in 1 .. Len(sq) : sq'[i] = sq[i]
        BY <1>3, <2>5
      <4> QED BY <1>1, <1>2, <2>3, <4>1, <4>2
    <3> QED BY <2>1, <2>2, <3>3, <3>4 DEF QueueInv, T
  <2> QED BY <1>2, <2>4, <2>5
<1>5. LastInv'
  <2> SUFFICES ASSUME ~overrun', reader' # NoReq, stage'[reader'] # "refused",
                      NEW q \in Reqs \ {reader'}, op'[q] \in Rdma
               PROVE  /\ stage'[q] = "posted" =>
                           stage'[reader'] = "posted" /\ Before(sq', q, reader')
                      /\ stage'[q] = "queued" =>
                           \/ stage'[reader'] = "posted"
                           \/ stage'[reader'] = "queued" /\ Before(cq', q, reader')
    BY DEF LastInv
  <2>1. CASE o = "RDMA_READ"
    <3>1. reader' = r /\ stage'[r] = "posted" /\ sq' = Append(sq, r)
      BY <1>1, <1>2, <2>1
    <3>2. stage'[q] = "posted" => \E i \in 1 .. Len(sq) : sq[i] = q
      <4>1. q # r /\ stage'[q] = stage[q] /\ op[q] \in Rdma
        BY <1>2, <3>1
      <4> QED BY <1>0, <4>1 DEF QueueInv, Holds, Rdma
    <3> QED BY <1>3, <3>1, <3>2, BeforeAppend
  <2>2. CASE o = "SEND"
    <3>1. reader' = reader /\ reader \in Reqs /\ stage[reader] # "free"
      BY <1>0, <1>1, <2>2 DEF IInv, WaitInv, TypeOK
    <3>2. reader # r /\ q # r
      BY <1>2, <2>2, <3>1 DEF Rdma
    <3>3. /\ stage[q] = "posted" => stage[reader] = "posted" /\ Before(sq, q, reader)
          /\ stage[q] = "queued" =>
               stage[reader] = "posted" \/ (stage[reader] = "queued" /\ Before(cq, q, reader))
      BY <1>0, <1>2, <3>1, <3>2 DEF LastInv
    <3>4. Before(sq, q, reader) => Before(sq', q, reader)
      BY <1>2, <1>3, <3>1, BeforeAppend
    <3> QED BY <1>2, <3>1, <3>2, <3>3, <3>4
  <2>3. CASE o = "RDMA_WRITE"
    BY <1>1, <2>3
  <2> QED BY <2>1, <2>2, <2>3
<1>6. OthersInv'
  <2>1. \A p, q \in Reqs : op'[p] = "SEND" /\ op'[q] = "SEND" => p = q
    BY <1>0, <1>1, <1>2 DEF OthersInv
  <2>2. Recvs' = Recvs
    BY <1>1, <1>2, <1>3 DEF Recvs
  <2>3. burst' > 0 \/ reader' # NoReq => connected'
    BY <1>0, <1>1, <1>2, <1>3 DEF OthersInv
  <2>4. connected' => \E q \in Recvs' : stage'[q] = "polled"
    <3>1. \A q \in Recvs : q # r /\ q \in Reqs
      BY <1>3 DEF Recvs
    <3> QED BY <1>0, <1>2, <2>2, <3>1 DEF OthersInv
  <2> QED BY <1>0, <2>1, <2>2, <2>3, <2>4 DEF OthersInv
<1>7. WayInv'
  <2>1. IsFiniteSet(RdmaOnWay) /\ Cardinality(RdmaOnWay) \in Nat
    BY WayFinite
  <2>2. CASE o = "SEND"
    <3>1. RdmaOnWay' \subseteq RdmaOnWay
      BY <1>2, <2>2 DEF RdmaOnWay, Rdma
    <3> QED BY <1>0, <1>1, <1>2, <2>2, <3>1, WayShrinks
  <2>3. CASE o # "SEND"
    <3>1. RdmaOnWay' \subseteq RdmaOnWay \cup {r}
      BY <1>2 DEF RdmaOnWay
    <3>2. IsFiniteSet(RdmaOnWay \cup {r}) /\ Cardinality(RdmaOnWay \cup {r}) \in Nat
          /\ Cardinality(RdmaOnWay \cup {r}) <= Cardinality(RdmaOnWay) + 1
      <4>1. IsFiniteSet(RdmaOnWay \cup {r})
        BY <2>1, FS_AddElement
      <4>2. Cardinality(RdmaOnWay \cup {r}) \in Nat
        BY <4>1, FS_CardinalityType
      <4>3. \/ Cardinality(RdmaOnWay \cup {r}) = Cardinality(RdmaOnWay)
            \/ Cardinality(RdmaOnWay \cup {r}) = Cardinality(RdmaOnWay) + 1
        BY <2>1, FS_AddElement
      <4> QED BY <2>1, <4>1, <4>2, <4>3
    <3>3. Cardinality(RdmaOnWay') <= Cardinality(RdmaOnWay \cup {r})
          /\ Cardinality(RdmaOnWay') \in Nat
      BY <3>1, <3>2, FS_Subset, FS_CardinalityType
    <3>4. ~overrun' => Cardinality(RdmaOnWay) <= burst
      BY <1>0, <1>2 DEF WayInv
    <3>5. burst' = burst + 1
      BY <1>1, <2>3
    <3> QED BY <1>3, <2>1, <3>2, <3>3, <3>4, <3>5 DEF WayInv
  <2> QED BY <2>2, <2>3
<1> QED
  BY <1>4, <1>5, <1>6, <1>7 DEF BurstInv

\* The adapter performs a request: a receive request, or the oldest send.
LEMMA BurstComplete ==
  ASSUME IInv, BurstInv, NEW r \in Reqs, Complete(r)
  PROVE  BurstInv'
<1>0. QueueInv /\ LastInv /\ OthersInv /\ WayInv /\ TypeOK
  BY DEF BurstInv, IInv
<1>1. /\ stage[r] = "posted" /\ UNCHANGED <<appVars, qp, runVars>>
      /\ stage'[r] \in {"queued", "lost"}
      /\ \A q \in Reqs : q # r => stage'[q] = stage[q]
  BY <1>0, CompleteEffect
<1>2. \/ op[r] = "RECV" /\ sq' = sq
      \/ sq # <<>> /\ r = Head(sq) /\ sq' = Tail(sq)
  BY Zenon DEF Complete
<1>3. \/ /\ stage'[r] = "queued" /\ cq' = Append(cq, r) /\ UNCHANGED overrun
      \/ /\ stage'[r] = "lost" /\ cq' = cq /\ overrun' = TRUE
  <2>1. \/ /\ stage' = [stage EXCEPT ![r] = "queued"] /\ cq' = Append(cq, r)
           /\ UNCHANGED overrun
        \/ /\ stage' = [stage EXCEPT ![r] = "lost"] /\ overrun' = TRUE /\ UNCHANGED cq
    BY Zenon DEF Complete
  <2> QED BY <2>1, <1>0 DEF TypeOK
<1>4. UNCHANGED <<connected, reader, op, burst>>
  BY <1>1 DEF appVars
<1>5. sq \in Seq(Reqs) /\ cq \in Seq(Reqs) /\ reader \in Reqs \cup {NoReq} /\ op[r] # "none"
  BY <1>0, <1>1 DEF TypeOK, QueueInv
<1> DEFINE S == {q \in Reqs : stage[q] = "posted" /\ op[q] # "RECV"}
<1>6. QueueInv'
  <2>1. \A q \in Reqs : stage'[q] = "free" <=> op'[q] = "none"
    BY <1>0, <1>1, <1>4 DEF QueueInv
  <2>2. Holds(sq', S') /\ \A i \in 1 .. Len(sq') : op'[sq'[i]] # "none"
    <3>1. Holds(sq, S) /\ S' \subseteq S /\ \A i \in 1 .. Len(sq) : op[sq[i]] # "none"
      BY <1>0, <1>1, <1>4 DEF QueueInv
    <3>2. CASE op[r] = "RECV" /\ sq' = sq
      <4>1. S' = S
        BY <1>1, <1>4, <3>2
      <4> QED BY <1>4, <3>1, <3>2, <4>1
    <3>3. CASE sq # <<>> /\ r = Head(sq) /\ sq' = Tail(sq)
      <4>1. S' \subseteq S \ {Head(sq)}
        BY <1>1, <1>4, <3>3
      <4>2. \A i \in 1 .. Len(sq') : sq'[i] = sq[i + 1] /\ i + 1 \in 1 .. Len(sq)
        BY <1>5, <3>3
      <4>3. \A i \in 1 .. Len(sq') : op'[sq'[i]] # "none"
        BY <1>4, <3>1, <4>2
      <4> HIDE DEF S
      <4> QED BY <1>5, <3>1, <3>3, <4>1, <4>3, HoldsTail
    <3> QED BY <1>2, <3>2, <3>3
  <2>3. Holds(cq', {q \in Reqs : stage'[q] = "queued"})
    <3> DEFINE Q == {q \in Reqs : stage[q] = "queued"}
    <3> DEFINE R == {q \in Reqs : stage'[q] = "queued"}
    <3>1. Holds(cq, Q)
      BY <1>0 DEF QueueInv
    <3>2. CASE stage'[r] = "lost" /\ cq' = cq
      <4>1. R = Q
        BY <1>1, <3>2
      <4> QED BY <3>1, <3>2, <4>1
    <3>3. CASE stage'[r] = "queued" /\ cq' = Append(cq, r)
      <4>1. R \subseteq Q \cup {r}
        BY <1>1
      <4>2. \A i \in 1 .. Len(cq) : cq[i] # r
        BY <1>1 DEF IInv, CqInv
      <4> HIDE DEF Q, R
      <4>3. Holds(cq', R)
        BY <1>5, <3>1, <3>3, <4>1, <4>2, HoldsAppend
      <4> QED BY <4>3 DEF R
    <3> QED BY <1>3, <3>2, <3>3
  <2> QED BY <2>1, <2>2, <2>3 DEF QueueInv
<1>7. LastInv'
  <2> SUFFICES ASSUME ~overrun', reader' # NoReq, stage'[reader'] # "refused",
                      NEW q \in Reqs \ {reader'}, op'[q] \in Rdma
               PROVE  /\ stage'[q] = "posted" =>
                           stage'[reader'] = "posted" /\ Before(sq', q, reader')
                      /\ stage'[q] = "queued" =>
                           \/ stage'[reader'] = "posted"
                           \/ stage'[reader'] = "queued" /\ Before(cq', q, reader')
    BY DEF LastInv
  <2>1. /\ reader' = reader /\ reader \in Reqs /\ q # reader /\ op[q] \in Rdma /\ ~overrun
        /\ stage[reader] # "refused" /\ reader # NoReq
        /\ stage'[r] = "queued" /\ cq' = Append(cq, r)
    BY <1>1, <1>3, <1>4, <1>5
  <2>2. /\ stage[q] = "posted" => stage[reader] = "posted" /\ Before(sq, q, reader)
        /\ stage[q] = "queued" =>
             stage[reader] = "posted" \/ (stage[reader] = "queued" /\ Before(cq, q, reader))
    BY <1>0, <2>1 DEF LastInv
  <2>3. op[reader] = "RDMA_READ"
    BY <2>1 DEF IInv, WaitInv
  <2>4. Once(sq) /\ Holds(cq, {p \in Reqs : stage[p] = "queued"})
    BY <1>0 DEF QueueInv, Holds
  <2>5. stage[q] = "posted" /\ q # r => reader # r /\ Before(sq', q, reader)
    <3> SUFFICES ASSUME stage[q] = "posted", q # r PROVE reader # r /\ Before(sq', q, reader)
      OBVIOUS
    <3>1. Before(sq, q, reader)
      BY <2>2
    <3>2. CASE op[r] = "RECV" /\ sq' = sq
      BY <2>3, <3>1, <3>2
    <3>3. CASE sq # <<>> /\ r = Head(sq) /\ sq' = Tail(sq)
      BY <1>5, <2>1, <2>4, <3>1, <3>3, BeforeTail
    <3> QED BY <1>2, <3>2, <3>3
  <2>6. CASE q = r
    <3>1. stage[reader] = "posted" /\ stage'[reader] = "posted"
      BY <1>1, <2>1, <2>2, <2>6
    <3> QED BY <2>1, <2>6, <3>1
  <2>7. CASE q # r
    <3>1. stage'[q] = stage[q]
      BY <1>1, <2>7
    <3>2. stage'[q] = "posted" => stage'[reader] = "posted" /\ Before(sq', q, reader)
      BY <1>1, <2>1, <2>2, <2>5, <2>7, <3>1
    <3>3. stage'[q] = "queued" =>
            \/ stage'[reader] = "posted"
            \/ stage'[reader] = "queued" /\ Before(cq', q, reader)
      <4> SUFFICES ASSUME stage[q] = "queued"
                   PROVE  \/ stage'[reader] = "posted"
                          \/ stage'[reader] = "queued" /\ Before(cq', q, reader)
        BY <3>1
      <4>1. CASE reader = r
        <5>1. \E i \in 1 .. Len(cq) : cq[i] = q
          BY <2>4 DEF Holds
        <5>2. Before(cq', q, r)
          BY <1>5, <2>1, <5>1, BeforeAppend
        <5> QED BY <2>1, <4>1, <5>2
      <4>2. CASE reader # r
        <5>1. stage'[reader] = stage[reader]
          BY <1>1, <2>1, <4>2
        <5>2. Before(cq, q, reader) => Before(cq', q, reader)
          BY <1>5, <2>1, BeforeAppend
        <5> QED BY <2>2, <5>1, <5>2
      <4> QED BY <4>1, <4>2
    <3> QED BY <2>1, <3>2, <3>3
  <2> QED BY <2>6, <2>7
<1>8. OthersInv'
  <2>1. Recvs' = Recvs
    BY <1>4 DEF Recvs
  <2>2. \A q \in Reqs : stage[q] = "polled" => stage'[q] = "polled"
    BY <1>1
  <2>3. \A q \in Recvs : q \in Reqs
    BY DEF Recvs
  <2> QED BY <1>0, <1>4, <2>1, <2>2, <2>3 DEF OthersInv
<1>9. WayInv'
  <2>1. RdmaOnWay' \subseteq RdmaOnWay
    BY <1>1, <1>4 DEF RdmaOnWay
  <2>2. (overrun' \/ ~overrun) /\ UNCHANGED burst
    BY <1>3, <1>4 DEF TypeOK
  <2> QED BY <1>0, <2>1, <2>2, WayShrinks
<1> QED
  BY <1>6, <1>7, <1>8, <1>9 DEF BurstInv

\* The handler takes the oldest completion from the queue.
LEMMA BurstPoll ==
  ASSUME IInv, BurstInv, UNCHANGED <<appVars, sq, overrun>>, cq # <<>>, cq' = Tail(cq),
         stage' = [stage EXCEPT ![Head(cq)] = "polled"]
  PROVE  BurstInv'
<1> DEFINE r == Head(cq)
<1>0. QueueInv /\ LastInv /\ OthersInv /\ WayInv /\ TypeOK
  BY DEF BurstInv, IInv
<1>1. /\ r \in Reqs /\ stage[r] = "queued" /\ stage'[r] = "polled"
      /\ \A q \in Reqs : q # r => stage'[q] = stage[q]
  BY <1>0, LeaveQueue DEF IInv
<1>2. UNCHANGED <<connected, reader, op, burst>>
  BY DEF appVars
<1>3. cq \in Seq(Reqs) /\ reader \in Reqs \cup {NoReq}
  BY <1>0 DEF TypeOK
<1>4. QueueInv'
  <2>1. \A q \in Reqs : stage'[q] = "free" <=> op'[q] = "none"
    BY <1>0, <1>1, <1>2 DEF QueueInv
  <2>2. {q \in Reqs : stage'[q] = "posted" /\ op'[q] # "RECV"}
          = {q \in Reqs : stage[q] = "posted" /\ op[q] # "RECV"}
    BY <1>1, <1>2
  <2>3. Holds(cq', {q \in Reqs : stage'[q] = "queued"})
    <3> DEFINE Q == {q \in Reqs : stage[q] = "queued"}
    <3> DEFINE R == {q \in Reqs : stage'[q] = "queued"}
    <3>1. Holds(cq, Q)
      BY <1>0 DEF QueueInv
    <3>2. R \subseteq Q \ {Head(cq)}
      BY <1>1
    <3> HIDE DEF Q, R
    <3>3. Holds(cq', R)
      BY <1>3, <3>1, <3>2, HoldsTail
    <3> QED BY <3>3 DEF R
  <2> QED BY <1>0, <1>2, <2>1, <2>2, <2>3 DEF QueueInv
<1>5. LastInv'
  <2> SUFFICES ASSUME ~overrun', reader' # NoReq, stage'[reader'] # "refused",
                      NEW q \in Reqs \ {reader'}, op'[q] \in Rdma
               PROVE  /\ stage'[q] = "posted" =>
                           stage'[reader'] = "posted" /\ Before(sq', q, reader')
                      /\ stage'[q] = "queued" =>
                           \/ stage'[reader'] = "posted"
                           \/ stage'[reader'] = "queued" /\ Before(cq', q, reader')
    BY DEF LastInv
  <2>1. /\ reader' = reader /\ reader \in Reqs /\ q # reader /\ op[q] \in Rdma /\ ~overrun
        /\ reader # NoReq
    BY <1>2, <1>3
  <2>2. stage[reader] # "refused"
    BY <1>1, <2>1
  <2>3. /\ stage[q] = "posted" => stage[reader] = "posted" /\ Before(sq, q, reader)
        /\ stage[q] = "queued" =>
             stage[reader] = "posted" \/ (stage[reader] = "queued" /\ Before(cq, q, reader))
    BY <1>0, <2>1, <2>2 DEF LastInv
  <2>4. stage[reader] = "posted" => stage'[reader] = "posted"
    BY <1>1, <2>1
  <2>5. stage'[q] = "posted" => stage[q] = "posted"
    BY <1>1
  <2>6. stage'[q] = "queued" => stage[q] = "queued" /\ q # r
    BY <1>1
  <2>7. ASSUME Before(cq, q, reader), q # r PROVE reader # r /\ Before(cq', q, reader)
    <3>1. Once(cq)
      BY <1>0 DEF QueueInv, Holds
    <3> QED BY <1>3, <2>1, <2>7, <3>1, BeforeTail
  <2>8. reader # r => stage'[reader] = stage[reader]
    BY <1>1, <2>1
  <2> QED BY <2>1, <2>3, <2>4, <2>5, <2>6, <2>7, <2>8
<1>6. OthersInv'
  <2>1. Recvs' = Recvs
    BY <1>2 DEF Recvs
  <2>2. \A q \in Reqs : stage[q] = "polled" => stage'[q] = "polled"
    BY <1>1
  <2>3. \A q \in Recvs : q \in Reqs
    BY DEF Recvs
  <2> QED BY <1>0, <1>2, <2>1, <2>2, <2>3 DEF OthersInv
<1>7. WayInv'
  <2>1. RdmaOnWay' \subseteq RdmaOnWay
    BY <1>1, <1>2 DEF RdmaOnWay
  <2> QED BY <1>0, <1>2, <2>1, WayShrinks
<1> QED
  BY <1>4, <1>5, <1>6, <1>7 DEF BurstInv

\* hmp_read returns: nothing its caller asked for is on its way any more.
LEMMA BurstReturn ==
  ASSUME IInv, BurstInv, ReadReturn
  PROVE  BurstInv'
<1>0. QueueInv /\ LastInv /\ OthersInv /\ WayInv /\ TypeOK
  BY DEF BurstInv, IInv
<1>1. /\ UNCHANGED <<connected, op, nicVars>> /\ reader' = NoReq /\ burst' = 0
      /\ reader \in Reqs /\ reader # NoReq /\ done[reader]
  BY <1>0 DEF ReadReturn, TypeOK
<1>2. UNCHANGED <<sq, cq, stage, overrun>>
  BY <1>1 DEF nicVars
<1>3. stage[reader] = "polled"
  BY <1>1 DEF IInv, RequestInv
<1>4. ~overrun => RdmaOnWay = {}
  <2> SUFFICES ASSUME ~overrun, NEW q \in RdmaOnWay PROVE FALSE
    OBVIOUS
  <2>1. q \in Reqs /\ op[q] \in Rdma /\ stage[q] \in {"posted", "queued"} /\ q # reader
    BY <1>3 DEF RdmaOnWay
  <2> QED BY <1>0, <1>1, <1>3, <2>1 DEF LastInv
<1>5. QueueInv'
  BY <1>0, <1>1, <1>2 DEF QueueInv
<1>6. LastInv'
  BY <1>1 DEF LastInv
<1>7. OthersInv'
  <2>1. Recvs' = Recvs
    BY <1>1 DEF Recvs
  <2> QED BY <1>0, <1>1, <1>2, <2>1 DEF OthersInv
<1>8. WayInv'
  <2>1. RdmaOnWay' = RdmaOnWay
    BY <1>1, <1>2 DEF RdmaOnWay
  <2> QED BY <1>1, <1>2, <1>4, <2>1, FS_EmptySet DEF WayInv
<1> QED
  BY <1>5, <1>6, <1>7, <1>8 DEF BurstInv

\* A completion is handled: the first good message makes the transport
\* connected.
LEMMA BurstHandle ==
  ASSUME IInv, BurstInv, HandleWc
  PROVE  BurstInv'
<1>0. QueueInv /\ LastInv /\ OthersInv /\ WayInv /\ TypeOK
  BY DEF BurstInv, IInv
<1>1. UNCHANGED <<reader, op, burst, sq, cq, stage, overrun>>
  BY DEF HandleWc, nicVars
<1>2. connected' = connected \/ (connected' /\ wc \in Reqs /\ op[wc] = "RECV")
  BY <1>0 DEF HandleWc, TypeOK
<1>3. wc \in Reqs => stage[wc] = "polled"
  BY ReqsAssumption DEF IInv, WaitInv
<1>4. Recvs' = Recvs /\ RdmaOnWay' = RdmaOnWay
  BY <1>1 DEF Recvs, RdmaOnWay
<1>5. QueueInv' /\ LastInv' /\ WayInv'
  BY <1>0, <1>1, <1>4 DEF QueueInv, LastInv, WayInv
<1>6. OthersInv'
  <2>1. CASE connected' = connected
    BY <1>0, <1>1, <1>4, <2>1 DEF OthersInv
  <2>2. CASE connected' /\ wc \in Reqs /\ op[wc] = "RECV"
    <3>1. wc \in Recvs /\ stage[wc] = "polled"
      BY <1>3, <2>2 DEF Recvs
    <3> QED BY <1>0, <1>1, <1>4, <2>2, <3>1 DEF OthersInv
  <2> QED BY <1>2, <2>1, <2>2
<1> QED
  BY <1>5, <1>6 DEF BurstInv

\* Steps that post, perform, poll, handle and return nothing.
LEMMA BurstKept ==
  ASSUME BurstInv, UNCHANGED <<connected, reader, op, burst, sq, cq, stage, overrun>>
  PROVE  BurstInv'
<1>1. Recvs' = Recvs /\ RdmaOnWay' = RdmaOnWay
  BY DEF Recvs, RdmaOnWay
<1>2. QueueInv' /\ LastInv' /\ WayInv' /\ OthersInv'
  BY <1>1 DEF BurstInv, QueueInv, LastInv, WayInv, OthersInv
<1> QED
  BY <1>2 DEF BurstInv

LEMMA BurstStep == IInv /\ BurstInv /\ [Next]_vars => BurstInv'
<1> SUFFICES ASSUME IInv, BurstInv, [Next]_vars PROVE BurstInv'
  OBVIOUS
<1>1. ASSUME NEW r \in Reqs, PostInit(r) \/ Write(r) \/ Read(r) PROVE BurstInv'
  BY <1>1, BurstPost
<1>2. ASSUME NEW r \in Reqs, Complete(r) PROVE BurstInv'
  BY <1>2, BurstComplete
<1>3. CASE ReadReturn
  BY <1>3, BurstReturn
<1>4. CASE HandleWc
  BY <1>4, BurstHandle
<1>5. CASE PollCq
  <2>1. UNCHANGED <<appVars, sq, overrun>>
    BY <1>5 DEF PollCq
  <2>2. \/ UNCHANGED <<stage, cq>>
        \/ cq # <<>> /\ cq' = Tail(cq) /\ stage' = [stage EXCEPT ![Head(cq)] = "polled"]
    BY <1>5 DEF PollCq
  <2>3. CASE UNCHANGED <<stage, cq>>
    BY <2>1, <2>3, BurstKept DEF appVars
  <2>4. CASE cq # <<>> /\ cq' = Tail(cq) /\ stage' = [stage EXCEPT ![Head(cq)] = "polled"]
    BY <2>1, <2>4, BurstPoll
  <2> QED BY <2>2, <2>3, <2>4
<1>6. CASE Dispatch \/ GetCqEvent \/ ReqNotify \/ Disconnect
  <2>1. UNCHANGED <<connected, reader, op, burst, sq, cq, stage, overrun>>
    BY <1>6, Zenon DEF Dispatch, GetCqEvent, ReqNotify, Disconnect, appVars, nicVars
  <2> QED BY <2>1, BurstKept
<1>7. CASE UNCHANGED vars
  <2>1. UNCHANGED <<connected, reader, op, burst, sq, cq, stage, overrun>>
    BY <1>7 DEF vars, appVars, nicVars, runVars
  <2> QED BY <2>1, BurstKept
<1> QED
  BY <1>1, <1>2, <1>3, <1>4, <1>5, <1>6, <1>7 DEF Next, Handler

\* The invariant of bursts, which needs the one of the queue.
THEOREM BurstInductive == Spec => [](IInv /\ BurstInv)
<1>1. Init => IInv /\ BurstInv
  BY InvInit, BurstInit
<1>2. (IInv /\ BurstInv) /\ [Next]_vars => (IInv /\ BurstInv)'
  BY InvStep, BurstStep
<1> QED
  BY <1>1, <1>2, PTL DEF Spec

\* What is on its way to the completion queue: the reads and writes of the
\* burst, the INIT message and the receive requests.
LEMMA WayCount ==
  ASSUME IInv, BurstInv, ~overrun
  PROVE  Cardinality({q \in Reqs : stage[q] \in {"posted", "queued"}}) <=
           burst + (IF burst > 0 THEN 2 ELSE 3)
<1> DEFINE Way == {q \in Reqs : stage[q] \in {"posted", "queued"}}
<1> DEFINE Sends == {q \in Reqs : op[q] = "SEND"}
<1> DEFINE Left == {q \in Recvs : stage[q] # "polled"}
<1>0. QueueInv /\ OthersInv /\ WayInv /\ TypeOK
  BY DEF BurstInv, IInv
<1>1. Way \subseteq RdmaOnWay \cup Sends \cup Left
  <2> SUFFICES ASSUME NEW q \in Way PROVE q \in RdmaOnWay \cup Sends \cup Left
    OBVIOUS
  <2>1. op[q] # "none" /\ op[q] \in Opcode \cup {"none"}
    BY <1>0 DEF QueueInv, TypeOK
  <2> QED BY <2>1 DEF Opcode, Rdma, RdmaOnWay, Recvs
<1>2. IsFiniteSet(RdmaOnWay) /\ Cardinality(RdmaOnWay) \in Nat /\ Cardinality(RdmaOnWay) <= burst
      /\ burst \in Nat
  BY <1>0, WayFinite DEF WayInv, TypeOK
<1>3. IsFiniteSet(Sends) /\ Cardinality(Sends) \in Nat /\ Cardinality(Sends) <= 1
  <2>1. Sends = {} \/ \E q : Sends = {q}
    BY <1>0 DEF OthersInv
  <2>2. CASE Sends = {}
    <3>1. IsFiniteSet({}) /\ Cardinality({}) = 0
      BY FS_EmptySet
    <3> QED BY <2>2, <3>1
  <2>3. CASE \E q : Sends = {q}
    <3>1. PICK q : Sends = {q}
      BY <2>3
    <3>2. IsFiniteSet({q}) /\ Cardinality({q}) = 1
      BY FS_Singleton
    <3> HIDE DEF Sends
    <3> QED BY <3>1, <3>2
  <2> QED BY <2>1, <2>2, <2>3
<1>4. IsFiniteSet(Recvs) /\ Cardinality(Recvs) \in Nat /\ Cardinality(Recvs) <= 2
  <2>1. Recvs \in SUBSET Reqs
    BY DEF Recvs
  <2>2. IsFiniteSet(Recvs)
    BY <2>1, ReqsAssumption, FS_Subset
  <2> QED BY <1>0, <2>2, FS_CardinalityType DEF OthersInv
<1>5. IsFiniteSet(Left) /\ Cardinality(Left) \in Nat
      /\ Cardinality(Left) <= IF burst > 0 THEN 1 ELSE 2
  <2>1. Left \in SUBSET Recvs
    OBVIOUS
  <2>2. IsFiniteSet(Left) /\ Cardinality(Left) <= Cardinality(Recvs)
        /\ (Cardinality(Left) = Cardinality(Recvs) => Left = Recvs)
    BY <1>4, <2>1, FS_Subset
  <2>3. Cardinality(Left) \in Nat
    BY <2>2, FS_CardinalityType
  <2>4. burst > 0 => Left # Recvs
    BY <1>0 DEF OthersInv
  <2> QED BY <1>4, <2>2, <2>3, <2>4
<1> HIDE DEF Way, Sends, Left
<1>6. /\ IsFiniteSet(RdmaOnWay \cup Sends) /\ Cardinality(RdmaOnWay \cup Sends) \in Nat
      /\ Cardinality(RdmaOnWay \cup Sends) <= burst + 1
  BY <1>2, <1>3, UnionCount
<1>7. /\ IsFiniteSet(RdmaOnWay \cup Sends \cup Left)
      /\ Cardinality(RdmaOnWay \cup Sends \cup Left) \in Nat
      /\ Cardinality(RdmaOnWay \cup Sends \cup Left) <=
           Cardinality(RdmaOnWay \cup Sends) + Cardinality(Left)
  BY <1>5, <1>6, UnionCount
<1>8. Cardinality(Way) <= Cardinality(RdmaOnWay \cup Sends \cup Left)
      /\ Cardinality(Way) \in Nat
  BY <1>1, <1>7, FS_Subset, FS_CardinalityType
<1>9. Cardinality(Way) <= burst + (IF burst > 0 THEN 2 ELSE 3)
  BY <1>2, <1>5, <1>6, <1>7, <1>8
<1> QED
  BY <1>9 DEF Way

\* The completion queue of CQE_ALLOC_SIZE entries overruns only after a burst of
\* more than CqeSize - 2 reads and writes without a read that returned.
THEOREM OverrunsNeedBurst == Spec => OverrunNeedsBurst
<1>1. (IInv /\ BurstInv) /\ [Next]_vars => [overrun' /\ ~overrun => burst > CqeSize - 2]_vars
  <2> SUFFICES ASSUME IInv, BurstInv, Next, overrun', ~overrun
               PROVE  burst > CqeSize - 2
    OBVIOUS
  <2>1. PICK r \in Reqs : Complete(r)
    <3>1. ASSUME NEW r \in Reqs, PostInit(r) \/ Write(r) \/ Read(r)
          PROVE  UNCHANGED overrun
      BY <3>1, Zenon DEF PostInit, Write, Read, PostSend
    <3>2. ASSUME ReadReturn \/ Handler \/ Disconnect
          PROVE  UNCHANGED overrun
      BY <3>2, Zenon DEF ReadReturn, Handler, Dispatch, GetCqEvent, ReqNotify, PollCq,
         HandleWc, Disconnect, nicVars
    <3>3. \E r \in Reqs : PostInit(r) \/ Write(r) \/ Read(r) \/ Complete(r)
      BY <3>2, Zenon DEF Next
    <3> QED BY <3>1, <3>3
  <2>2. stage[r] = "posted" /\ Len(cq) >= CqeSize
    <3>1. stage[r] = "posted" /\ ~(~overrun /\ Len(cq) < CqeSize)
      BY <2>1, Zenon DEF Complete
    <3>2. Len(cq) \in Nat
      BY DEF IInv, TypeOK
    <3> QED BY <3>1, <3>2, SizeAssumption
  <2> DEFINE Way == {q \in Reqs : stage[q] \in {"posted", "queued"}}
  <2>3. Cardinality(Way) \in Nat
    BY OnTheWayFinite
  <2>4. Len(cq) \in Nat /\ burst \in Nat
    BY DEF IInv, TypeOK
  <2>5. Cardinality(Way) > Len(cq)
    BY <2>2, QueuedCount
  <2>6. Cardinality(Way) <= burst + (IF burst > 0 THEN 2 ELSE 3)
    BY WayCount
  <2> HIDE DEF Way
  <2> QED BY <2>2, <2>3, <2>4, <2>5, <2>6, SizeAssumption
<1> QED
  BY BurstInductive, <1>1, PTL DEF Spec, OverrunNeedsBurst

-----------------------------------------------------------------------------
(* The refinement *)

\* The mapped variable.
Phase == [r \in Reqs |-> PhaseOf(r)]

\* The phase of one request.
LEMMA PhaseAt ==
  ASSUME NEW r \in Reqs
  PROVE  /\ stage[r] \in {"free", "refused"} => Phase[r] = "unposted"
         /\ stage[r] = "posted" => Phase[r] = "posted"
         /\ stage[r] \in {"queued", "lost", "polled"} =>
              Phase[r] = IF done[r] THEN "noticed" ELSE status[r]
  BY DEF Phase, PhaseOf

\* The phase of one request after a step.
LEMMA PhaseAtNext ==
  ASSUME NEW r \in Reqs
  PROVE  /\ stage'[r] \in {"free", "refused"} => Phase'[r] = "unposted"
         /\ stage'[r] = "posted" => Phase'[r] = "posted"
         /\ stage'[r] \in {"queued", "lost", "polled"} =>
              Phase'[r] = IF done'[r] THEN "noticed" ELSE status'[r]
  BY DEF Phase, PhaseOf

\* Phases are functions on the requests.
LEMMA PhaseFunction ==
  /\ Phase = [r \in Reqs |-> Phase[r]]
  /\ Phase' = [r \in Reqs |-> Phase'[r]]
  BY DEF Phase

\* A step that concerns one request, or none, for the other threads.
LEMMA PhaseKept ==
  ASSUME \A r \in Reqs : Phase'[r] = Phase[r]
  PROVE  Phase' = Phase
  BY PhaseFunction

\* A step that concerns one request.
LEMMA PhaseSet ==
  ASSUME NEW r \in Reqs, NEW v, Phase'[r] = v,
         \A q \in Reqs : q # r => Phase'[q] = Phase[q]
  PROVE  Phase' = [Phase EXCEPT ![r] = v]
  BY PhaseFunction

\* Requests that a step does not touch keep their phase.
LEMMA Untouched ==
  ASSUME TypeOK, NEW q \in Reqs, stage'[q] = stage[q], done'[q] = done[q], status'[q] = status[q]
  PROVE  Phase'[q] = Phase[q]
<1>1. \/ stage[q] \in {"free", "refused"} \/ stage[q] = "posted"
      \/ stage[q] \in {"queued", "lost", "polled"}
  BY DEF TypeOK, Stage
<1> QED
  BY <1>1, PhaseAt, PhaseAtNext

\* Posting, or trying to.
LEMMA PostMaps ==
  ASSUME IInv, NEW r \in Reqs, NEW o \in Opcode, PostSend(r, o),
         reader' = reader \/ (reader' = r /\ reader = NoReq)
  PROVE  Requests!Next \/ UNCHANGED Requests!vars
<1>1. /\ stage[r] = "free" /\ stage'[r] \in {"posted", "refused"}
      /\ \A q \in Reqs : q # r => stage'[q] = stage[q]
      /\ UNCHANGED <<done, status>>
  BY PostEffect DEF IInv
<1>2. Phase[r] = "unposted"
  BY <1>1, PhaseAt
<1>3. \A q \in Reqs : q # r => Phase'[q] = Phase[q]
  BY <1>1, Untouched DEF IInv
<1>4. CASE stage'[r] = "refused"
  <2>1. Phase' = Phase
    BY <1>2, <1>3, <1>4, PhaseAtNext, PhaseKept
  <2>2. CASE reader' = reader
    BY <2>1, <2>2 DEF Requests!vars, Phase
  <2>3. CASE reader' = r /\ reader = NoReq
    <3>1. Requests!WaitInVain(r)
      BY <1>2, <2>1, <2>3 DEF Requests!WaitInVain, Phase
    <3> QED BY <3>1 DEF Requests!Next
  <2> QED BY <2>2, <2>3
<1>5. CASE stage'[r] = "posted"
  <2>1. Phase' = [Phase EXCEPT ![r] = "posted"]
    BY <1>3, <1>5, PhaseAtNext, PhaseSet
  <2>2. Requests!Post(r) \/ Requests!PostAndWait(r)
    BY <1>2, <2>1 DEF Requests!Post, Requests!PostAndWait, Phase
  <2> QED BY <2>2 DEF Requests!Next
<1> QED
  BY <1>1, <1>4, <1>5

\* The adapter performs a request.
LEMMA CompleteMaps ==
  ASSUME IInv, NEW r \in Reqs, Complete(r)
  PROVE  Requests!Next
<1>1. /\ stage[r] = "posted" /\ stage'[r] \in {"queued", "lost"}
      /\ status'[r] \in {"good", "bad"} /\ UNCHANGED <<done, reader>>
      /\ \A q \in Reqs : q # r => stage'[q] = stage[q] /\ status'[q] = status[q]
  BY CompleteEffect DEF IInv, appVars
<1>2. ~done[r]
  BY <1>1 DEF IInv, RequestInv
<1>3. Phase[r] = "posted" /\ Phase'[r] = status'[r]
  BY <1>1, <1>2, PhaseAt, PhaseAtNext
<1>4. \A q \in Reqs : q # r => Phase'[q] = Phase[q]
  BY <1>1, Untouched DEF IInv
<1>5. Phase' = [Phase EXCEPT ![r] = status'[r]]
  BY <1>3, <1>4, PhaseSet
<1>6. Requests!Perform(r, status'[r])
  BY <1>1, <1>3, <1>5 DEF Requests!Perform, Phase
<1> QED
  BY <1>1, <1>6 DEF Requests!Next

\* A completion is handled, once or again, or something else was taken for one.
LEMMA HandleMaps ==
  ASSUME IInv, HandleWc
  PROVE  Requests!Next \/ UNCHANGED Requests!vars
<1>1. UNCHANGED <<reader, stage, status>>
  BY DEF HandleWc, nicVars
<1>2. CASE UNCHANGED done
  <2>1. Phase' = Phase
    BY <1>1, <1>2 DEF Phase, PhaseOf
  <2> QED BY <1>1, <2>1 DEF Requests!vars, Phase
<1>3. CASE done' # done
  <2>1. /\ wc \in Reqs
        /\ done' = [done EXCEPT ![wc] = done[wc] \/ (op[wc] = "RDMA_READ" /\ status[wc] = "good")]
    BY <1>3 DEF HandleWc
  <2>2. ~done[wc] /\ done'[wc] /\ status[wc] = "good"
        /\ \A q \in Reqs : q # wc => done'[q] = done[q]
    BY <1>3, <2>1 DEF IInv, TypeOK
  <2>3. stage[wc] = "polled"
    BY <2>1, ReqsAssumption DEF IInv, WaitInv
  <2>4. Phase[wc] = "good" /\ Phase'[wc] = "noticed"
    BY <1>1, <2>1, <2>2, <2>3, PhaseAt, PhaseAtNext
  <2>5. \A q \in Reqs : q # wc => Phase'[q] = Phase[q]
    BY <1>1, <2>2, Untouched DEF IInv
  <2>6. Phase' = [Phase EXCEPT ![wc] = "noticed"]
    BY <2>1, <2>4, <2>5, PhaseSet
  <2>7. Requests!Notice(wc)
    BY <1>1, <2>4, <2>6 DEF Requests!Notice, Phase
  <2> QED BY <2>1, <2>7 DEF Requests!Next
<1> QED
  BY <1>2, <1>3

\* The read loop ends.
LEMMA ReturnMaps ==
  ASSUME IInv, ReadReturn
  PROVE  Requests!Next
<1>1. /\ reader \in Reqs /\ done[reader] /\ reader' = NoReq /\ reader # NoReq
      /\ UNCHANGED <<done, stage, status>>
  BY DEF ReadReturn, IInv, TypeOK, nicVars
<1>2. stage[reader] = "polled"
  BY <1>1 DEF IInv, RequestInv
<1>3. Phase[reader] = "noticed"
  BY <1>1, <1>2, PhaseAt
<1>4. Phase' = Phase
  BY <1>1 DEF Phase, PhaseOf
<1> QED
  BY <1>1, <1>3, <1>4 DEF Requests!Next, Requests!Return, Phase

\* The steps that nobody but the epoll thread sees.
LEMMA HiddenMaps ==
  ASSUME IInv, Dispatch \/ GetCqEvent \/ ReqNotify \/ PollCq \/ Disconnect
  PROVE  UNCHANGED Requests!vars
<1>1. UNCHANGED <<done, reader, status>>
  BY DEF Dispatch, GetCqEvent, ReqNotify, PollCq, Disconnect, appVars, nicVars
<1>2. CASE UNCHANGED stage
  BY <1>1, <1>2 DEF Phase, PhaseOf, Requests!vars
<1>3. CASE cq # <<>> /\ cq' = Tail(cq) /\ stage' = [stage EXCEPT ![Head(cq)] = "polled"]
  <2>1. /\ Head(cq) \in Reqs /\ stage[Head(cq)] = "queued" /\ stage'[Head(cq)] = "polled"
        /\ \A q \in Reqs : q # Head(cq) => stage'[q] = stage[q]
    BY <1>3, LeaveQueue DEF IInv
  <2>2. Phase'[Head(cq)] = Phase[Head(cq)]
    BY <1>1, <2>1, PhaseAt, PhaseAtNext
  <2>3. \A q \in Reqs : q # Head(cq) => Phase'[q] = Phase[q]
    BY <1>1, <2>1, Untouched DEF IInv
  <2>4. Phase' = Phase
    BY <2>2, <2>3, PhaseKept
  <2> QED BY <1>1, <2>4 DEF Requests!vars, Phase
<1> QED
  BY <1>2, <1>3 DEF Dispatch, GetCqEvent, ReqNotify, PollCq, Disconnect, nicVars

\* The receive requests are posted at the start.
LEMMA RequestsInit == Init => Requests!Init
<1> SUFFICES ASSUME Init PROVE Requests!Init
  OBVIOUS
<1>1. PICK R \in SUBSET Reqs :
        stage = [r \in Reqs |-> IF r \in R THEN "posted" ELSE "free"]
  BY DEF Init
<1>2. \A r \in Reqs : Phase[r] = IF r \in R THEN "posted" ELSE "unposted"
  BY <1>1, PhaseAt
<1>3. Phase = [r \in Reqs |-> IF r \in R THEN "posted" ELSE "unposted"]
  BY <1>2, PhaseFunction
<1>4. reader = NoReq
  BY DEF Init
<1> QED
  BY <1>3, <1>4 DEF Requests!Init, Phase

\* Every step maps to a step of the abstract specification or a stutter.
LEMMA RequestsStep == IInv /\ [Next]_vars => [Requests!Next]_(Requests!vars)
<1> SUFFICES ASSUME IInv, [Next]_vars
             PROVE  Requests!Next \/ UNCHANGED Requests!vars
  OBVIOUS
<1>1. ASSUME NEW r \in Reqs, PostInit(r) \/ Write(r) \/ Read(r)
      PROVE  Requests!Next \/ UNCHANGED Requests!vars
  <2>1. \/ PostSend(r, "SEND") /\ UNCHANGED reader
        \/ PostSend(r, "RDMA_WRITE") /\ UNCHANGED reader
        \/ PostSend(r, "RDMA_READ") /\ reader' = r /\ reader = NoReq
    BY <1>1 DEF PostInit, Write, Read
  <2>2. {"SEND", "RDMA_WRITE", "RDMA_READ"} \subseteq Opcode
    BY DEF Opcode
  <2> QED BY <2>1, <2>2, PostMaps
<1>2. ASSUME NEW r \in Reqs, Complete(r)
      PROVE  Requests!Next
  BY <1>2, CompleteMaps
<1>3. CASE ReadReturn
  BY <1>3, ReturnMaps
<1>4. CASE Handler \/ Disconnect
  BY <1>4, HandleMaps, HiddenMaps DEF Handler
<1>5. CASE UNCHANGED vars
  BY <1>5 DEF vars, appVars, nicVars, Phase, PhaseOf, Requests!vars
<1> QED
  BY <1>1, <1>2, <1>3, <1>4, <1>5 DEF Next

\* Posting, completing, polling and handling implement what HmpRequests says of
\* a request: no read returns that was not performed and noticed.
THEOREM CompletionImplementsRequests == Spec => ImplementsRequests
  BY Inductive, RequestsInit, RequestsStep, PTL
     DEF Spec, ImplementsRequests, Requests!Spec
=============================================================================
