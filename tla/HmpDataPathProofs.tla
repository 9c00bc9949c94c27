--------------------------- MODULE HmpDataPathProofs ---------------------------
(***************************************************************************)
(* Proofs about HmpDataPath, for every set of nodes, every memory and every  *)
(* choice of rights, bounds and faults.                                     *)
(***************************************************************************)
EXTENDS HmpDataPath, SequenceTheorems, TLAPS

-----------------------------------------------------------------------------
(* The inductive invariant.                                                *)

\* A read on a queue pair is the last request there, and its caller spins on a
\* task that nothing has completed.
ReadInv ==
  \A n, p \in Node : \A i \in 1 .. Len(sq[n][p]) :
    sq[n][p][i].op = "READ" =>
      i = Len(sq[n][p]) /\ pc[n] = "spin" /\ call[n].node = p /\ task[n] = "READ"

\* When its task has been completed, nothing is left before it.
DoneInv ==
  \A n \in Node :
    task[n] \in {"completed", "DONE"} =>
      sq[n][call[n].node] = <<>> /\ ~flushed[n][call[n].node]

\* While nothing has failed on a queue pair, what its node's application asked
\* for and is not in place is still queued there, or was given up and logged.
CountInv ==
  \A n, p \in Node :
    ~flushed[n][p] => due[n][p] = logged[n][p] + Len(sq[n][p])

\* The part of TypeOK that the history variables concern.
CountTypes == due \in [Node -> [Node -> Nat]] /\ logged \in [Node -> [Node -> Nat]]

Counted == CountTypes /\ CountInv

\* Why a read that returns has waited for what was asked for before it.
IInv == TypeOK /\ ReadInv /\ DoneInv /\ CountInv

-----------------------------------------------------------------------------
(* Send queues *)

\* Who is in a call has a call.
LEMMA CallOfSpinner ==
  ASSUME TypeOK
  PROVE  \A n \in Node :
           pc[n] # "idle" \/ task[n] # "none" =>
             call[n] \in Call /\ call[n].node \in Node /\ call[n].req \in Request
<1>1. \A n \in Node : pc[n] # "idle" \/ task[n] # "none" => call[n] \in Call
  BY DEF TypeOK
<1> QED
  BY <1>1 DEF Call

\* A request is appended to one queue.
LEMMA Appended ==
  ASSUME TypeOK, NEW n \in Node, NEW p \in Node, NEW r \in Request,
         sq' = [sq EXCEPT ![n][p] = Append(@, r)]
  PROVE  /\ sq' \in [Node -> [Node -> Seq(Request)]]
         /\ sq'[n][p] = Append(sq[n][p], r)
         /\ \A m, q \in Node : m # n \/ q # p => sq'[m][q] = sq[m][q]
<1>1. sq \in [Node -> [Node -> Seq(Request)]]
  BY DEF TypeOK
<1>2. Append(sq[n][p], r) \in Seq(Request)
  BY <1>1
<1> QED
  BY <1>1, <1>2

\* The only read among the requests is the last one.
OnlyLastReads(s) == \A i \in 1 .. Len(s) : s[i].op = "READ" => i = Len(s)

\* None of the requests is a read.
NoReads(s) == \A i \in 1 .. Len(s) : s[i].op # "READ"

\* A queue without reads but its last may lose its oldest request; when that
\* was a read, nothing is left.
LEMMA TailReads ==
  ASSUME NEW s \in Seq(Request), s # <<>>, OnlyLastReads(s)
  PROVE  /\ OnlyLastReads(Tail(s))
         /\ \A i \in 1 .. Len(Tail(s)) : Tail(s)[i].op = "READ" =>
              i + 1 \in 1 .. Len(s) /\ s[i + 1].op = "READ"
         /\ Head(s).op = "READ" => Tail(s) = <<>> /\ 1 \in 1 .. Len(s) /\ s[1].op = "READ"
<1>1. /\ Len(s) \in Nat \ {0} /\ Head(s) = s[1] /\ Len(Tail(s)) = Len(s) - 1
      /\ Tail(s) \in Seq(Request)
  OBVIOUS
<1>2. \A i \in 1 .. Len(Tail(s)) : i + 1 \in 1 .. Len(s) /\ Tail(s)[i] = s[i + 1]
  BY <1>1
<1>3. 1 \in 1 .. Len(s)
  BY <1>1
<1>4. OnlyLastReads(Tail(s))
  <2> SUFFICES ASSUME NEW i \in 1 .. Len(Tail(s)), Tail(s)[i].op = "READ"
               PROVE  i = Len(Tail(s))
    BY DEF OnlyLastReads
  <2>1. i + 1 \in 1 .. Len(s) /\ s[i + 1].op = "READ"
    BY <1>2
  <2>2. i + 1 = Len(s)
    BY <2>1 DEF OnlyLastReads
  <2> QED BY <2>2, <1>1
<1>5. Head(s).op = "READ" => 1 = Len(s)
  BY <1>1, <1>3 DEF OnlyLastReads
<1>6. 1 = Len(s) => Tail(s) = <<>>
  <2>1. Len(Tail(s)) = 0 => Tail(s) = <<>>
    BY <1>1, EmptySeq
  <2> QED BY <1>1, <2>1
<1> QED
  BY <1>1, <1>2, <1>3, <1>4, <1>5, <1>6

\* A request may follow requests of which none is a read.
LEMMA AppendReads ==
  ASSUME NEW s \in Seq(Request), NEW r \in Request, NoReads(s)
  PROVE  /\ OnlyLastReads(Append(s, r))
         /\ r.op # "READ" => NoReads(Append(s, r))
<1>1. /\ Len(Append(s, r)) = Len(s) + 1 /\ Append(s, r)[Len(s) + 1] = r
      /\ \A i \in 1 .. Len(s) : Append(s, r)[i] = s[i]
  BY AppendProperties
<1>2. Len(s) \in Nat
  OBVIOUS
<1> QED
  BY <1>1, <1>2 DEF NoReads, OnlyLastReads

\* Taking the oldest request away keeps the queue invariant for the rest.
LEMMA PopKeepsReadInv ==
  ASSUME TypeOK, ReadInv, NEW n \in Node, NEW p \in Node, sq[n][p] # <<>>,
         sq' = [sq EXCEPT ![n][p] = Tail(@)], UNCHANGED appVars,
         \A m \in Node : task'[m] = task[m] \/ (m = n /\ Head(sq[n][p]).op = "READ")
  PROVE  ReadInv'
<1>3. sq \in [Node -> [Node -> Seq(Request)]]
  BY DEF TypeOK
<1>0. sq[n][p] \in Seq(Request)
  BY <1>3
<1>1. /\ sq'[n][p] = Tail(sq[n][p])
      /\ \A m, q \in Node : m # n \/ q # p => sq'[m][q] = sq[m][q]
  BY <1>3
<1>2. \A k \in 1 .. Len(sq[n][p]) : sq[n][p][k].op = "READ" =>
        k = Len(sq[n][p]) /\ pc[n] = "spin" /\ call[n].node = p /\ task[n] = "READ"
  BY DEF ReadInv
<1>4. /\ OnlyLastReads(Tail(sq[n][p]))
      /\ \A i \in 1 .. Len(Tail(sq[n][p])) : Tail(sq[n][p])[i].op = "READ" =>
           i + 1 \in 1 .. Len(sq[n][p]) /\ sq[n][p][i + 1].op = "READ"
      /\ Head(sq[n][p]).op = "READ" =>
           Tail(sq[n][p]) = <<>> /\ 1 \in 1 .. Len(sq[n][p]) /\ sq[n][p][1].op = "READ"
  <2>1. OnlyLastReads(sq[n][p])
    BY <1>2 DEF OnlyLastReads
  <2> QED BY <2>1, <1>0, TailReads
<1>5. Head(sq[n][p]).op = "READ" => call[n].node = p
  BY <1>2, <1>4
<1> SUFFICES ASSUME NEW m \in Node, NEW q \in Node, NEW i \in 1 .. Len(sq'[m][q]),
                    sq'[m][q][i].op = "READ"
             PROVE  /\ i = Len(sq'[m][q]) /\ pc'[m] = "spin" /\ call'[m].node = q
                    /\ task'[m] = "READ"
  BY DEF ReadInv
<1>6. CASE m = n /\ q = p
  <2>1. sq'[m][q] = Tail(sq[n][p])
    BY <1>1, <1>6
  <2>2. i \in 1 .. Len(Tail(sq[n][p])) /\ Tail(sq[n][p])[i].op = "READ"
    BY <2>1
  <2>3. Tail(sq[n][p]) # <<>>
    BY <2>2
  <2>4. i = Len(Tail(sq[n][p]))
    BY <2>2, <1>4 DEF OnlyLastReads
  <2>5. pc[n] = "spin" /\ call[n].node = p /\ task[n] = "READ"
    BY <2>2, <1>4, <1>2
  <2>6. task'[m] = task[m]
    BY <2>3, <1>4
  <2> QED BY <2>1, <2>4, <2>5, <2>6, <1>6 DEF appVars
<1>7. CASE ~(m = n /\ q = p)
  <2>1. sq'[m][q] = sq[m][q]
    BY <1>1, <1>7
  <2>0. i \in 1 .. Len(sq[m][q]) /\ sq[m][q][i].op = "READ"
    BY <2>1
  <2>2. i = Len(sq[m][q]) /\ pc[m] = "spin" /\ call[m].node = q /\ task[m] = "READ"
    BY <2>0, Zenon DEF ReadInv
  <2>3. task'[m] = task[m]
    BY <2>2, <1>5, <1>7
  <2> QED BY <2>1, <2>2, <2>3 DEF appVars
<1> QED
  BY <1>6, <1>7

-----------------------------------------------------------------------------
(* What the steps do to the queue invariants *)

\* A step of a node whose read is not in a queue, with the queues unchanged.
LEMMA QuietStep ==
  ASSUME ReadInv, DoneInv, NEW n \in Node, UNCHANGED <<sq, flushed>>,
         \A m \in Node : m # n => pc'[m] = pc[m] /\ call'[m] = call[m] /\ task'[m] = task[m],
         task[n] # "READ",
         task'[n] \in {"completed", "DONE"} =>
           task[n] \in {"completed", "DONE"} /\ call'[n] = call[n]
  PROVE  ReadInv' /\ DoneInv'
<1>1. ReadInv'
  <2> SUFFICES ASSUME NEW m \in Node, NEW q \in Node, NEW i \in 1 .. Len(sq[m][q]),
                      sq[m][q][i].op = "READ"
               PROVE  /\ i = Len(sq[m][q]) /\ pc'[m] = "spin" /\ call'[m].node = q
                      /\ task'[m] = "READ"
    BY DEF ReadInv
  <2>1. i = Len(sq[m][q]) /\ pc[m] = "spin" /\ call[m].node = q /\ task[m] = "READ"
    BY DEF ReadInv
  <2>2. m # n
    BY <2>1
  <2> QED BY <2>1, <2>2
<1>2. DoneInv'
  <2> SUFFICES ASSUME NEW m \in Node, task'[m] \in {"completed", "DONE"}
               PROVE  sq[m][call'[m].node] = <<>> /\ ~flushed[m][call'[m].node]
    BY DEF DoneInv
  <2>1. task[m] \in {"completed", "DONE"} /\ call'[m] = call[m]
    OBVIOUS
  <2> QED BY <2>1 DEF DoneInv
<1> QED
  BY <1>1, <1>2

\* A node whose thread is not in a read posts a request.
LEMMA PushStep ==
  ASSUME TypeOK, ReadInv, DoneInv, NEW n \in Node, NEW p \in Node, NEW r \in Request,
         sq' = [sq EXCEPT ![n][p] = Append(@, r)], UNCHANGED flushed,
         \A m \in Node : m # n => pc'[m] = pc[m] /\ call'[m] = call[m] /\ task'[m] = task[m],
         task[n] = "none", task'[n] \in {"none", "READ"},
         r.op = "READ" => pc'[n] = "spin" /\ call'[n].node = p /\ task'[n] = "READ"
  PROVE  ReadInv' /\ DoneInv'
<1>1. /\ sq'[n][p] = Append(sq[n][p], r)
      /\ \A m, q \in Node : m # n \/ q # p => sq'[m][q] = sq[m][q]
  BY Appended
<1>2. \A q \in Node : NoReads(sq[n][q])
  BY DEF ReadInv, NoReads
<1>3. sq[n][p] \in Seq(Request)
  BY DEF TypeOK
<1>4. /\ OnlyLastReads(Append(sq[n][p], r))
      /\ r.op # "READ" => NoReads(Append(sq[n][p], r))
  BY <1>2, <1>3, AppendReads
<1>5. ReadInv'
  <2> SUFFICES ASSUME NEW m \in Node, NEW q \in Node, NEW i \in 1 .. Len(sq'[m][q]),
                      sq'[m][q][i].op = "READ"
               PROVE  /\ i = Len(sq'[m][q]) /\ pc'[m] = "spin" /\ call'[m].node = q
                      /\ task'[m] = "READ"
    BY DEF ReadInv
  <2>1. CASE m = n /\ q = p
    <3>1. sq'[m][q] = Append(sq[n][p], r)
      BY <1>1, <2>1
    <3>2. i = Len(sq'[m][q])
      BY <3>1, <1>4 DEF OnlyLastReads
    <3>3. ~NoReads(sq'[m][q])
      BY DEF NoReads
    <3>4. r.op = "READ"
      BY <3>1, <3>3, <1>4
    <3> QED BY <3>2, <3>4, <2>1
  <2>2. CASE ~(m = n /\ q = p)
    <3>1. sq'[m][q] = sq[m][q]
      BY <1>1, <2>2
    <3>0. i \in 1 .. Len(sq[m][q]) /\ sq[m][q][i].op = "READ"
      BY <3>1
    <3>2. i = Len(sq[m][q]) /\ pc[m] = "spin" /\ call[m].node = q /\ task[m] = "READ"
      BY <3>0, Zenon DEF ReadInv
    <3>3. m # n
      BY <3>2
    <3> QED BY <3>1, <3>2, <3>3
  <2> QED BY <2>1, <2>2
<1>7. \A m \in Node : task[m] # "none" => call[m].node \in Node
  BY CallOfSpinner
<1>6. DoneInv'
  <2> SUFFICES ASSUME NEW m \in Node, task'[m] \in {"completed", "DONE"}
               PROVE  sq'[m][call'[m].node] = <<>> /\ ~flushed'[m][call'[m].node]
    BY DEF DoneInv
  <2>1. m # n
    OBVIOUS
  <2>2. task[m] \in {"completed", "DONE"} /\ call'[m] = call[m]
    BY <2>1
  <2>3. sq[m][call[m].node] = <<>> /\ ~flushed[m][call[m].node]
    BY <2>2 DEF DoneInv
  <2>4. call[m].node \in Node
    BY <2>2, <1>7
  <2> QED BY <1>1, <2>1, <2>2, <2>3, <2>4
<1> QED
  BY <1>5, <1>6
-----------------------------------------------------------------------------
(* What the steps do to the counts *)

LEMMA CountedNow == ASSUME IInv PROVE Counted
  BY DEF IInv, TypeOK, Counted, CountTypes

LEMMA CountKept ==
  ASSUME IInv, UNCHANGED <<sq, flushed, due, logged>>
  PROVE  Counted'
  BY CountedNow DEF Counted, CountTypes, CountInv

\* A call of n for p's memory posts its request.
LEMMA CountPost ==
  ASSUME IInv, NEW n \in Node, NEW p \in Node, NEW r \in Request,
         sq' = [sq EXCEPT ![n][p] = Append(@, r)], UNCHANGED <<flushed, logged>>,
         due' = [due EXCEPT ![n][p] = @ + 1]
  PROVE  Counted'
<1>1. CountTypes'
  BY CountedNow DEF Counted, CountTypes
<1>2. /\ sq'[n][p] = Append(sq[n][p], r)
      /\ \A m, q \in Node : m # n \/ q # p => sq'[m][q] = sq[m][q]
  BY Appended DEF IInv
<1>3. sq[n][p] \in Seq(Request)
  BY DEF IInv, TypeOK
<1>4. Len(Append(sq[n][p], r)) = Len(sq[n][p]) + 1 /\ Len(sq[n][p]) \in Nat
  BY <1>3
<1>5. /\ due'[n][p] = due[n][p] + 1
      /\ \A m, q \in Node : m # n \/ q # p => due'[m][q] = due[m][q]
      /\ \A m, q \in Node : due[m][q] \in Nat /\ logged[m][q] \in Nat
  BY CountedNow DEF Counted, CountTypes
<1>6. ASSUME NEW m \in Node, NEW q \in Node, ~flushed[m][q]
      PROVE  due'[m][q] = logged[m][q] + Len(sq'[m][q])
  <2>1. due[m][q] = logged[m][q] + Len(sq[m][q])
    BY <1>6 DEF IInv, CountInv
  <2>2. CASE m = n /\ q = p
    BY <2>1, <2>2, <1>2, <1>4, <1>5
  <2>3. CASE ~(m = n /\ q = p)
    BY <2>1, <2>3, <1>2, <1>5
  <2> QED BY <2>2, <2>3
<1> QED
  BY <1>1, <1>6 DEF Counted, CountInv

\* A call of n for p's memory is given up.
LEMMA CountLogged ==
  ASSUME IInv, NEW n \in Node, NEW p \in Node, UNCHANGED <<sq, flushed>>,
         due' = [due EXCEPT ![n][p] = @ + 1], logged' = [logged EXCEPT ![n][p] = @ + 1]
  PROVE  Counted'
<1>1. CountTypes'
  BY CountedNow DEF Counted, CountTypes
<1>2. \A m, q \in Node : Len(sq[m][q]) \in Nat
  BY DEF IInv, TypeOK
<1>3. /\ \A m, q \in Node : due'[m][q] = IF m = n /\ q = p THEN due[m][q] + 1 ELSE due[m][q]
      /\ \A m, q \in Node :
           logged'[m][q] = IF m = n /\ q = p THEN logged[m][q] + 1 ELSE logged[m][q]
      /\ \A m, q \in Node : due[m][q] \in Nat /\ logged[m][q] \in Nat
  BY CountedNow DEF Counted, CountTypes
<1>4. ASSUME NEW m \in Node, NEW q \in Node, ~flushed[m][q]
      PROVE  due'[m][q] = logged'[m][q] + Len(sq[m][q])
  <2>1. due[m][q] = logged[m][q] + Len(sq[m][q])
    BY <1>4 DEF IInv, CountInv
  <2>2. Len(sq[m][q]) \in Nat /\ due[m][q] \in Nat /\ logged[m][q] \in Nat
    BY <1>2, <1>3
  <2>3. CASE m = n /\ q = p
    <3>1. due'[m][q] = due[m][q] + 1 /\ logged'[m][q] = logged[m][q] + 1
      BY <2>3, <1>3
    <3> QED BY <3>1, <2>1, <2>2
  <2>4. CASE ~(m = n /\ q = p)
    <3>1. due'[m][q] = due[m][q] /\ logged'[m][q] = logged[m][q]
      BY <2>4, <1>3
    <3> QED BY <3>1, <2>1
  <2> QED BY <2>3, <2>4
<1> QED
  BY <1>1, <1>4 DEF Counted, CountInv

\* An adapter executes the oldest request, or fails it with all that follow.
LEMMA CountAdapter ==
  ASSUME IInv, NEW n \in Node, NEW p \in Node, Adapter(n, p)
  PROVE  Counted'
<1>1. sq[n][p] # <<>> /\ sq' = [sq EXCEPT ![n][p] = Tail(@)] /\ UNCHANGED logged
  BY DEF Adapter, Execute, Fail
<1>2. sq[n][p] \in Seq(Request)
  BY DEF IInv, TypeOK
<1>3. Len(sq[n][p]) \in Nat \ {0} /\ Len(Tail(sq[n][p])) = Len(sq[n][p]) - 1
  BY <1>1, <1>2
<1>4. \A m, q \in Node : sq'[m][q] = IF m = n /\ q = p THEN Tail(sq[n][p]) ELSE sq[m][q]
  BY <1>1 DEF IInv, TypeOK
<1>5. \A m, q \in Node : due[m][q] \in Nat /\ logged[m][q] \in Nat
  BY CountedNow DEF Counted, CountTypes
<1>6. CASE Execute(n, p)
  <2>1. /\ ~flushed[n][p] /\ UNCHANGED flushed /\ due' = [due EXCEPT ![n][p] = @ - 1]
    BY <1>6 DEF Execute
  <2>2. due[n][p] = logged[n][p] + Len(sq[n][p])
    BY <2>1 DEF IInv, CountInv
  <2>3. due[n][p] - 1 \in Nat /\ due[n][p] - 1 = logged[n][p] + Len(Tail(sq[n][p]))
    BY <2>2, <1>3, <1>5
  <2>4. CountTypes'
    BY <2>1, <2>3, <1>1, CountedNow DEF Counted, CountTypes
  <2>5. \A m, q \in Node : due'[m][q] = IF m = n /\ q = p THEN due[n][p] - 1 ELSE due[m][q]
    BY <2>1, CountedNow DEF Counted, CountTypes
  <2>6. ASSUME NEW m \in Node, NEW q \in Node, ~flushed[m][q]
        PROVE  due'[m][q] = logged[m][q] + Len(sq'[m][q])
    <3>1. CASE m = n /\ q = p
      BY <3>1, <2>3, <2>5, <1>4
    <3>2. CASE ~(m = n /\ q = p)
      <4>1. due[m][q] = logged[m][q] + Len(sq[m][q])
        BY <2>6 DEF IInv, CountInv
      <4> QED BY <4>1, <3>2, <2>5, <1>4
    <3> QED BY <3>1, <3>2
  <2> QED BY <2>1, <2>4, <2>6, <1>1 DEF Counted, CountInv
<1>7. CASE Fail(n, p)
  <2>1. flushed' = [flushed EXCEPT ![n][p] = TRUE] /\ UNCHANGED due
    BY <1>7 DEF Fail
  <2>2. \A m, q \in Node : flushed'[m][q] = IF m = n /\ q = p THEN TRUE ELSE flushed[m][q]
    BY <2>1 DEF IInv, TypeOK
  <2>3. CountTypes'
    BY <2>1, <1>1, CountedNow DEF Counted, CountTypes
  <2>4. ASSUME NEW m \in Node, NEW q \in Node, ~flushed'[m][q]
        PROVE  due[m][q] = logged[m][q] + Len(sq'[m][q])
    <3>1. ~(m = n /\ q = p) /\ ~flushed[m][q]
      BY <2>2, <2>4
    <3>2. due[m][q] = logged[m][q] + Len(sq[m][q])
      BY <3>1 DEF IInv, CountInv
    <3> QED BY <3>1, <3>2, <1>4
  <2> QED BY <2>1, <2>3, <2>4, <1>1 DEF Counted, CountInv
<1> QED
  BY <1>6, <1>7 DEF Adapter

-----------------------------------------------------------------------------
(* The steps *)

LEMMA InitInv == Init => IInv
<1> SUFFICES ASSUME Init PROVE IInv
  OBVIOUS
<1>1. sq = [n \in Node |-> [p \in Node |-> <<>>]] /\ task = [n \in Node |-> "none"]
  BY DEF Init
<1>2. TypeOK
  <2>1. \A n \in Node : call[n] = NoCall /\ pc[n] = "idle" /\ task[n] = "none"
    BY DEF Init
  <2>2. /\ mem \in [Node -> [Addr -> Val]]
        /\ pc \in [Node -> {"idle", "check", "post", "spin"}]
        /\ call \in [Node -> Call \cup {NoCall}]
        /\ trans_state \in [Node -> [Node -> {"CONNECTING", "CONNECTED", "ERROR"}]]
        /\ flushed \in [Node -> [Node -> BOOLEAN]]
        /\ task \in [Node -> {"none", "READ", "completed", "DONE"}]
    BY DEF Init
  <2>3. sq \in [Node -> [Node -> Seq(Request)]]
    BY <1>1
  <2>4. due \in [Node -> [Node -> Nat]] /\ logged \in [Node -> [Node -> Nat]]
    BY DEF Init
  <2> QED BY <2>1, <2>2, <2>3, <2>4 DEF TypeOK
<1>3. ReadInv
  <2>1. \A n, p \in Node : sq[n][p] = <<>>
    BY <1>1
  <2>2. Len(<<>>) = 0
    OBVIOUS
  <2> QED BY <2>1, <2>2 DEF ReadInv
<1>4. DoneInv
  BY <1>1 DEF DoneInv
<1>5. CountInv
  <2>1. \A n, p \in Node : sq[n][p] = <<>> /\ due[n][p] = 0 /\ logged[n][p] = 0
    BY DEF Init
  <2>2. Len(<<>>) = 0
    OBVIOUS
  <2> QED BY <2>1, <2>2 DEF CountInv
<1> QED
  BY <1>2, <1>3, <1>4, <1>5 DEF IInv

\* A word of memory changes, and nothing else.
LEMMA MemoryStep ==
  ASSUME IInv, NEW n \in Node, NEW a \in Addr, NEW v \in Val,
         mem' = [mem EXCEPT ![n][a] = v], UNCHANGED <<appVars, nicVars, task>>
  PROVE  IInv'
<1>1. mem' \in [Node -> [Addr -> Val]]
  BY DEF IInv, TypeOK
<1>2. TypeOK'
  BY <1>1 DEF IInv, TypeOK, appVars, nicVars
<1>3. ReadInv' /\ DoneInv'
  BY DEF IInv, ReadInv, DoneInv, appVars, nicVars
<1>4. Counted'
  BY CountKept DEF nicVars
<1> QED
  BY <1>2, <1>3, <1>4 DEF IInv, Counted

LEMMA StoreStep ==
  ASSUME IInv, NEW n \in Node, NEW a \in Addr, NEW v \in Val, Store(n, a, v)
  PROVE  IInv'
  BY MemoryStep DEF Store

LEMMA LocalCopyStep ==
  ASSUME IInv, NEW n \in Node, NEW from \in Addr, NEW to \in Addr, LocalCopy(n, from, to)
  PROVE  IInv'
<1>1. mem[n][from] \in Val
  BY DEF IInv, TypeOK
<1> QED
  BY <1>1, MemoryStep DEF LocalCopy

\* The main thread takes a step outside its loop.
LEMMA CallStep ==
  ASSUME IInv, NEW n \in Node, UNCHANGED <<mem, trans_state, sq, flushed>>, Counted',
         NEW s \in {"idle", "check", "post", "spin"}, pc' = [pc EXCEPT ![n] = s],
         NEW c \in Call \cup {NoCall}, call' = [call EXCEPT ![n] = c],
         NEW t \in {"none", "READ"}, task' = [task EXCEPT ![n] = t],
         c = NoCall <=> s = "idle", t = "none" <=> s # "spin",
         task[n] # "READ"
  PROVE  IInv'
<1>1. TypeOK'
  <2>1. /\ pc' \in [Node -> {"idle", "check", "post", "spin"}]
        /\ call' \in [Node -> Call \cup {NoCall}]
        /\ task' \in [Node -> {"none", "READ", "completed", "DONE"}]
    BY DEF IInv, TypeOK
  <2>2. \A m \in Node : (call'[m] = NoCall <=> pc'[m] = "idle")
                        /\ (task'[m] = "none" <=> pc'[m] # "spin")
    BY DEF IInv, TypeOK
  <2> QED BY <2>1, <2>2 DEF IInv, TypeOK, Counted, CountTypes
<1>2. /\ \A m \in Node : m # n => pc'[m] = pc[m] /\ call'[m] = call[m] /\ task'[m] = task[m]
      /\ task'[n] \in {"none", "READ"}
  BY DEF IInv, TypeOK
<1>3. ReadInv' /\ DoneInv'
  BY <1>2, QuietStep DEF IInv
<1> QED
  BY <1>1, <1>3 DEF IInv, Counted

\* An adapter takes the oldest request from its queue: it has executed it on a
\* working queue pair, or failed it.
LEMMA AdapterStep ==
  ASSUME IInv, NEW n \in Node, NEW p \in Node, Adapter(n, p)
  PROVE  IInv'
<1> DEFINE r == Head(sq[n][p])
<1>0. TypeOK /\ ReadInv /\ DoneInv
  BY DEF IInv
<1>1. /\ sq[n][p] # <<>> /\ sq' = [sq EXCEPT ![n][p] = Tail(@)]
      /\ UNCHANGED <<appVars, trans_state>>
  BY DEF Adapter, Execute, Fail
<1>2. r \in Request
  <2>1. sq[n][p] \in Seq(Request)
    BY <1>0 DEF TypeOK
  <2> QED BY <2>1, <1>1
<1>3. /\ sq' \in [Node -> [Node -> Seq(Request)]] /\ sq'[n][p] = Tail(sq[n][p])
      /\ \A m, q \in Node : m # n \/ q # p => sq'[m][q] = sq[m][q]
  <2>1. sq \in [Node -> [Node -> Seq(Request)]]
    BY <1>0 DEF TypeOK
  <2>2. Tail(sq[n][p]) \in Seq(Request)
    BY <2>1, <1>1
  <2> QED BY <2>1, <2>2, <1>1
<1>4. r.op = "READ" =>
        Tail(sq[n][p]) = <<>> /\ pc[n] = "spin" /\ call[n].node = p /\ task[n] = "READ"
  <2>1. sq[n][p] \in Seq(Request)
    BY <1>0 DEF TypeOK
  <2>2. OnlyLastReads(sq[n][p])
    BY <1>0 DEF ReadInv, OnlyLastReads
  <2>3. r.op = "READ" =>
          Tail(sq[n][p]) = <<>> /\ 1 \in 1 .. Len(sq[n][p]) /\ sq[n][p][1].op = "READ"
    BY <2>1, <2>2, <1>1, TailReads
  <2> QED BY <2>3, <1>0 DEF ReadInv
<1>5. \A m \in Node : task[m] # "none" => call[m].node \in Node
  BY <1>0, CallOfSpinner
<1>6. \A m \in Node : task[m] \in {"completed", "DONE"} =>
        (m # n \/ call[m].node # p) /\ sq'[m][call[m].node] = <<>>
        /\ ~flushed[m][call[m].node]
  <2> SUFFICES ASSUME NEW m \in Node, task[m] \in {"completed", "DONE"}
               PROVE  /\ (m # n \/ call[m].node # p) /\ sq'[m][call[m].node] = <<>>
                      /\ ~flushed[m][call[m].node]
    OBVIOUS
  <2>1. call[m].node \in Node
    BY <1>5
  <2>2. sq[m][call[m].node] = <<>> /\ ~flushed[m][call[m].node]
    BY <1>0 DEF DoneInv
  <2> QED BY <2>1, <2>2, <1>1, <1>3
<1>9. Counted'
  BY CountAdapter
<1>7. CASE Execute(n, p)
  <2>1. /\ task' = task \/ (r.op = "READ" /\ task' = [task EXCEPT ![n] = "completed"])
        /\ ~flushed[n][p] /\ UNCHANGED flushed
    BY <1>7 DEF Execute
  <2>2. mem' \in [Node -> [Addr -> Val]]
    <3>1. r.local \in Addr /\ r.remote \in Addr
      BY <1>2 DEF Request
    <3>2. mem \in [Node -> [Addr -> Val]]
      BY <1>0 DEF TypeOK
    <3>3. \/ mem' = [mem EXCEPT ![n][r.local] = mem[p][r.remote]]
          \/ mem' = [mem EXCEPT ![p][r.remote] = mem[n][r.local]]
      BY <1>7 DEF Execute
    <3> QED BY <3>1, <3>2, <3>3
  <2>3. /\ task' \in [Node -> {"none", "READ", "completed", "DONE"}]
        /\ \A m \in Node : task'[m] = "none" <=> task[m] = "none"
        /\ \A m \in Node : task'[m] = task[m] \/ (m = n /\ r.op = "READ")
    BY <2>1, <1>0, <1>4 DEF TypeOK
  <2>4. TypeOK'
    BY <1>0, <1>1, <1>3, <1>9, <2>1, <2>2, <2>3 DEF TypeOK, Counted, CountTypes, appVars
  <2>5. ReadInv'
    BY <1>0, <1>1, <2>3, PopKeepsReadInv
  <2>6. DoneInv'
    <3> SUFFICES ASSUME NEW m \in Node, task'[m] \in {"completed", "DONE"}
                 PROVE  sq'[m][call[m].node] = <<>> /\ ~flushed[m][call[m].node]
      BY <1>1, <2>1 DEF DoneInv, appVars
    <3>1. CASE task'[m] = task[m]
      BY <3>1, <1>6
    <3>2. CASE m = n /\ r.op = "READ"
      BY <3>2, <1>3, <1>4, <2>1
    <3> QED BY <3>1, <3>2, <2>3
  <2> QED BY <2>4, <2>5, <2>6, <1>9 DEF IInv, Counted
<1>8. CASE Fail(n, p)
  <2>1. flushed' = [flushed EXCEPT ![n][p] = TRUE] /\ UNCHANGED <<mem, task>>
    BY <1>8 DEF Fail
  <2>2. flushed' \in [Node -> [Node -> BOOLEAN]]
    BY <2>1, <1>0 DEF TypeOK
  <2>3. \A m, q \in Node : m # n \/ q # p => flushed'[m][q] = flushed[m][q]
    BY <2>1, <1>0 DEF TypeOK
  <2>4. TypeOK'
    BY <1>0, <1>1, <1>3, <1>9, <2>1, <2>2 DEF TypeOK, Counted, CountTypes, appVars
  <2>5. ReadInv'
    BY <1>0, <1>1, <2>1, PopKeepsReadInv
  <2>6. DoneInv'
    BY <1>1, <1>5, <1>6, <2>1, <2>3 DEF DoneInv, appVars
  <2> QED BY <2>4, <2>5, <2>6, <1>9 DEF IInv, Counted
<1> QED
  BY <1>7, <1>8 DEF Adapter

\* A main thread posts a write or a read: from "post" to the loop or out of it.
LEMMA PostStep ==
  ASSUME IInv, NEW n \in Node, PostWrite(n) \/ PostRead(n)
  PROVE  IInv'
<1> DEFINE p == call[n].node
<1> DEFINE r == call[n].req
<1>0. TypeOK /\ ReadInv /\ DoneInv
  BY DEF IInv
<1>1. pc[n] = "post" /\ UNCHANGED <<mem, trans_state, flushed>>
  BY DEF PostWrite, PostRead
<1>2. call[n] \in Call /\ p \in Node /\ r \in Request
  BY <1>0, <1>1, CallOfSpinner
<1>3. task[n] = "none"
  BY <1>0, <1>1 DEF TypeOK
<1>4. \/ /\ r.op = "WRITE" /\ UNCHANGED task
         /\ pc' = [pc EXCEPT ![n] = "idle"] /\ call' = [call EXCEPT ![n] = NoCall]
      \/ /\ r.op = "READ" /\ task' = [task EXCEPT ![n] = "READ"]
         /\ pc' = [pc EXCEPT ![n] = "spin"] /\ UNCHANGED call
  BY DEF PostWrite, PostRead, Leave
<1>5. sq' = [sq EXCEPT ![n][p] = Append(@, r)] \/ sq' = sq
  BY DEF PostWrite, PostRead, Posted, Logged
<1>10. Counted'
  <2>1. Posted(n) \/ Logged(n)
    BY DEF PostWrite, PostRead
  <2>2. CASE Posted(n)
    BY <2>2, <1>1, <1>2, CountPost DEF Posted
  <2>3. CASE Logged(n)
    BY <2>3, <1>1, <1>2, CountLogged DEF Logged
  <2> QED BY <2>1, <2>2, <2>3
<1>6. sq' \in [Node -> [Node -> Seq(Request)]]
  <2>1. CASE sq' = sq
    BY <2>1, <1>0 DEF TypeOK
  <2>2. CASE sq' = [sq EXCEPT ![n][p] = Append(@, r)]
    BY <2>2, <1>0, <1>2, Appended
  <2> QED BY <2>1, <2>2, <1>5
<1>7. /\ pc' \in [Node -> {"idle", "check", "post", "spin"}]
      /\ call' \in [Node -> Call \cup {NoCall}]
      /\ task' \in [Node -> {"none", "READ", "completed", "DONE"}]
      /\ \A m \in Node : m # n => pc'[m] = pc[m] /\ call'[m] = call[m] /\ task'[m] = task[m]
      /\ \/ r.op = "WRITE" /\ pc'[n] = "idle" /\ call'[n] = NoCall /\ task'[n] = "none"
         \/ r.op = "READ" /\ pc'[n] = "spin" /\ call'[n] = call[n] /\ task'[n] = "READ"
  <2>1. /\ pc \in [Node -> {"idle", "check", "post", "spin"}]
        /\ call \in [Node -> Call \cup {NoCall}]
        /\ task \in [Node -> {"none", "READ", "completed", "DONE"}]
    BY <1>0 DEF TypeOK
  <2> QED BY <2>1, <1>3, <1>4
<1>8. TypeOK'
  <2>1. \A m \in Node : (call'[m] = NoCall <=> pc'[m] = "idle")
                        /\ (task'[m] = "none" <=> pc'[m] # "spin")
    <3>1. call[n] # NoCall
      BY <1>2, NoCallAssumption
    <3>2. \A m \in Node : (call[m] = NoCall <=> pc[m] = "idle")
                          /\ (task[m] = "none" <=> pc[m] # "spin")
      BY <1>0 DEF TypeOK
    <3>3. (call'[n] = NoCall <=> pc'[n] = "idle") /\ (task'[n] = "none" <=> pc'[n] # "spin")
      BY <3>1, <1>7
    <3> QED BY <3>2, <3>3, <1>7
  <2> QED BY <2>1, <1>0, <1>1, <1>6, <1>7, <1>10 DEF TypeOK, Counted, CountTypes
<1>9. ReadInv' /\ DoneInv'
  <2>1. CASE sq' = sq
    <3>1. /\ UNCHANGED <<sq, flushed>> /\ task[n] # "READ"
          /\ ~(task'[n] \in {"completed", "DONE"})
      BY <2>1, <1>1, <1>3, <1>7
    <3> QED BY <3>1, <1>0, <1>7, QuietStep
  <2>2. CASE sq' = [sq EXCEPT ![n][p] = Append(@, r)]
    <3>1. /\ UNCHANGED flushed /\ task'[n] \in {"none", "READ"}
          /\ r.op = "READ" => pc'[n] = "spin" /\ call'[n].node = p /\ task'[n] = "READ"
      BY <1>1, <1>7
    <3> QED BY <3>1, <2>2, <1>0, <1>2, <1>3, <1>7, PushStep
  <2> QED BY <2>1, <2>2, <1>5
<1> QED
  BY <1>8, <1>9, <1>10 DEF IInv, Counted

\* The steps of the main thread.
LEMMA MainStep ==
  ASSUME IInv, NEW n \in Node, Main(n)
  PROVE  IInv'
<1>0. TypeOK /\ ReadInv /\ DoneInv
  BY DEF IInv
<1>1. CASE CheckState(n) \/ NoTask(n) \/ ReadReturn(n)
  <2>1. UNCHANGED <<mem, trans_state, sq, flushed>> /\ task[n] # "READ"
    BY <1>1, <1>0 DEF CheckState, NoTask, ReadReturn, Logged, TypeOK, nicVars
  <2>5. Counted'
    <3>1. Logged(n) \/ UNCHANGED <<due, logged>>
      BY <1>1 DEF CheckState, NoTask, ReadReturn, nicVars
    <3>2. CASE UNCHANGED <<due, logged>>
      BY <3>2, <2>1, CountKept
    <3>3. CASE Logged(n)
      <4>1. pc[n] # "idle"
        BY <1>1 DEF CheckState, NoTask, ReadReturn
      <4>2. call[n].node \in Node
        BY <4>1, <1>0, CallOfSpinner
      <4> QED BY <4>2, <3>3, <2>1, CountLogged DEF Logged
    <3> QED BY <3>1, <3>2, <3>3
  <2>2. \/ Leave(n) /\ task' = [task EXCEPT ![n] = "none"]
        \/ pc[n] = "check" /\ pc' = [pc EXCEPT ![n] = "post"] /\ UNCHANGED <<call, task>>
    <3>1. pc[n] \in {"check", "post"} => task[n] = "none"
      BY <1>0 DEF TypeOK
    <3>2. task[n] = "none" => task = [task EXCEPT ![n] = "none"]
      BY <1>0 DEF TypeOK
    <3> QED BY <1>1, <3>1, <3>2 DEF CheckState, NoTask, ReadReturn
  <2>3. CASE Leave(n) /\ task' = [task EXCEPT ![n] = "none"]
    BY <2>1, <2>3, <2>5, CallStep DEF Leave
  <2>4. CASE pc[n] = "check" /\ pc' = [pc EXCEPT ![n] = "post"] /\ UNCHANGED <<call, task>>
    <3>1. /\ call[n] \in Call /\ call' = [call EXCEPT ![n] = call[n]]
          /\ task' = [task EXCEPT ![n] = "none"]
      BY <1>0, <2>4 DEF TypeOK
    <3> QED BY <2>1, <2>4, <2>5, <3>1, CallStep, NoCallAssumption
  <2> QED BY <2>2, <2>3, <2>4
<1>2. CASE PostWrite(n) \/ PostRead(n)
  BY <1>2, PostStep
<1> QED
  BY <1>1, <1>2 DEF Main

LEMMA RemoteCallStep ==
  ASSUME IInv, NEW n \in Node, NEW p \in Node, NEW r \in Request, RemoteCall(n, p, r)
  PROVE  IInv'
<1> DEFINE c == [node |-> p, req |-> r]
<1>1. c \in Call
  BY DEF Call
<1>2. task[n] = "none" /\ task = [task EXCEPT ![n] = "none"]
  BY DEF IInv, TypeOK, RemoteCall
<1>3. /\ UNCHANGED <<mem, nicVars>> /\ pc' = [pc EXCEPT ![n] = "check"]
      /\ call' = [call EXCEPT ![n] = c] /\ task' = task
  BY DEF RemoteCall
<1>4. UNCHANGED <<mem, trans_state, sq, flushed>> /\ Counted'
  BY <1>3, CountKept DEF nicVars
<1> HIDE DEF c
<1> QED
  BY <1>1, <1>2, <1>3, <1>4, CallStep, NoCallAssumption

LEMMA ConnectStep ==
  ASSUME IInv, NEW n \in Node, NEW p \in Node, Connect(n, p)
  PROVE  IInv'
<1>1. trans_state' \in [Node -> [Node -> {"CONNECTING", "CONNECTED", "ERROR"}]]
  <2>1. trans_state \in [Node -> [Node -> {"CONNECTING", "CONNECTED", "ERROR"}]]
    BY DEF IInv, TypeOK
  <2> QED BY <2>1 DEF Connect
<1>2. UNCHANGED <<mem, appVars, sq, flushed, task, due, logged>>
  BY DEF Connect
<1> QED
  BY <1>1, <1>2 DEF IInv, TypeOK, ReadInv, DoneInv, CountInv, appVars

LEMMA MarkDoneStep ==
  ASSUME IInv, NEW n \in Node, MarkDone(n)
  PROVE  IInv'
<1>0. TypeOK /\ ReadInv /\ DoneInv
  BY DEF IInv
<1>1. /\ UNCHANGED <<mem, appVars, nicVars>>
      /\ task[n] = "completed" /\ task' = [task EXCEPT ![n] = "DONE"]
  BY DEF MarkDone
<1>2. /\ task' \in [Node -> {"none", "READ", "completed", "DONE"}] /\ task'[n] = "DONE"
      /\ \A m \in Node : m # n => task'[m] = task[m]
  BY <1>0, <1>1 DEF TypeOK
<1>3. TypeOK'
  BY <1>0, <1>1, <1>2 DEF TypeOK, appVars, nicVars
<1>4. ReadInv' /\ DoneInv'
  BY <1>0, <1>1, <1>2, QuietStep DEF appVars, nicVars
<1>5. Counted'
  BY <1>1, CountKept DEF nicVars
<1> QED
  BY <1>3, <1>4, <1>5 DEF IInv, Counted

LEMMA Step == IInv /\ [Next]_vars => IInv'
<1> SUFFICES ASSUME IInv, [Next]_vars PROVE IInv'
  OBVIOUS
<1>1. CASE UNCHANGED vars
  BY <1>1 DEF vars, appVars, nicVars, IInv, TypeOK, ReadInv, DoneInv, CountInv
<1>2. ASSUME NEW n \in Node, Main(n) \/ MarkDone(n) PROVE IInv'
  BY <1>2, MainStep, MarkDoneStep
<1>3. ASSUME NEW n \in Node, NEW a \in Addr, NEW v \in Val, Store(n, a, v) PROVE IInv'
  BY <1>3, StoreStep
<1>4. ASSUME NEW n \in Node, NEW from \in Addr, NEW to \in Addr, LocalCopy(n, from, to)
      PROVE  IInv'
  BY <1>4, LocalCopyStep
<1>5. ASSUME NEW n \in Node, NEW p \in Node, Connect(n, p) \/ Adapter(n, p) PROVE IInv'
  BY <1>5, ConnectStep, AdapterStep
<1>6. ASSUME NEW n \in Node, NEW p \in Node, NEW r \in Request, RemoteCall(n, p, r)
      PROVE  IInv'
  BY <1>6, RemoteCallStep
<1> QED
  BY <1>1, <1>2, <1>3, <1>4, <1>5, <1>6 DEF Next

-----------------------------------------------------------------------------
(* The theorems *)

\* The invariant holds in every state that hmp_read, hmp_write, the epoll
\* threads and the adapters can reach.
THEOREM Inductive == Spec => []IInv
<1>1. Init => IInv
  BY InitInv
<1>2. IInv /\ [Next]_vars => IInv'
  BY Step
<1> QED
  BY <1>1, <1>2, PTL DEF Spec

\* hmp_read and hmp_write keep their variables in their types, and a task
\* exists exactly while the main thread spins on it.
THEOREM TypeCorrect == Spec => []TypeOK
<1>1. IInv => TypeOK
  BY DEF IInv
<1> QED
  BY <1>1, Inductive, PTL

LEMMA BarrierStep ==
  ASSUME IInv, [Next]_vars, NEW n \in Node, pc[n] = "spin", pc'[n] = "idle"
  PROVE  /\ sq[n][call[n].node] = <<>> /\ ~flushed[n][call[n].node]
         /\ due[n][call[n].node] = logged[n][call[n].node]
<1>1. pc' # pc
  OBVIOUS
<1>2. \E m \in Node : \/ CheckState(m) \/ NoTask(m) \/ PostWrite(m) \/ PostRead(m)
                      \/ ReadReturn(m)
                      \/ \E p \in Node, r \in Request : RemoteCall(m, p, r)
  BY <1>1 DEF Next, vars, appVars, Main, MarkDone, Store, LocalCopy, Connect, Adapter,
              Execute, Fail
<1>3. PICK m \in Node : \/ CheckState(m) \/ NoTask(m) \/ PostWrite(m) \/ PostRead(m)
                       \/ ReadReturn(m)
                       \/ \E p \in Node, r \in Request : RemoteCall(m, p, r)
  BY <1>2
<1>4. \E s \in {"idle", "check", "post", "spin"} : pc' = [pc EXCEPT ![m] = s]
  BY <1>3 DEF CheckState, NoTask, PostWrite, PostRead, ReadReturn, RemoteCall, Leave
<1>5. m = n
  BY <1>4 DEF IInv, TypeOK
<1>6. ReadReturn(n)
  BY <1>3, <1>5 DEF CheckState, NoTask, PostWrite, PostRead, RemoteCall
<1>7. sq[n][call[n].node] = <<>> /\ ~flushed[n][call[n].node]
  BY <1>6 DEF ReadReturn, IInv, DoneInv
<1>8. call[n].node \in Node
  BY CallOfSpinner DEF IInv
<1>9. due[n][call[n].node] = logged[n][call[n].node] + Len(sq[n][call[n].node])
  BY <1>7, <1>8 DEF IInv, CountInv
<1>10. Len(<<>>) = 0 /\ logged[n][call[n].node] \in Nat
  BY <1>8 DEF IInv, TypeOK
<1> QED
  BY <1>7, <1>9, <1>10

\* When hmp_read returns from its loop, everything that its caller had asked of
\* that node is in place or was logged as given up.
THEOREM ReadsAreBarriers == Spec => ReadIsBarrier
<1>1. IInv /\ [Next]_vars =>
        [\A n \in Node :
           LET p == call[n].node IN
           pc[n] = "spin" /\ pc'[n] = "idle" =>
             sq[n][p] = <<>> /\ ~flushed[n][p] /\ due[n][p] = logged[n][p]]_vars
  BY BarrierStep
<1> QED
  BY <1>1, Inductive, PTL DEF Spec, ReadIsBarrier

-----------------------------------------------------------------------------
(* The refinement *)

Reading == [n \in Node |-> Await(task[n])]

\* The tasks of the nodes, as the abstract memory sees them.
LEMMA ReadingUpdate ==
  ASSUME IInv, NEW n \in Node, NEW t, task' = [task EXCEPT ![n] = t]
  PROVE  Reading' = [Reading EXCEPT ![n] = Await(t)]
  BY DEF IInv, TypeOK, Reading

LEMMA MemoryInit == Init => Memory!Init
<1> SUFFICES ASSUME Init PROVE Memory!Init
  OBVIOUS
<1>1. \A n \in Node : Await(task[n]) = "no"
  BY DEF Init, Await
<1>2. [n \in Node |-> Await(task[n])] = [n \in Node |-> "no"]
  BY <1>1
<1> QED
  BY <1>2 DEF Init, Memory!Init

\* Storing and local copies.
LEMMA RefinesStore ==
  ASSUME IInv, NEW n \in Node, NEW a \in Addr, NEW v \in Val,
         mem' = [mem EXCEPT ![n][a] = v], UNCHANGED <<appVars, nicVars, task>>
  PROVE  [Memory!Next]_(Memory!vars)
<1>1. [m \in Node |-> Await(task'[m])] = [m \in Node |-> Await(task[m])]
  OBVIOUS
<1>2. Memory!Store(n, a, v)
  BY <1>1 DEF Memory!Store, nicVars
<1> QED
  BY <1>2 DEF Memory!Next

\* Steps that the abstract memory does not see.
LEMMA RefinesStutter ==
  ASSUME UNCHANGED <<mem, sq, flushed, logged>>, \A n \in Node : Await(task'[n]) = Await(task[n])
  PROVE  UNCHANGED Memory!vars
<1>1. [m \in Node |-> Await(task'[m])] = [m \in Node |-> Await(task[m])]
  OBVIOUS
<1> QED
  BY <1>1 DEF Memory!vars

\* What is given up, and whether its caller waits for it, is dropped.
LEMMA RefinesDrop ==
  ASSUME IInv, NEW n \in Node, pc[n] # "idle", Logged(n), UNCHANGED <<mem, flushed>>,
         Reading[n] = "no", NEW w \in {"no", "asked"}, Reading' = [Reading EXCEPT ![n] = w]
  PROVE  [Memory!Next]_(Memory!vars)
<1>1. call[n].node \in Node
  BY CallOfSpinner DEF IInv
<1>2. Memory!Drop(n, call[n].node)
  BY DEF Logged, Memory!Drop, Reading
<1> QED
  BY <1>1, <1>2 DEF Memory!Next

\* Posting a request is asking for it.
LEMMA RefinesPost ==
  ASSUME IInv, NEW n \in Node, PostWrite(n) \/ PostRead(n)
  PROVE  [Memory!Next]_(Memory!vars)
<1> DEFINE p == call[n].node
<1> DEFINE r == call[n].req
<1>0. TypeOK
  BY DEF IInv
<1>1. pc[n] = "post" /\ UNCHANGED <<mem, flushed>>
  BY DEF PostWrite, PostRead
<1>2. p \in Node /\ r \in Request
  BY <1>0, <1>1, CallOfSpinner
<1>3. task[n] = "none"
  BY <1>0, <1>1 DEF TypeOK
<1>4. Reading[n] = "no"
  BY <1>3 DEF Reading, Await
<1>5. Reading' = [Reading EXCEPT ![n] = IF r.op = "READ" THEN "asked" ELSE "no"]
  <2>1. CASE r.op = "WRITE" /\ UNCHANGED task
    BY <2>1, <1>4 DEF Reading
  <2>2. CASE r.op = "READ" /\ task' = [task EXCEPT ![n] = "READ"]
    <3>1. Reading' = [Reading EXCEPT ![n] = Await("READ")]
      BY <2>2, ReadingUpdate
    <3>2. Await("READ") = "asked"
      BY DEF Await
    <3> QED BY <2>2, <3>1, <3>2
  <2> QED BY <2>1, <2>2 DEF PostWrite, PostRead
<1>6. CASE Posted(n)
  <2>1. Memory!Ask(n, p, r)
    BY <1>1, <1>4, <1>5, <1>6 DEF Posted, Memory!Ask, Reading
  <2>2. r \in Memory!Request
    BY <1>2 DEF Request, Memory!Request
  <2> QED BY <2>1, <2>2, <1>2 DEF Memory!Next
<1>7. CASE Logged(n)
  <2>1. \E w \in {"no", "asked"} : Reading' = [Reading EXCEPT ![n] = w]
    BY <1>5
  <2> QED BY <2>1, <1>1, <1>4, <1>7, RefinesDrop
<1> QED
  BY <1>6, <1>7 DEF PostWrite, PostRead

\* The other steps of the main thread: only calls that are given up and the
\* return from a read are seen.
LEMMA RefinesMain ==
  ASSUME IInv, NEW n \in Node, Main(n)
  PROVE  [Memory!Next]_(Memory!vars)
<1>1. CASE CheckState(n) \/ NoTask(n)
  <2>1. /\ pc[n] # "idle" /\ task[n] = "none"
        /\ UNCHANGED <<mem, flushed, task>>
    BY <1>1 DEF CheckState, NoTask, IInv, TypeOK
  <2>2. Logged(n) \/ UNCHANGED <<sq, logged>>
    BY <1>1 DEF CheckState, NoTask
  <2>3. CASE UNCHANGED <<sq, logged>>
    BY <2>1, <2>3, RefinesStutter
  <2>4. CASE Logged(n)
    <3>1. Reading[n] = "no" /\ Reading' = [Reading EXCEPT ![n] = "no"]
      BY <2>1 DEF Reading, Await
    <3> QED BY <3>1, <2>1, <2>4, RefinesDrop
  <2> QED BY <2>2, <2>3, <2>4
<1>2. CASE PostWrite(n) \/ PostRead(n)
  BY <1>2, RefinesPost
<1>3. CASE ReadReturn(n)
  <2>1. Reading[n] = "done" /\ Await("none") = "no"
    BY <1>3 DEF ReadReturn, Reading, Await
  <2>2. Reading' = [Reading EXCEPT ![n] = "no"]
    BY <2>1, <1>3, ReadingUpdate DEF ReadReturn
  <2>3. UNCHANGED <<mem, sq, flushed, logged>>
    BY <1>3 DEF ReadReturn, nicVars
  <2>4. Memory!Return(n)
    BY <2>1, <2>2, <2>3 DEF Memory!Return, Reading
  <2> QED BY <2>4 DEF Memory!Next
<1> QED
  BY <1>1, <1>2, <1>3 DEF Main

\* Executing a request is doing what was asked, failing it is losing it.
LEMMA RefinesAdapter ==
  ASSUME IInv, NEW n \in Node, NEW p \in Node, Adapter(n, p)
  PROVE  [Memory!Next]_(Memory!vars)
<1>1. CASE Execute(n, p)
  <2>1. CASE Head(sq[n][p]).op = "READ"
    <3>1. Reading' = [Reading EXCEPT ![n] = Await("completed")]
      BY <1>1, <2>1, ReadingUpdate DEF Execute
    <3>2. Await("completed") = "done"
      BY DEF Await
    <3>3. Memory!Do(n, p)
      BY <1>1, <2>1, <3>1, <3>2 DEF Execute, Memory!Do, Reading
    <3> QED BY <3>3 DEF Memory!Next
  <2>2. CASE Head(sq[n][p]).op # "READ"
    <3>1. Reading' = Reading
      BY <1>1, <2>2 DEF Execute, Reading
    <3>2. Memory!Do(n, p)
      BY <1>1, <2>2, <3>1 DEF Execute, Memory!Do, Reading
    <3> QED BY <3>2 DEF Memory!Next
  <2> QED BY <2>1, <2>2
<1>2. CASE Fail(n, p)
  <2>1. Reading' = Reading
    BY <1>2 DEF Fail, Reading
  <2>2. Memory!Lose(n, p)
    BY <1>2, <2>1 DEF Fail, Memory!Lose, Reading
  <2> QED BY <2>2 DEF Memory!Next
<1> QED
  BY <1>1, <1>2 DEF Adapter

LEMMA RefinesMarkDone ==
  ASSUME IInv, NEW n \in Node, MarkDone(n)
  PROVE  UNCHANGED Memory!vars
<1>1. \A m \in Node : task'[m] = task[m] \/ (task[m] = "completed" /\ task'[m] = "DONE")
  BY DEF MarkDone, IInv, TypeOK
<1>2. \A m \in Node : Await(task'[m]) = Await(task[m])
  BY <1>1 DEF Await
<1>3. UNCHANGED <<mem, sq, flushed, logged>>
  BY DEF MarkDone, nicVars
<1> QED
  BY <1>2, <1>3, RefinesStutter

LEMMA MemoryStepRefines == IInv /\ [Next]_vars => [Memory!Next]_(Memory!vars)
<1> SUFFICES ASSUME IInv, [Next]_vars PROVE [Memory!Next]_(Memory!vars)
  OBVIOUS
<1>1. CASE UNCHANGED vars
  BY <1>1, RefinesStutter DEF vars, nicVars
<1>2. ASSUME NEW n \in Node, Main(n) \/ MarkDone(n) PROVE [Memory!Next]_(Memory!vars)
  BY <1>2, RefinesMain, RefinesMarkDone
<1>3. ASSUME NEW n \in Node, NEW a \in Addr, NEW v \in Val, Store(n, a, v)
      PROVE  [Memory!Next]_(Memory!vars)
  BY <1>3, RefinesStore DEF Store
<1>4. ASSUME NEW n \in Node, NEW from \in Addr, NEW to \in Addr, LocalCopy(n, from, to)
      PROVE  [Memory!Next]_(Memory!vars)
  <2>1. mem[n][from] \in Val
    BY DEF IInv, TypeOK
  <2> QED BY <2>1, <1>4, RefinesStore DEF LocalCopy
<1>5. ASSUME NEW n \in Node, NEW p \in Node, Adapter(n, p)
      PROVE  [Memory!Next]_(Memory!vars)
  BY <1>5, RefinesAdapter
<1>6. ASSUME NEW n \in Node, NEW p \in Node,
             Connect(n, p) \/ (\E r \in Request : RemoteCall(n, p, r))
      PROVE  [Memory!Next]_(Memory!vars)
  BY <1>6, RefinesStutter DEF Connect, RemoteCall, nicVars
<1> QED
  BY <1>1, <1>2, <1>3, <1>4, <1>5, <1>6 DEF Next

\* What hmp_read and hmp_write do with transports, tasks, send queues and two
\* threads is what the users of the hybrid memory may rely on.
THEOREM DataPathImplementsMemory == Spec => ImplementsMemory
  BY Inductive, MemoryInit, MemoryStepRefines, PTL
     DEF Spec, ImplementsMemory, Memory!Spec
=============================================================================
