------------------------------ MODULE HmpHandshake ------------------------------
(***************************************************************************)
(* What connection set-up promises to the application: a one-sided access   *)
(* of node n to the memory of node p is granted only after both ends of the *)
(* connection were built, p offered its memory region over it and n learnt  *)
(* that region.  An end, an offer or a grant is an ordered pair <<n, p>>.   *)
(***************************************************************************)
CONSTANT Node

VARIABLES
  built,     \* <<n, p>>: n has built its end of the connection to p
  offered,   \* <<n, p>>: n has sent p the address and rkey of its memory
  known,     \* <<n, p>>: n holds the address and rkey of p's memory
  granted    \* <<n, p>>: n may now post an access to p's memory

vars == <<built, offered, known, granted>>

Init == built = {} /\ offered = {} /\ known = {} /\ granted = {}

Build(n, p) ==
  /\ built' = built \cup {<<n, p>>}
  /\ UNCHANGED <<offered, known, granted>>

Offer(n, p) ==
  /\ <<n, p>> \in built /\ <<p, n>> \in built
  /\ offered' = offered \cup {<<n, p>>}
  /\ UNCHANGED <<built, known, granted>>

Learn(n, p) ==
  /\ <<p, n>> \in offered
  /\ known' = known \cup {<<n, p>>}
  /\ UNCHANGED <<built, offered, granted>>

Grant(n, p) ==
  /\ <<n, p>> \in known
  /\ granted' = granted \cup {<<n, p>>}
  /\ UNCHANGED <<built, offered, known>>

\* The access was posted, or the process is gone.
Spend(n, p) ==
  /\ granted' = granted \ {<<n, p>>}
  /\ UNCHANGED <<built, offered, known>>

Next ==
  \E n, p \in Node :
    \/ Build(n, p) \/ Offer(n, p) \/ Learn(n, p) \/ Grant(n, p) \/ Spend(n, p)

Spec == Init /\ [][Next]_vars
=============================================================================
