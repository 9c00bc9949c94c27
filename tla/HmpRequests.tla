------------------------------ MODULE HmpRequests ------------------------------
(***************************************************************************)
(* What a transport promises about its work requests, without queues,       *)
(* events or threads: a request is posted once and performed at most once,  *)
(* by the adapter, and whoever waits for a read goes on only after the read *)
(* was performed successfully and that was noticed.                         *)
(***************************************************************************)
CONSTANTS Reqs, NoReq

VARIABLES
  phase,     \* phase[r]: how far request r has come
  reader     \* the read somebody waits for, or NoReq

vars == <<phase, reader>>

Init ==
  /\ reader = NoReq
  /\ \E R \in SUBSET Reqs : phase = [r \in Reqs |-> IF r \in R THEN "posted" ELSE "unposted"]

Post(r) ==
  /\ phase[r] = "unposted"
  /\ phase' = [phase EXCEPT ![r] = "posted"]
  /\ UNCHANGED reader

PostAndWait(r) ==
  /\ phase[r] = "unposted" /\ reader = NoReq
  /\ phase' = [phase EXCEPT ![r] = "posted"]
  /\ reader' = r

\* The request cannot be posted: who waits for it waits for good.
WaitInVain(r) ==
  /\ phase[r] = "unposted" /\ reader = NoReq
  /\ reader' = r
  /\ UNCHANGED phase

Perform(r, result) ==
  /\ phase[r] = "posted"
  /\ phase' = [phase EXCEPT ![r] = result]
  /\ UNCHANGED reader

Notice(r) ==
  /\ phase[r] = "good"
  /\ phase' = [phase EXCEPT ![r] = "noticed"]
  /\ UNCHANGED reader

Return ==
  /\ reader # NoReq /\ phase[reader] = "noticed"
  /\ reader' = NoReq
  /\ UNCHANGED phase

Next ==
  \/ \E r \in Reqs :
       Post(r) \/ PostAndWait(r) \/ WaitInVain(r) \/ Notice(r)
       \/ Perform(r, "good") \/ Perform(r, "bad")
  \/ Return

Spec == Init /\ [][Next]_vars
=============================================================================
