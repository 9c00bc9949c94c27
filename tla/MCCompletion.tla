------------------------------ MODULE MCCompletion ------------------------------
(***************************************************************************)
(* An instance of HmpCompletion for TLC, with every fault and with more      *)
(* requests than the completion queue has entries.  Requests are             *)
(* interchangeable: they are numbers here and taken in their order.          *)
(***************************************************************************)
EXTENDS HmpCompletion

CONSTANTS
  MaxReqs,  \* bound on the requests of a behaviour
  Posted    \* how many of them are receive requests

AllFaults == FaultKind
SmallReqs == 1 .. MaxReqs

\* The lowest numbers are the receive requests that hmp_pre_post_recv posted.
OrderedInit == Init /\ {r \in Reqs : op[r] = "RECV"} = 1 .. Posted

\* Of the requests that are not used the one with the lowest number is next.
IsNext(r) == stage[r] = "free" /\ \A q \in 1 .. r - 1 : stage[q] # "free"

OrderedNext ==
  \/ \E r \in Reqs : IsNext(r) /\ (PostInit(r) \/ Write(r) \/ Read(r))
  \/ (\E r \in Reqs : Complete(r)) \/ ReadReturn \/ Handler \/ Disconnect

OrderedSpec == OrderedInit /\ [][OrderedNext]_vars /\ Fairness
=============================================================================
