------------------------------- MODULE MCQueuePair -------------------------------
(***************************************************************************)
(* An instance of HmpQueuePair for TLC: an active and a passive transport in *)
(* one epoll loop, with every failure.                                       *)
(***************************************************************************)
EXTENDS HmpQueuePair

AllFaults == FaultKind
=============================================================================
