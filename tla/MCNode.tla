--------------------------------- MODULE MCNode ---------------------------------
(***************************************************************************)
(* An instance of HmpNode for TLC: four configured nodes and three keys, so   *)
(* that keys are smaller, equal and larger in every order, and up to three   *)
(* devices of every kind, with every failure.                               *)
(***************************************************************************)
EXTENDS HmpNode

SmallKeys == 0 .. 2
AllFaults == {"rdma_get_devices", "calloc", "ibv_alloc_pd"}
=============================================================================
