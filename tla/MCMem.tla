--------------------------------- MODULE MCMem ---------------------------------
(***************************************************************************)
(* Instances of HmpMem for TLC: three nodes, and threads whose blocks fit in  *)
(* the pool and others that do not.                                         *)
(***************************************************************************)
EXTENDS HmpMem, TLC

ThreadSymmetry == Permutations(Thread)
=============================================================================
