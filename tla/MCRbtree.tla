-------------------------------- MODULE MCRbtree --------------------------------
(***************************************************************************)
(* An instance of HmpRbtree for TLC: with eight keys, trees are deep enough  *)
(* for every case of the fix-up loops to be reached more than once per call. *)
(***************************************************************************)
EXTENDS HmpRbtree
=============================================================================
