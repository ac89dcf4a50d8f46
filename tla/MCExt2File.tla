----------------------------- MODULE MCExt2File ------------------------------
(***************************************************************************)
(* Ext2File for TLC: one direct slot and two pointers per indirect block   *)
(* put block indices 1..2 in the single-indirect tree and 3..6 in the      *)
(* double-indirect one.  The cfgs give the group size and the blocks mkfs  *)
(* has taken.                                                              *)
(***************************************************************************)
EXTENDS Ext2File, TLC

Symmetry == Permutations(Tasks) \cup Permutations(Vals)
=============================================================================
