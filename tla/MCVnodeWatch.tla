---------------------------- MODULE MCVnodeWatch ----------------------------
(* Instances of VnodeWatch for TLC.                                         *)
EXTENDS VnodeWatch, TLC

Symmetry == Permutations(Clients) \cup Permutations(Threads)
=============================================================================
