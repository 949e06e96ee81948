-------------------------------- MODULE MCDesktop --------------------------------
(* Instances of Desktop for TLC. *)
EXTENDS Desktop, TLC

Symmetric == Permutations(Job) \cup Permutations(Op)
=============================================================================
