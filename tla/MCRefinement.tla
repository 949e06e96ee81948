------------------------------- MODULE MCRefinement -------------------------------
(* Instances of DesktopRefinement for TLC. *)
EXTENDS DesktopRefinement, TLC

Symmetric == Permutations(Job) \cup Permutations(Op)
=============================================================================
