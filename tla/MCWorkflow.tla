---------------------------------- MODULE MCWorkflow ----------------------------------
(* Workflow on a package that ends in a save; its calls are interchangeable. *)
EXTENDS SavingRefinement, TLC

CorrectionSteps == <<"prepare", "save", "verify", "complete">>
Symmetric == Permutations(Call) \cup Permutations(Run)
=============================================================================
