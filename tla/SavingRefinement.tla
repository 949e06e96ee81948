------------------------------ MODULE SavingRefinement ------------------------------
(***************************************************************************)
(* The planner's calls, the executor's operations and the application      *)
(* implement Saving, over failures at any point, late clicks, restarts and *)
(* calls that write the table of workflows from stale copies.              *)
(***************************************************************************)
EXTENDS Workflow

Promise == INSTANCE Saving WITH
    outcome   <- mutation,
    intent    <- op.phase = "press",
    pending   <- app.clicks > 0,
    draft     <- app.drafts > 0,
    performed <- receipts,
    completed <- {r \in Run : runs[r].state = "completed"}

(* No click is dared but by a running request under an uncertain outcome     *)
(* with nothing made or to come, and each click was dared; an outcome is     *)
(* claimed only from an uncertain one and when it is known; no step after    *)
(* the save is performed while the save is uncertain.                        *)
ImplementsSaving == Promise!Spec
=============================================================================
