------------------------------- MODULE SavingProofs -------------------------------
(* Workflow implements Saving, for every package, any workflows and calls:   *)
(* an operation that comes to its receipt has left the outcome certain, and  *)
(* a click that passed its fence finds nothing made, to come or in doubt     *)
(* but itself.                                                               *)
EXTENDS SavingRefinement, WorkflowProofs

Certain == op.phase = "receipt" /\ op.name # "prepare" => mutation = "confirmed_succeeded"

SInv == WInv /\ Certain

SavingStep == [Promise!Next]_Promise!savingVars

Completed == {r \in Run : runs[r].state = "completed"}
Intent    == op.phase = "press"

-----------------------------------------------------------------------------
(* The invariant *)

LEMMA OpKept ==
    ASSUME WInv, op' = [op EXCEPT !.call = None]
    PROVE  op'.phase = op.phase /\ op'.name = op.name
BY DEF WInv, TypeOK, OpRow

LEMMA NextSInv == SInv /\ [Next]_vars => SInv'
<1> SUFFICES ASSUME SInv, [Next]_vars PROVE SInv' OBVIOUS
<1> USE DEF SInv
<1>0. WInv' BY NextWInv
<1>1. CASE UNCHANGED <<mutation, op>> BY <1>0, <1>1 DEF Certain
<1>2. CASE op' = NoOp BY <1>0, <1>2 DEF Certain, NoOp
<1>3. CASE op' = [op EXCEPT !.call = None] /\ UNCHANGED mutation
  BY <1>0, <1>3, OpKept DEF Certain
<1>4. ASSUME NEW c \in Call,
             RunSkill(c) \/ Register(c) \/ ResumeSkill(c) \/ Charge(c) \/ Open(c)
             \/ UseTool(c) \/ Advance(c) \/ Finished(c) \/ ReadRuns(c) \/ WriteRuns(c)
             \/ Abandon(c) \/ Replay(c) \/ Paused(c) \/ Declines(c) \/ NotFound(c)
      PROVE  UNCHANGED <<mutation, op>>
  BY <1>4 DEF RunSkill, Register, ResumeSkill, Charge, Open, UseTool, Advance, Finished,
     ReadRuns, WriteRuns, Abandon, Replay, Paused, Declines, NotFound, planning, executing
<1>5. ASSUME NEW k \in Queued, k.name # "reconcile", NEW phase \in {"click", "confirm", "receipt"},
             Performs(k, phase), UNCHANGED receipts,
             phase = "receipt" => k.name = "prepare" \/ mutation' = "confirmed_succeeded"
      PROVE  SInv'
  <2>1. op'.phase = phase /\ op'.name = k.name BY <1>5, PerformsOp
  <2> QED BY <1>0, <1>5, <2>1 DEF Certain
<1>6. ASSUME NEW k \in Queued, PerformSave(k) PROVE SInv'
  BY <1>2, <1>5, <1>6 DEF PerformSave, Starts
<1>7. ASSUME NEW k \in Queued, Inspect(k) PROVE SInv'
  BY <1>5, <1>7 DEF Inspect, Starts, Finds
<1>8. ASSUME NEW k \in Queued, Reconcile(k) PROVE SInv'
  BY <1>2, <1>8 DEF Reconcile
<1>9. ASSUME NEW phase \in {"press", "outcome", "confirm", "receipt"},
             op' = [op EXCEPT !.phase = phase], phase = "receipt" => mutation' = "confirmed_succeeded"
      PROVE  SInv'
  <2>1. op'.phase = phase BY <1>9 DEF WInv, TypeOK, OpRow
  <2> QED BY <1>0, <1>9, <2>1 DEF Certain
<1>10. CASE FenceSave \/ ClickSave \/ SeeDraft \/ Confirm
  BY <1>9, <1>10 DEF FenceSave, ClickSave, SeeDraft, Confirm
<1>11. CASE SeeRejection \/ Receipt \/ OperationFails
  BY <1>2, <1>11 DEF SeeRejection, Receipt, OperationFails
<1>12. CASE TimeOut \/ Restart BY <1>2, <1>3, <1>12 DEF TimeOut, Restart
<1>13. ASSUME NEW s, Finish(s) PROVE SInv' BY <1>3, <1>13 DEF Finish
<1>14. CASE (\E c \in Call : GiveUp(c)) \/ Cancel \/ Conclude
  BY <1>13, <1>14 DEF GiveUp, Cancel, Conclude
<1>15. CASE Turn \/ Commit \/ RejectSave \/ CheckCompletion \/ UNCHANGED vars
  BY <1>1, <1>15 DEF Turn, Commit, RejectSave, CheckCompletion, planning, executing, vars
<1> QED
  BY <1>1, <1>4, <1>6, <1>7, <1>8, <1>10, <1>11, <1>12, <1>14, <1>15 DEF Next

\* An operation reaches its receipt only with the save confirmed, unless it came before the save.
THEOREM OutcomesAreCertain == Spec => []SInv
<1>1. Init => SInv
  BY InitWInv DEF Init, SInv, Certain, NoOp
<1> QED BY <1>1, NextSInv, PTL DEF Spec

-----------------------------------------------------------------------------
(* Workflow implements Saving *)

\* What does not show.
LEMMA SavingStutters ==
    ASSUME UNCHANGED <<status, mutation, runs, receipts, app>>, Intent' <=> Intent
    PROVE  SavingStep
<1>1. (op'.phase = "press") = (op.phase = "press") BY DEF Intent
<1> QED BY <1>1 DEF SavingStep, Promise!savingVars

LEMMA SavingAttempts ==
    ASSUME status = "running", mutation' = "attempted_uncertain", Intent' <=> Intent,
           UNCHANGED <<status, runs, receipts, app>>
    PROVE  SavingStep
<1>1. (op'.phase = "press") = (op.phase = "press") BY DEF Intent
<1>2. Promise!Attempt BY <1>1 DEF Promise!Attempt
<1> QED BY <1>2 DEF SavingStep, Promise!Next

\* What the server accepts as the table of workflows counts none as completed that is not.
LEMMA SavingCounts ==
    ASSUME WInv, WInv', status = "running", UNCHANGED planning
    PROVE  SavingStep
<1> USE DEF planning, request, executing
<1>1. Completed' \subseteq {r \in Run : \A i \in DOMAIN Steps : <<r, i>> \in receipts}
  BY WorkflowAssumption DEF WInv, RunsOK, Done, Completed
<1>2. Promise!Count BY <1>1 DEF Promise!Count, Completed
<1> QED BY <1>2 DEF SavingStep, Promise!Next

\* The draft is there when success is claimed, and neither it nor a click when a failure is.
LEMMA SavingClaims ==
    ASSUME WInv, status = "running", UNCHANGED <<status, runs, receipts, app>>, ~Intent, ~Intent',
           \/ mutation' = "confirmed_succeeded" /\ app.drafts > 0
           \/ /\ mutation' = "confirmed_failed" /\ mutation = "attempted_uncertain"
              /\ app.clicks = 0 /\ ~(app.drafts > 0)
    PROVE  SavingStep
<1>1. app.drafts \in Nat /\ app.clicks \in Nat BY DEF WInv, TypeOK
<1>2. CASE mutation' = mutation BY <1>2, SavingStutters
<1>3. CASE mutation = "attempted_uncertain"
  <2>1. Promise!Claim BY <1>1, <1>3 DEF Promise!Claim, Intent
  <2> QED BY <2>1 DEF SavingStep, Promise!Next
<1>4. mutation' # mutation => mutation = "attempted_uncertain"
  BY <1>1 DEF WInv, TypeOK, SaveOK, OutcomesAreTrue
<1> QED BY <1>2, <1>3, <1>4

LEMMA OpPhase ==
    ASSUME WInv, NEW phase, op' = [op EXCEPT !.phase = phase]
    PROVE  op'.phase = phase
BY DEF WInv, TypeOK, OpRow

LEMMA FenceImplements == ASSUME SInv, FenceSave PROVE SavingStep
<1>1. mutation = "attempted_uncertain" /\ app.drafts = 0 /\ app.clicks = 0
  BY DEF SInv, WInv, SaveOK, FenceSave
<1>2. ~Intent /\ Intent' BY OpPhase DEF FenceSave, SInv, Intent
<1>3. Promise!Dare
  BY <1>1, <1>2 DEF Promise!Dare, FenceSave, Intent, request, workflows
<1> QED BY <1>3 DEF SavingStep, Promise!Next

LEMMA ClickImplements == ASSUME SInv, ClickSave PROVE SavingStep
<1>1. app.drafts = 0 /\ app.clicks = 0 BY DEF SInv, WInv, SaveOK, ClickSave
<1>2. app'.clicks = 1 /\ app'.drafts = 0
  BY <1>1 DEF ClickSave, SInv, WInv, TypeOK
<1>3. Intent /\ ~Intent' BY OpPhase DEF ClickSave, SInv, Intent
<1>4. Promise!Save
  BY <1>1, <1>2, <1>3 DEF Promise!Save, ClickSave, Intent, request, workflows
<1> QED BY <1>4 DEF SavingStep, Promise!Next

\* An operation that ends, or is left alone, before the click.
LEMMA EndsImplement ==
    ASSUME SInv, op' = NoOp \/ op' = [op EXCEPT !.call = None],
           UNCHANGED <<status, mutation, runs, receipts, app>>
    PROVE  SavingStep
<1>1. CASE Intent' = Intent BY <1>1, SavingStutters
<1>2. CASE Intent' # Intent
  <2>1. Intent /\ ~Intent' BY <1>2, OpKept DEF Intent, NoOp, SInv
  <2>2. Promise!Withdraw BY <2>1 DEF Promise!Withdraw, Intent
  <2> QED BY <2>2 DEF SavingStep, Promise!Next
<1> QED BY <1>1, <1>2

LEMMA AnswerImplements == ASSUME SInv, Commit \/ RejectSave PROVE SavingStep
<1> USE DEF request, executing, workflows
<1>1. app.clicks = 1 /\ app.drafts = 0
  BY DEF Commit, RejectSave, SInv, WInv, TypeOK, SaveOK, SavedOnce
<1>2. app'.clicks = 0 /\ UNCHANGED <<status, mutation, runs, receipts, op>>
  <2>1. CASE Commit BY <1>1, <2>1 DEF Commit
  <2>2. CASE RejectSave
    <3>1. app' = [app EXCEPT !.clicks = 0, !.rejected = TRUE] BY <1>1, <2>2 DEF RejectSave
    <3>2. app'.clicks = 0 /\ app'.drafts = 0 BY <1>1, <3>1 DEF SInv, WInv, TypeOK
    <3> QED BY <2>2, <3>2 DEF RejectSave
  <2> QED BY <2>1, <2>2
<1>3. Promise!Answer BY <1>1, <1>2 DEF Promise!Answer
<1> QED BY <1>3 DEF SavingStep, Promise!Next

LEMMA ReceiptImplements == ASSUME SInv, Receipt PROVE SavingStep
<1> USE DEF request, workflows
<1>0. ~Intent /\ ~Intent' BY DEF Receipt, Intent, NoOp
<1>1. CASE op.run = None BY <1>0, <1>1, SavingStutters DEF Receipt
<1>2. CASE op.run # None
  <2>1. /\ op.run \in Run /\ op.index \in 1..Len(Steps) /\ op.name = Steps[op.index]
        /\ \A k \in 1..Len(Steps) : k < op.index => <<op.run, k>> \in receipts
    BY <1>2 DEF SInv, WInv, TypeOK, OpRow, OpOK, Follows
  <2>2. op.index \in DOMAIN Steps /\ \A k \in 1..(op.index - 1) : <<op.run, k>> \in receipts
    BY <2>1, StepsLen, WorkflowAssumption
  <2>3. Steps[op.index] # "prepare" => app.drafts > 0 /\ mutation = "confirmed_succeeded"
    BY <2>1 DEF Receipt, SInv, Certain, WInv, SaveOK, OutcomesAreTrue
  <2>4. Promise!Perform(op.run, op.index)
    BY <1>0, <1>2, <2>2, <2>3 DEF Promise!Perform, Receipt, Intent
  <2> QED BY <2>1, <2>2, <2>4 DEF SavingStep, Promise!Next
<1> QED BY <1>1, <1>2

LEMMA FinishImplements ==
    ASSUME SInv, status = "running", NEW s \in {"completed", "ended"}, Finish(s)
    PROVE  SavingStep
<1>1. Intent' = Intent BY OpKept DEF Finish, Intent, SInv
<1>2. Promise!End BY <1>1 DEF Promise!End, Finish, Intent, workflows
<1> QED BY <1>2 DEF SavingStep, Promise!Next

LEMMA CallsImplement ==
    ASSUME SInv, SInv', NEW c \in Call,
           RunSkill(c) \/ Register(c) \/ ResumeSkill(c) \/ Charge(c) \/ Open(c)
           \/ UseTool(c) \/ Advance(c) \/ Finished(c) \/ ReadRuns(c) \/ WriteRuns(c) \/ GiveUp(c)
           \/ Abandon(c) \/ Replay(c) \/ Paused(c) \/ Declines(c) \/ NotFound(c)
    PROVE  SavingStep
<1>1. CASE Register(c) \/ Charge(c) \/ WriteRuns(c)
  BY <1>1, SavingCounts DEF SInv, Register, Charge, WriteRuns, At
<1>2. CASE GiveUp(c) BY <1>2, FinishImplements DEF GiveUp, At
<1>3. CASE UNCHANGED <<status, mutation, runs, receipts, op, app>>
  BY <1>3, SavingStutters DEF Intent
<1>4. CASE \/ RunSkill(c) \/ ResumeSkill(c) \/ Open(c) \/ UseTool(c) \/ Advance(c) \/ Finished(c)
           \/ ReadRuns(c) \/ Abandon(c) \/ Replay(c) \/ Paused(c) \/ Declines(c) \/ NotFound(c)
  BY <1>3, <1>4 DEF RunSkill, ResumeSkill, Open, UseTool, Advance, Finished, ReadRuns, Abandon,
     Replay, Paused, Declines, NotFound, planning, request, executing, workflows
<1> QED BY <1>1, <1>2, <1>4

LEMMA CommandsImplement ==
    ASSUME SInv, NEW k \in Queued, Reconcile(k) \/ PerformSave(k) \/ Inspect(k)
    PROVE  SavingStep
<1> USE DEF request, workflows
<1>0. status = "running" BY QueuedFacts DEF SInv
<1>1. CASE Reconcile(k)
  <2>1. ~Intent /\ ~Intent' BY <1>1 DEF Reconcile, Intent, NoOp
  <2>2. CASE Saved /\ mutation' = "confirmed_succeeded"
    BY <1>0, <1>1, <2>1, <2>2, SavingClaims DEF Reconcile, Saved, SInv
  <2>3. CASE UNCHANGED mutation BY <1>1, <2>1, <2>3, SavingStutters DEF Reconcile
  <2> QED BY <1>1, <2>2, <2>3 DEF Reconcile
<1>2. CASE PerformSave(k)
  <2>1. ~Intent /\ ~Intent' BY <1>2 DEF PerformSave, Starts, Performs, Intent, NoOp
  <2>2. CASE mutation' = "attempted_uncertain"
    BY <1>0, <1>2, <2>1, <2>2, SavingAttempts DEF PerformSave
  <2>3. CASE mutation' = mutation BY <1>2, <2>1, <2>3, SavingStutters DEF PerformSave
  <2> QED BY <1>2, <2>2, <2>3 DEF PerformSave
<1>3. CASE Inspect(k)
  <2>1. ~Intent /\ ~Intent' BY <1>3 DEF Inspect, Starts, Performs, Intent, NoOp
  <2> QED BY <1>3, <2>1, SavingStutters DEF Inspect
<1> QED BY <1>1, <1>2, <1>3

LEMMA StepsImplement == ASSUME SInv, SInv', [Next]_vars PROVE SavingStep
<1>1. CASE Turn \/ CheckCompletion \/ UNCHANGED vars
  BY <1>1, SavingStutters DEF Turn, CheckCompletion, planning, request, executing, workflows, vars, Intent
<1>2. CASE OperationFails \/ TimeOut \/ Restart
  BY <1>2, EndsImplement DEF OperationFails, TimeOut, Restart, request, workflows
<1>3. CASE SeeDraft
  <2>1. ~Intent /\ ~Intent' BY <1>3, OpPhase DEF SeeDraft, Intent, SInv
  <2> QED BY <1>3, <2>1, SavingStutters DEF SeeDraft, request, workflows
<1>4. CASE Confirm
  <2>1. app.drafts > 0 BY <1>4 DEF Confirm, SInv, WInv, SaveOK
  <2>2. ~Intent /\ ~Intent' BY <1>4, OpPhase DEF Confirm, Intent, SInv
  <2> QED BY <1>4, <2>1, <2>2, SavingClaims DEF Confirm, SInv, request, workflows
<1>5. CASE SeeRejection
  <2>1. mutation = "attempted_uncertain" BY <1>5 DEF SeeRejection, SInv, WInv, SaveOK
  <2>2. ~Intent /\ ~Intent' BY <1>5 DEF SeeRejection, Intent, NoOp
  <2> QED BY <1>5, <2>1, <2>2, SavingClaims DEF SeeRejection, Saved, SInv, request, workflows
<1>6. CASE Cancel \/ Conclude BY <1>6, FinishImplements DEF Cancel, Conclude
<1> QED
  BY <1>1, <1>2, <1>3, <1>4, <1>5, <1>6, CallsImplement, CommandsImplement, FenceImplements,
     ClickImplements, AnswerImplements, ReceiptImplements
  DEF Next

(* Whatever fails, is resumed, repeated, orphaned or late, the workflows of  *)
(* a request implement Saving: one save, marked and fenced before it is      *)
(* made and claimed when it is known, and the steps that rest on it after    *)
(* it is confirmed.                                                          *)
THEOREM WorkflowImplementsSaving == Spec => ImplementsSaving
<1>1. Init => Promise!Init
  BY DEF Init, NoRun, NoOp, Promise!Init
<1>2. SInv /\ SInv' /\ [Next]_vars => SavingStep BY StepsImplement
<1> QED
  BY <1>1, <1>2, OutcomesAreCertain, PTL
  DEF Spec, ImplementsSaving, Promise!Spec, SavingStep
=============================================================================
