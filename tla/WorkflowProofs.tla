-------------------------------- MODULE WorkflowProofs --------------------------------
(* Theorems about Workflow, for every package, any number of workflows and calls. *)
EXTENDS Workflow, TLAPS

Done(r)    == \A i \in 1..Len(Steps) : <<r, i>> \in receipts
UpTo(r, n) == \A i \in 1..n : <<r, i>> \in receipts

\* What a call knows of its workflow is backed by receipts.
RowOK(row) ==
    /\ row.tool = "save_draft" <=> row.run = None
    /\ row.step \in {"register", "charge", "reconcile", "open", "advance", "read", "write"}
          => row.run # None
    /\ row.step = "charge" => row.seen[row.run].recoveries < MaxRecoveries
    /\ row.step = "advance" => row.done < Len(Steps) /\ <<row.run, row.done + 1>> \in receipts
    /\ row.run # None => UpTo(row.run, row.done) /\ (row.row.state = "completed" => Done(row.run))
    /\ \A r \in Run : row.seen[r].state = "completed" => Done(r)

CallsOK == \A c \in Call : RowOK(calls[c])

RunsOK ==
    \A r \in Run : /\ UpTo(r, checkpoint[r].done)
                   /\ runs[r].state = "completed" => Done(r)

\* A command or an operation of a workflow is the one after those that have receipts.
Follows(k) ==
    k.run # None => /\ k.index \in 1..Len(Steps) /\ k.name = Steps[k.index]
                    /\ \A i \in 1..Len(Steps) : i < k.index => <<k.run, i>> \in receipts

\* A call waits for its operation.
OpOK ==
    /\ op.phase = "none" => op = NoOp
    /\ op.call # None => /\ calls[op.call].step = "await"
                         /\ calls[op.call].run = op.run
                         /\ calls[op.call].done + 1 = op.index
    /\ Follows(op)

OrphanSet == {k \in CommandRow : /\ k.call = None /\ (k.run = None => k.name = "save_draft")
                                 /\ (k.name # "reconcile" => Follows(k))}

Chain ==
    \A r \in Run : \A i \in 2..Len(Steps) : <<r, i>> \in receipts => <<r, i - 1>> \in receipts

SaveOK ==
    /\ SavedOnce
    /\ OutcomesAreTrue
    /\ op.phase \in {"click", "press"} => /\ app.drafts = 0 /\ app.clicks = 0
                                         /\ mutation = "attempted_uncertain"
    /\ op.phase = "outcome" => mutation = "attempted_uncertain"
    /\ op.phase = "confirm" => app.drafts = 1
    /\ op.phase = "receipt" /\ op.name = "save" => app.drafts = 1
    /\ \A r \in Run : \A i \in 1..Len(Steps) :
          <<r, i>> \in receipts /\ Steps[i] = "save" => app.drafts = 1

WInv == TypeOK /\ CallsOK /\ RunsOK /\ OpOK /\ orphans \subseteq OrphanSet /\ Chain /\ SaveOK

-----------------------------------------------------------------------------
LEMMA StepsLen == Len(Steps) \in Nat
BY WorkflowAssumption

LEMMA NoCallOK == NoCall \in CallRow /\ RowOK(NoCall)
<1>1. NoRun \in RunRow BY WorkflowAssumption DEF NoRun, RunRow
<1>2. NoCall \in CallRow BY <1>1, StepsLen DEF NoCall, CallRow, Table
<1>3. RowOK(NoCall) BY DEF NoCall, RowOK, NoRun
<1> QED BY <1>2, <1>3

LEMMA InitWInv == Init => WInv
<1> SUFFICES ASSUME Init PROVE WInv OBVIOUS
<1> USE DEF Init
<1>1. NoRun \in RunRow BY WorkflowAssumption DEF NoRun, RunRow
<1>2. NoOp \in OpRow BY DEF NoOp, OpRow
<1>3. TypeOK
  <2>1. [done |-> 0, missing |-> FALSE] \in [done: 0..Len(Steps), missing: BOOLEAN] BY StepsLen
  <2>2. checkpoint \in [Run -> [done: 0..Len(Steps), missing: BOOLEAN]] BY <2>1
  <2>3. concluding \in BOOLEAN OBVIOUS
  <2> QED BY <1>1, <1>2, <2>2, <2>3, NoCallOK DEF TypeOK, Table
<1>4. CallsOK BY NoCallOK DEF CallsOK
<1>5. RunsOK
  <2>1. \A r \in Run : checkpoint[r].done = 0 /\ runs[r].state = "absent" BY DEF NoRun
  <2>2. \A r \in Run : UpTo(r, checkpoint[r].done) BY <2>1 DEF UpTo
  <2> QED BY <2>1, <2>2 DEF RunsOK
<1>6. OpOK BY DEF OpOK, NoOp, Follows
<1>7. Chain BY DEF Chain
<1>8. SaveOK BY DEF SaveOK, SavedOnce, OutcomesAreTrue, NoOp
<1> QED BY <1>3, <1>4, <1>5, <1>6, <1>7, <1>8 DEF WInv

Checkpoints == [Run -> [done: 0..Len(Steps), missing: BOOLEAN]]

LEMMA CallFacts ==
    ASSUME WInv, NEW c \in Call
    PROVE  /\ calls[c] \in CallRow /\ RowOK(calls[c])
           /\ runs \in Table /\ \A r \in Run : runs[r].state = "completed" => Done(r)
           /\ checkpoint \in Checkpoints /\ \A r \in Run : UpTo(r, checkpoint[r].done)
           /\ orphans \subseteq OrphanSet
BY DEF WInv, TypeOK, CallsOK, RunsOK, Checkpoints

\* Receipts that stay keep what follows them.
LEMMA OrphansKept ==
    ASSUME orphans' \subseteq OrphanSet, UNCHANGED receipts
    PROVE  orphans' \subseteq OrphanSet' /\ orphans' \subseteq CommandRow
<1>1. OrphanSet' = OrphanSet BY DEF OrphanSet, Follows
<1> QED BY <1>1 DEF OrphanSet

\* A step of one call which nothing waits for changes its row, and perhaps the tables of workflows.
LEMMA CallStep ==
    ASSUME WInv, NEW c \in Call, NEW row \in CallRow, RowOK(row),
           Becomes(c, row), calls[c].step # "await",
           runs' \in Table, \A r \in Run : runs'[r].state = "completed" => Done(r),
           checkpoint' \in Checkpoints, \A r \in Run : UpTo(r, checkpoint'[r].done),
           orphans' \subseteq OrphanSet,
           UNCHANGED <<request, mutation, receipts, op, app>>
    PROVE  WInv'
<1> USE DEF WInv, request
<1>0. orphans' \subseteq OrphanSet' /\ orphans' \subseteq CommandRow BY OrphansKept
<1>1. TypeOK' BY <1>0 DEF TypeOK, Becomes, Checkpoints
<1>2. CallsOK' BY DEF CallsOK, RowOK, UpTo, Done, TypeOK, Becomes
<1>3. RunsOK' BY DEF RunsOK, UpTo, Done
<1>4. op.call # c BY WorkflowAssumption DEF OpOK
<1>5. OpOK' BY <1>4 DEF OpOK, TypeOK, Becomes, Follows
<1>6. Chain' BY DEF Chain
<1>7. SaveOK' BY DEF SaveOK, SavedOnce, OutcomesAreTrue
<1> QED BY <1>0, <1>1, <1>2, <1>3, <1>5, <1>6, <1>7

\* What is left to prove of a step that leaves the workflows as they are.
LEMMA Frame ==
    ASSUME WInv, status' \in {"running", "completed", "ended"}, concluding' \in BOOLEAN,
           mutation' \in {"not_attempted", "attempted_uncertain", "confirmed_succeeded",
                          "confirmed_failed"},
           app' \in [clicks: Nat, drafts: Nat, rejected: BOOLEAN], op' \in OpRow,
           calls' \in [Call -> CallRow], \A c \in Call : RowOK(calls'[c]),
           orphans' \subseteq OrphanSet,
           OpOK', SaveOK', UNCHANGED <<workflows, receipts>>
    PROVE  WInv'
<1> USE DEF WInv, workflows
<1>0. orphans' \subseteq OrphanSet' /\ orphans' \subseteq CommandRow BY OrphansKept
<1>1. TypeOK' BY <1>0 DEF TypeOK
<1>2. CallsOK' BY DEF CallsOK, RowOK, UpTo, Done
<1>3. RunsOK' /\ Chain' BY DEF RunsOK, UpTo, Done, Chain
<1> QED BY <1>0, <1>1, <1>2, <1>3

\* Calls come and go while no operation has one.
LEMMA IdleStep ==
    ASSUME WInv, calls' \in [Call -> CallRow], \A c \in Call : RowOK(calls'[c]),
           op' \in {op, [op EXCEPT !.call = None]}, op'.call = None,
           status' \in {"running", "completed", "ended"}, concluding' \in BOOLEAN,
           orphans' \subseteq OrphanSet, UNCHANGED <<workflows, mutation, receipts, app>>
    PROVE  WInv'
<1> USE DEF WInv
<1>0. op' \in OpRow /\ (op.phase = "none" => op' = NoOp) /\ op'.phase = op.phase
      /\ op'.run = op.run /\ op'.index = op.index /\ op'.name = op.name
  BY DEF TypeOK, OpRow, OpOK, NoOp
<1>1. OpOK' BY <1>0 DEF OpOK, Follows
<1>2. SaveOK' BY <1>0 DEF SaveOK, SavedOnce, OutcomesAreTrue
<1> QED BY <1>0, <1>1, <1>2, Frame DEF TypeOK

\* A call that forgets what it has read is backed by nothing, and needs nothing.
LEMMA AnewOK ==
    ASSUME WInv, NEW c \in Call, NEW s \in {"begin", "refused", "perform", "open", "reconcile"},
           s \in {"open", "reconcile"} => calls[c].run # None
    PROVE  /\ Anew(c, s) \in CallRow /\ RowOK(Anew(c, s))
           /\ Anew(c, s).run = calls[c].run /\ Anew(c, s).step = s
<1> DEFINE row == Anew(c, s)
<1>1. /\ row.step = s /\ row.tool = calls[c].tool /\ row.run = calls[c].run
      /\ row.done = 0 /\ row.seen = NoCall.seen /\ row.row = NoRun
  BY DEF Anew, NoCall
<1>2. row \in CallRow BY NoCallOK, CallFacts DEF Anew, CallRow, NoCall
<1> HIDE DEF row
<1>3. row.tool = "save_draft" <=> row.run = None BY <1>1, CallFacts DEF RowOK
<1>4. UpTo(row.run, row.done) BY <1>1 DEF UpTo
<1>5. \A r \in Run : row.seen[r].state # "completed"
  <2>1. row.seen = [r \in Run |-> NoRun] BY <1>1 DEF NoCall
  <2>2. \A r \in Run : row.seen[r] = NoRun BY <2>1
  <2>3. NoRun.state = "absent" BY DEF NoRun
  <2> QED BY <2>2, <2>3
<1>6. RowOK(row) BY <1>1, <1>3, <1>4, <1>5 DEF RowOK, NoRun
<1> QED BY <1>1, <1>2, <1>6 DEF row

LEMMA StoreStep ==
    ASSUME WInv, NEW c \in Call, NEW t, NEW row \in CallRow, RowOK(row), calls[c].step # "await",
           t \in Table, \A r \in Run : t[r].state = "completed" => Done(r),
           Store(c, t, Becomes(c, row)),
           UNCHANGED planning
    PROVE  WInv'
<1> USE DEF planning, executing
<1>1. CASE Known(runs) \subseteq Known(t)
  <2>1. runs' = t /\ Becomes(c, row) BY <1>1 DEF Store
  <2> QED BY <2>1, CallStep, CallFacts
<1>2. CASE ~(Known(runs) \subseteq Known(t))
  <2>1. runs' = runs /\ Becomes(c, Anew(c, "refused")) BY <1>2 DEF Store, Resets
  <2> QED BY <2>1, AnewOK, CallStep, CallFacts
<1> QED BY <1>1, <1>2

LEMMA RunSkillStep ==
    ASSUME WInv, NEW c \in Call, RunSkill(c) PROVE WInv'
<1> USE DEF RunSkill, At, planning, executing
<1>1. calls[c].run \in Run /\ calls[c].run # None BY CallFacts DEF RowOK, CallRow
<1>2. ASSUME NEW s \in {"open", "refused"}, Resets(c, s) PROVE WInv'
  BY <1>1, <1>2, AnewOK, CallStep, CallFacts DEF Resets
<1> DEFINE row == [calls[c] EXCEPT !.seen = runs, !.row.state = "running", !.step = "register"]
<1>3. CASE Becomes(c, row)
  <2>1. [calls[c].row EXCEPT !.state = "running"] \in RunRow BY CallFacts DEF CallRow, RunRow
  <2>2. row \in CallRow BY <2>1, CallFacts DEF CallRow
  <2>3. RowOK(row) BY <1>1, CallFacts DEF RowOK, CallRow, RunRow
  <2> QED BY <1>3, <2>2, <2>3, CallStep, CallFacts
<1> QED BY <1>2, <1>3

LEMMA RegisterStep ==
    ASSUME WInv, NEW c \in Call, Register(c) PROVE WInv'
<1> USE DEF Register, At
<1> DEFINE row == [Anew(c, "perform") EXCEPT !.row = calls[c].row]
<1>1. Anew(c, "perform") \in CallRow /\ RowOK(Anew(c, "perform")) /\ Anew(c, "perform").run = calls[c].run
  BY AnewOK
<1>2. row \in CallRow BY <1>1, CallFacts DEF CallRow
<1>3. RowOK(row) BY <1>1, CallFacts DEF RowOK, CallRow
<1>4. Mine(c) \in Table BY CallFacts DEF Mine, CallRow, Table
<1>5. \A r \in Run : Mine(c)[r].state = "completed" => Done(r)
  BY CallFacts DEF Mine, CallRow, Table, RowOK
<1> HIDE DEF row
<1>6. Store(c, Mine(c), Becomes(c, row)) BY DEF row
<1> QED BY <1>2, <1>3, <1>4, <1>5, <1>6, StoreStep

LEMMA ResumeSkillStep ==
    ASSUME WInv, NEW c \in Call, ResumeSkill(c) PROVE WInv'
<1> USE DEF ResumeSkill, At, planning, executing
<1> DEFINE mine == runs[calls[c].run]
           row == [calls[c] EXCEPT !.step = "charge", !.seen = runs,
                                   !.uncertain = mutation = "attempted_uncertain"]
<1>1. calls[c].run \in Run /\ calls[c].run # None BY CallFacts DEF RowOK, CallRow
<1>2. ASSUME NEW s \in {"open", "refused"}, Resets(c, s) PROVE WInv'
  BY <1>1, <1>2, AnewOK, CallStep, CallFacts DEF Resets
<1>3. CASE mine.recoveries < MaxRecoveries /\ Becomes(c, row)
  <2>1. row \in CallRow BY CallFacts DEF CallRow
  <2>2. RowOK(row) BY <1>1, <1>3, CallFacts DEF RowOK, CallRow
  <2> QED BY <1>3, <2>1, <2>2, CallStep, CallFacts
<1>4. ~(mine.recoveries >= MaxRecoveries) => mine.recoveries < MaxRecoveries
  BY <1>1, CallFacts, WorkflowAssumption DEF Table, RunRow
<1> QED BY <1>2, <1>3, <1>4 DEF Reads

LEMMA ChargeStep ==
    ASSUME WInv, NEW c \in Call, Charge(c) PROVE WInv'
<1> USE DEF Charge, At
<1> DEFINE r == calls[c].run
           t == [calls[c].seen EXCEPT ![r].recoveries = @ + 1]
           row == Anew(c, IF calls[c].uncertain THEN "reconcile" ELSE "open")
<1>1. r \in Run /\ r # None /\ calls[c].seen \in Table /\ calls[c].seen[r].recoveries < MaxRecoveries
  BY CallFacts DEF RowOK, CallRow
<1>2. row \in CallRow /\ RowOK(row) BY <1>1, AnewOK
<1>3. t \in Table
  <2>1. calls[c].seen[r] \in RunRow BY <1>1 DEF Table
  <2>2. [calls[c].seen[r] EXCEPT !.recoveries = @ + 1] \in RunRow
    BY <1>1, <2>1, WorkflowAssumption DEF RunRow
  <2> QED BY <1>1, <2>2 DEF Table
<1>4. \A x \in Run : t[x].state = "completed" => Done(x)
  <2>1. \A x \in Run : t[x].state = calls[c].seen[x].state BY <1>1 DEF Table, RunRow
  <2> QED BY <2>1, CallFacts DEF RowOK
<1>5. Store(c, t, Becomes(c, row)) BY DEF Resets
<1> QED BY <1>2, <1>3, <1>4, <1>5, StoreStep

\* The request ends, and its calls with it.
LEMMA FinishStep == ASSUME WInv, NEW s \in {"completed", "ended"}, Finish(s) PROVE WInv'
<1> USE DEF Finish
<1>1. calls' \in [Call -> CallRow] /\ \A c \in Call : RowOK(calls'[c]) BY NoCallOK
<1>2. op'.call = None BY DEF WInv, TypeOK, OpRow
<1> QED BY <1>1, <1>2, IdleStep

\* The model's turn replaces calls that are idle by calls that know nothing yet.
LEMMA TurnStep == ASSUME WInv, Turn PROVE WInv'
<1> USE DEF Turn
<1>1. ASSUME NEW q \in Requests PROVE q \in CallRow /\ RowOK(q)
  <2>1. q \in {NoCall, [NoCall EXCEPT !.step = "begin"]}
        \/ \E r \in Run, u \in {"run_skill", "resume_skill"} :
              q = [NoCall EXCEPT !.step = "begin", !.tool = u, !.run = r]
    BY DEF Requests, Known
  <2>2. CASE q \in {NoCall, [NoCall EXCEPT !.step = "begin"]}
    BY <2>2, NoCallOK DEF CallRow, RowOK, NoCall
  <2>3. ASSUME NEW r \in Run, NEW u \in {"run_skill", "resume_skill"},
               q = [NoCall EXCEPT !.step = "begin", !.tool = u, !.run = r]
        PROVE  q \in CallRow /\ RowOK(q)
    <3>1. q \in CallRow BY <2>3, NoCallOK DEF CallRow, NoCall
    <3>2. q.run = r /\ r # None /\ q.tool = u /\ q.step = "begin" /\ q.done = 0 /\ q.seen = NoCall.seen
          /\ q.row = NoRun
      BY <2>3, WorkflowAssumption DEF NoCall
    <3>3. UpTo(r, 0) BY DEF UpTo
    <3> QED BY <3>1, <3>2, <3>3, NoCallOK DEF RowOK, NoRun
  <2> QED BY <2>1, <2>2, <2>3
<1>2. calls' \in [Call -> CallRow] /\ \A c \in Call : RowOK(calls'[c]) BY <1>1
<1>3. op.call = None BY WorkflowAssumption DEF WInv, OpOK, TypeOK, OpRow
<1>4. status \in {"running", "completed", "ended"} /\ concluding \in BOOLEAN /\ orphans \subseteq OrphanSet
  BY DEF WInv, TypeOK
<1> QED BY <1>2, <1>3, <1>4, IdleStep DEF planning, request, executing, workflows

LEMMA OpenStep == ASSUME WInv, NEW c \in Call, Open(c) PROVE WInv'
<1> USE DEF Open, At, planning, executing
<1> DEFINE r == calls[c].run
           row == [calls[c] EXCEPT !.row = [runs[r] EXCEPT !.state = "running"],
                                   !.done = checkpoint[r].done, !.step = "perform"]
<1>1. r \in Run /\ r # None BY CallFacts DEF RowOK, CallRow
<1>2. [runs[r] EXCEPT !.state = "running"] \in RunRow BY <1>1, CallFacts DEF Table, RunRow
<1>3. checkpoint[r].done \in 0..Len(Steps) BY <1>1, CallFacts DEF Checkpoints
<1>4. row \in CallRow BY <1>2, <1>3, CallFacts DEF CallRow
<1>5. row.row.state = "running" BY <1>1, CallFacts DEF Table, RunRow, CallRow
<1>6. RowOK(row) BY <1>1, <1>5, CallFacts DEF RowOK, CallRow
<1>7. Becomes(c, row) OBVIOUS
<1> HIDE DEF row
<1> QED BY <1>4, <1>6, <1>7, CallStep, CallFacts

LEMMA UseToolStep == ASSUME WInv, NEW c \in Call, UseTool(c) PROVE WInv'
<1> DEFINE row == [calls[c] EXCEPT !.step = "perform"]
<1>0. calls[c].step = "begin" /\ UNCHANGED <<runs, planning>> BY DEF UseTool, At
<1>1. Goes(c, "perform") \/ Resets(c, "refused") BY DEF UseTool
<1> USE <1>0 DEF planning, executing
<1>2. CASE Goes(c, "perform")
  <2>1. row \in CallRow /\ RowOK(row) BY CallFacts DEF CallRow, RowOK
  <2>2. Becomes(c, row) BY <1>2 DEF Goes
  <2> HIDE DEF row
  <2> QED BY <2>1, <2>2, CallStep, CallFacts
<1>3. CASE Resets(c, "refused") BY <1>3, AnewOK, CallStep, CallFacts DEF Resets
<1> QED BY <1>1, <1>2, <1>3

\* A checkpoint never says more than the receipts.
LEMMA AdvanceStep == ASSUME WInv, NEW c \in Call, Advance(c) PROVE WInv'
<1> USE DEF Advance, At, executing
<1> DEFINE r == calls[c].run
           row == [calls[c] EXCEPT !.done = @ + 1, !.step = "perform"]
<1>1. r \in Run /\ calls[c].done \in Nat /\ calls[c].done < Len(Steps)
      /\ <<r, calls[c].done + 1>> \in receipts /\ UpTo(r, calls[c].done)
  BY CallFacts, StepsLen DEF RowOK, CallRow
<1>2. UpTo(r, calls[c].done + 1) BY <1>1 DEF UpTo
<1>3. calls[c].done + 1 \in 0..Len(Steps) BY <1>1, StepsLen
<1>4. row \in CallRow BY <1>3, CallFacts DEF CallRow
<1>5. RowOK(row) BY <1>1, <1>2, CallFacts DEF RowOK, CallRow
<1>6. Becomes(c, row) OBVIOUS
<1> HIDE DEF row
<1>7. checkpoint' \in Checkpoints BY <1>3, CallFacts DEF Checkpoints
<1>8. \A x \in Run : checkpoint'[x].done = IF x = r THEN calls[c].done + 1 ELSE checkpoint[x].done
  BY CallFacts DEF Checkpoints
<1>9. \A x \in Run : UpTo(x, checkpoint'[x].done) BY <1>2, <1>8, CallFacts
<1> QED BY <1>4, <1>5, <1>6, <1>7, <1>9, CallStep, CallFacts

LEMMA FinishedStep == ASSUME WInv, NEW c \in Call, Finished(c) PROVE WInv'
<1> USE DEF Finished, At, planning, executing
<1> DEFINE row == [calls[c] EXCEPT !.row.state = "completed", !.step = "read"]
<1>1. row \in CallRow
  <2>1. [calls[c].row EXCEPT !.state = "completed"] \in RunRow BY CallFacts DEF CallRow, RunRow
  <2> QED BY <2>1, CallFacts DEF CallRow
<1>2. calls[c].run \in Run /\ Done(calls[c].run) BY CallFacts DEF RowOK, CallRow, UpTo, Done
<1>3. RowOK(row) BY <1>2, CallFacts DEF RowOK, CallRow
<1>4. Becomes(c, row) OBVIOUS
<1> QED BY <1>1, <1>3, <1>4, CallStep, CallFacts

\* What the graph says of its record is written over what the call says, unless the workflow is done.
LEMMA ReadRunsStep == ASSUME WInv, NEW c \in Call, ReadRuns(c) PROVE WInv'
<1> USE DEF At, executing
<1> DEFINE r == calls[c].run
           state == calls[c].row.state
           missing == checkpoint[r].missing \/ state = "record_unavailable"
           said == IF missing /\ state # "completed" THEN "record_unavailable" ELSE state
           row == [calls[c] EXCEPT !.seen = runs, !.step = "write", !.row.state = said]
<1>1. /\ checkpoint' = [checkpoint EXCEPT ![r].missing = missing] /\ Becomes(c, row)
      /\ UNCHANGED <<request, executing, runs, app>> /\ calls[c].step = "read"
  BY DEF ReadRuns
<1>2. r \in Run /\ missing \in BOOLEAN
  BY <1>1, CallFacts DEF RowOK, CallRow, Checkpoints
<1>3. [calls[c].row EXCEPT !.state = said] \in RunRow BY CallFacts DEF CallRow, RunRow
<1>4. row \in CallRow BY <1>3, CallFacts DEF CallRow
<1>5. row.row.state = "completed" => state = "completed" BY CallFacts DEF CallRow, RunRow
<1>6. RowOK(row) BY <1>1, <1>5, CallFacts DEF RowOK, CallRow
<1> HIDE DEF row, missing
<1>7. checkpoint' \in Checkpoints BY <1>1, <1>2, CallFacts DEF Checkpoints
<1>8. \A x \in Run : checkpoint'[x].done = checkpoint[x].done BY <1>1, <1>2, CallFacts DEF Checkpoints
<1>9. \A x \in Run : UpTo(x, checkpoint'[x].done) BY <1>8, CallFacts
<1> QED BY <1>1, <1>4, <1>6, <1>7, <1>9, CallStep, CallFacts

LEMMA WriteRunsStep == ASSUME WInv, NEW c \in Call, WriteRuns(c) PROVE WInv'
<1> USE DEF WriteRuns, At
<1>1. PICK row \in CallRow : RowOK(row) /\ Store(c, Mine(c), Becomes(c, row))
  BY AnewOK, NoCallOK DEF Resets, Ends
<1>2. Mine(c) \in Table BY CallFacts DEF Mine, CallRow, Table
<1>3. \A r \in Run : Mine(c)[r].state = "completed" => Done(r)
  BY CallFacts DEF Mine, CallRow, Table, RowOK
<1> QED BY <1>1, <1>2, <1>3, StoreStep

-----------------------------------------------------------------------------
\* A command in the queue is that of the call that waits for it, or one nobody waits for; that of a
\* workflow is its next step.
LEMMA QueuedFacts ==
    ASSUME WInv, NEW k \in Queued
    PROVE  /\ status = "running" /\ k \in CommandRow
           /\ k.run = None => k.name = "save_draft"
           /\ k.name # "reconcile" => Follows(k)
           /\ k.call # None => /\ k.call \in Call /\ k = Command(k.call) /\ Waits(k.call)
                              /\ calls[k.call].step = (IF k.name = "reconcile" THEN "reconcile" ELSE "perform")
                              /\ calls[k.call].run = k.run /\ calls[k.call].done + 1 = k.index
<1>0. status = "running" BY DEF Queued
<1>1. CASE k \in orphans BY <1>0, <1>1 DEF WInv, OrphanSet
<1>2. ASSUME NEW c \in Call, Waits(c), k = Command(c)
      PROVE  /\ k \in CommandRow /\ k.call = c /\ (k.run = None => k.name = "save_draft")
             /\ (k.name # "reconcile" => Follows(k))
             /\ calls[c].step = (IF k.name = "reconcile" THEN "reconcile" ELSE "perform")
             /\ calls[c].run = k.run /\ calls[c].done + 1 = k.index
  <2>1. k.name = NameOf(c) /\ k.call = c /\ k.run = calls[c].run /\ k.index = calls[c].done + 1
    BY <1>2 DEF Command
  <2>2. calls[c].done \in 0..Len(Steps) /\ calls[c].run \in Run \cup {None} BY CallFacts DEF CallRow
  <2>3. calls[c].step = "reconcile" => calls[c].run # None BY CallFacts DEF RowOK
  <2>4. CASE calls[c].step = "reconcile"
    BY <1>2, <2>1, <2>2, <2>3, <2>4, StepsLen DEF NameOf, CommandRow, Command
  <2>5. CASE calls[c].step # "reconcile"
    <3>1. calls[c].step = "perform" /\ Needed(c) BY <1>2, <2>5 DEF Waits
    <3>0. calls[c].run # None => UpTo(calls[c].run, calls[c].done) BY CallFacts DEF RowOK
    <3>2. calls[c].run # None => /\ k.index \in 1..Len(Steps) /\ k.name = Steps[k.index]
                                 /\ UpTo(calls[c].run, calls[c].done)
      BY <2>1, <2>2, <2>5, <3>0, <3>1, StepsLen DEF Needed, NameOf
    <3>3. calls[c].run = None => k.name = "save_draft" BY <2>1, <2>5 DEF NameOf
    <3>4. k.name \in {"prepare", "save", "verify", "complete", "save_draft"}
      BY <3>2, <3>3, WorkflowAssumption
    <3>5. Follows(k) BY <2>1, <2>2, <3>2, StepsLen DEF Follows, UpTo
    <3>6. k \in CommandRow BY <1>2, <2>1, <2>2, <3>4, StepsLen DEF CommandRow, Command
    <3> QED BY <2>1, <3>1, <3>3, <3>4, <3>5, <3>6
  <2> QED BY <2>4, <2>5
<1>3. CASE k \notin orphans
  <2>1. PICK c \in Call : Waits(c) /\ k = Command(c) BY <1>3 DEF Queued
  <2> QED BY <1>0, <1>2, <2>1, WorkflowAssumption
<1> QED BY <1>1, <1>3

LEMMA TakesOrphans ==
    ASSUME WInv, NEW k, Takes(k)
    PROVE  orphans' \subseteq OrphanSet
BY DEF WInv, Takes

\* How a call goes on after its operation is backed by receipts, too.
LEMMA AnsweredCalls ==
    ASSUME WInv, NEW c \in Call, calls[c].step \in {"perform", "await"},
           NEW state \in {"needs_assistance", "awaiting_approval", "record_unavailable"},
           Answered(c, state)
    PROVE  /\ calls' \in [Call -> CallRow]
           /\ \A d \in Call : RowOK(calls'[d])
           /\ \A d \in Call \ {c} : calls'[d] = calls[d]
<1> DEFINE row == [calls[c] EXCEPT !.row.state = state, !.step = "read"]
<1>1. CASE calls[c].run = None
  BY <1>1, NoCallOK, CallFacts DEF Answered, Ends, Becomes, WInv, TypeOK
<1>2. CASE calls[c].run # None
  <2>1. Becomes(c, row) BY <1>2 DEF Answered
  <2>2. [calls[c].row EXCEPT !.state = state] \in RunRow BY CallFacts DEF CallRow, RunRow
  <2>3. row \in CallRow BY <2>2, CallFacts DEF CallRow
  <2>4. RowOK(row) BY <1>2, CallFacts DEF RowOK, CallRow, RunRow
  <2> QED BY <2>1, <2>3, <2>4, CallFacts DEF Becomes, WInv, TypeOK
<1> QED BY <1>1, <1>2

LEMMA ReportsCalls ==
    ASSUME WInv, NEW k, k.call # None => k.call \in Call /\ calls[k.call].step \in {"perform", "await"},
           Reports(k, "needs_assistance")
    PROVE  calls' \in [Call -> CallRow] /\ \A d \in Call : RowOK(calls'[d])
<1>1. CASE k.call = None BY <1>1, CallFacts DEF Reports, WInv, TypeOK
<1>2. CASE k.call # None BY <1>2, AnsweredCalls DEF Reports
<1> QED BY <1>1, <1>2

LEMMA OpCall == WInv => (op.call # None => op.call \in Call /\ calls[op.call].step = "await")
BY DEF WInv, TypeOK, OpRow, OpOK

\* An operation that begins is the next step of its workflow.
LEMMA PerformsOp ==
    ASSUME WInv, NEW k \in Queued, k.name # "reconcile",
           NEW phase \in {"click", "confirm", "receipt"}, Performs(k, phase), UNCHANGED receipts
    PROVE  /\ calls' \in [Call -> CallRow] /\ \A d \in Call : RowOK(calls'[d])
           /\ op' \in OpRow /\ OpOK' /\ op'.phase = phase /\ op'.name = k.name
<1>1. /\ op'.phase = phase /\ op'.name = k.name /\ op'.call = k.call /\ op'.run = k.run
      /\ op'.index = k.index
  BY DEF Performs
<1>2. op' \in OpRow BY QueuedFacts DEF Performs, OpRow, CommandRow
<1>3. Follows(op)' BY <1>1, QueuedFacts DEF Follows
<1>4. CASE k.call = None
  BY <1>1, <1>2, <1>3, <1>4, CallFacts DEF OpOK, Performs, WInv, TypeOK
<1>5. CASE k.call # None
  <2> DEFINE row == [calls[k.call] EXCEPT !.step = "await"]
  <2>1. k.call \in Call /\ calls[k.call].run = k.run /\ calls[k.call].done + 1 = k.index
    BY <1>5, QueuedFacts
  <2>2. row \in CallRow /\ RowOK(row) BY <2>1, CallFacts DEF CallRow, RowOK
  <2>3. Becomes(k.call, row) BY <1>5 DEF Performs, Goes
  <2>4. row.step = "await" /\ row.run = k.run /\ row.done + 1 = k.index
    BY <2>1, CallFacts DEF CallRow
  <2> HIDE DEF row
  <2>5. calls' \in [Call -> CallRow] /\ (\A d \in Call : RowOK(calls'[d])) /\ calls'[k.call] = row
    BY <2>1, <2>2, <2>3, CallFacts DEF Becomes, WInv, TypeOK
  <2>6. OpOK' BY <1>1, <1>3, <2>4, <2>5 DEF OpOK
  <2> QED BY <1>1, <1>2, <2>5, <2>6
<1> QED BY <1>4, <1>5

LEMMA ReplayStep == ASSUME WInv, NEW c \in Call, Replay(c) PROVE WInv'
<1> USE DEF Replay, At, planning, executing
<1> DEFINE row == [calls[c] EXCEPT !.step = "advance"]
<1>1. <<calls[c].run, calls[c].done + 1>> \in receipts BY DEF Cached, Command
<1>2. calls[c].run \in Run /\ calls[c].done < Len(Steps)
  BY <1>1, CallFacts, StepsLen, WorkflowAssumption DEF Needed, CallRow, WInv, TypeOK
<1>3. row \in CallRow /\ RowOK(row)
  BY <1>1, <1>2, WorkflowAssumption, CallFacts DEF CallRow, RowOK
<1> QED BY <1>3, CallStep, CallFacts DEF Goes

\* A call whose operation does not begin.
LEMMA AnsweredStep ==
    ASSUME WInv, NEW c \in Call, Begins(c), UNCHANGED <<runs, planning>>,
           NEW state \in {"needs_assistance", "awaiting_approval", "record_unavailable"},
           Answered(c, state)
    PROVE  WInv'
<1>1. Command(c) \in Queued /\ Command(c).name # "reconcile" /\ Command(c).call = c /\ op = NoOp
  BY DEF Begins, Starts, Command
<1>2. calls[c].step = "perform" BY <1>1, QueuedFacts, WorkflowAssumption
<1>3. calls' \in [Call -> CallRow] /\ \A d \in Call : RowOK(calls'[d]) BY <1>2, AnsweredCalls
<1>4. op.call = None /\ status \in {"running", "completed", "ended"} /\ concluding \in BOOLEAN
  BY <1>1 DEF NoOp, WInv, TypeOK
<1> QED BY <1>3, <1>4, CallFacts, IdleStep DEF planning, request, executing, workflows

LEMMA PausedStep == ASSUME WInv, NEW c \in Call, Paused(c) PROVE WInv'
<1> USE DEF Paused
<1>1. CASE Resets(c, "begin")
  <2>1. Command(c) \in Queued /\ Command(c).name # "reconcile" /\ Command(c).call = c
    BY DEF Begins, Starts, Command
  <2>2. calls[c].step = "perform" BY <2>1, QueuedFacts, WorkflowAssumption
  <2> QED BY <1>1, <2>2, AnewOK, CallStep, CallFacts DEF Resets, planning, executing
<1>2. CASE Answered(c, "awaiting_approval") BY <1>2, AnsweredStep
<1> QED BY <1>1, <1>2

\* saved_result confirms what is there.
LEMMA ReconcileStep == ASSUME WInv, NEW k \in Queued, Reconcile(k) PROVE WInv'
<1> USE DEF Reconcile
<1>1. calls' \in [Call -> CallRow] /\ \A d \in Call : RowOK(calls'[d])
  <2>1. CASE calls' = calls BY <2>1, CallFacts DEF WInv, TypeOK
  <2>2. CASE k.call # None
    <3> DEFINE c == k.call
               row == [calls[c] EXCEPT !.step = "open"]
    <3>1. c \in Call /\ calls[c].step = "reconcile" BY <2>2, QueuedFacts
    <3>2. row \in CallRow /\ RowOK(row) BY <3>1, CallFacts DEF CallRow, RowOK
    <3>3. Becomes(c, row) \/ Becomes(c, NoCall) BY <2>2 DEF Goes, Ends
    <3> QED BY <3>1, <3>2, <3>3, NoCallOK, CallFacts DEF Becomes, WInv, TypeOK
  <2> QED BY <2>1, <2>2
<1>2. OpOK' BY DEF OpOK, NoOp, Follows
<1>3. mutation' = mutation \/ (Saved /\ mutation' = "confirmed_succeeded") OBVIOUS
<1>4. SaveOK'
  BY <1>3 DEF WInv, TypeOK, SaveOK, SavedOnce, OutcomesAreTrue, Saved, NoOp, workflows
<1> QED BY <1>1, <1>2, <1>3, <1>4, TakesOrphans, Frame DEF WInv, TypeOK, request

\* The only click is made when there is no draft and no click to come, and marked before.
LEMMA PerformSaveStep == ASSUME WInv, NEW k \in Queued, PerformSave(k) PROVE WInv'
<1> USE DEF PerformSave, Starts, request
<1>0. mutation' \in {mutation, "attempted_uncertain"} /\ orphans' \subseteq OrphanSet BY TakesOrphans
<1>1. ASSUME NEW phase \in {"click", "confirm"}, Performs(k, phase), SaveOK' PROVE WInv'
  BY <1>0, <1>1, PerformsOp, Frame DEF WInv, TypeOK
<1>2. CASE Saved /\ Performs(k, "confirm")
  <2>1. SaveOK'
    BY <1>0, <1>2, PerformsOp DEF WInv, TypeOK, SaveOK, SavedOnce, OutcomesAreTrue, Saved
  <2> QED BY <1>1, <1>2, <2>1
<1>3. CASE ~Saved /\ MayClick(k.name) /\ Performs(k, "click")
  <2>1. mutation # "attempted_uncertain" /\ mutation' = "attempted_uncertain" BY <1>3 DEF MayClick
  <2>2. app.drafts = 0 /\ app.clicks = 0
    BY <1>3, <2>1 DEF WInv, TypeOK, SaveOK, SavedOnce, OutcomesAreTrue, Saved
  <2>3. SaveOK'
    BY <1>3, <2>1, <2>2, PerformsOp DEF WInv, TypeOK, SaveOK, SavedOnce, OutcomesAreTrue
  <2> QED BY <1>1, <1>3, <2>3
<1>4. CASE Reports(k, "needs_assistance") /\ UNCHANGED op
  <2>1. calls' \in [Call -> CallRow] /\ \A d \in Call : RowOK(calls'[d])
    BY <1>4, ReportsCalls, QueuedFacts
  <2>2. SaveOK' BY <1>0, <1>4 DEF WInv, TypeOK, SaveOK, SavedOnce, OutcomesAreTrue, NoOp
  <2>3. OpOK' BY <1>4 DEF OpOK, NoOp, Follows
  <2> QED BY <1>0, <1>4, <2>1, <2>2, <2>3, Frame DEF WInv, TypeOK
<1> QED BY <1>2, <1>3, <1>4

LEMMA InspectStep == ASSUME WInv, NEW k \in Queued, Inspect(k) PROVE WInv'
<1> USE DEF Inspect, Finds, Starts, request
<1>1. PICK phase \in {"confirm", "receipt"} : Performs(k, phase) /\ (phase = "confirm" => Saved)
  OBVIOUS
<1>2. SaveOK'
  BY <1>1, PerformsOp DEF WInv, TypeOK, SaveOK, SavedOnce, OutcomesAreTrue, Saved
<1> QED BY <1>1, <1>2, PerformsOp, TakesOrphans, Frame DEF WInv, TypeOK

-----------------------------------------------------------------------------
LEMMA OpMoves ==
    ASSUME WInv, NEW phase \in {"press", "outcome", "confirm", "receipt"}, op.phase # "none",
           op' = [op EXCEPT !.phase = phase], UNCHANGED <<receipts, calls>>
    PROVE  op' \in OpRow /\ OpOK' /\ op'.phase = phase /\ op'.name = op.name
<1>1. op' \in OpRow /\ op'.phase = phase /\ op'.call = op.call /\ op'.run = op.run
      /\ op'.index = op.index /\ op'.name = op.name
  BY DEF WInv, TypeOK, OpRow
<1> QED BY <1>1 DEF WInv, OpOK, Follows

LEMMA FenceSaveStep == ASSUME WInv, FenceSave PROVE WInv'
<1> USE DEF FenceSave, request
<1>1. SaveOK' BY OpMoves DEF WInv, TypeOK, SaveOK, SavedOnce, OutcomesAreTrue
<1> QED BY <1>1, OpMoves, CallFacts, Frame DEF WInv, TypeOK

LEMMA ClickSaveStep == ASSUME WInv, ClickSave PROVE WInv'
<1> USE DEF ClickSave, request
<1>1. app.drafts = 0 /\ app.clicks = 0 /\ mutation = "attempted_uncertain" BY DEF WInv, SaveOK
<1>2. app' \in [clicks: Nat, drafts: Nat, rejected: BOOLEAN] /\ app'.clicks = 1 /\ app'.drafts = 0
  BY <1>1 DEF WInv, TypeOK
<1>3. op'.phase = "outcome" BY OpMoves
<1> HIDE DEF ClickSave
<1>4. UNCHANGED <<mutation, receipts>> BY DEF ClickSave
<1>5. SaveOK' BY <1>1, <1>2, <1>3, <1>4 DEF WInv, SaveOK, SavedOnce, OutcomesAreTrue
<1> USE DEF ClickSave
<1> QED BY <1>2, <1>5, OpMoves, CallFacts, Frame DEF WInv, TypeOK

LEMMA SeeDraftStep == ASSUME WInv, SeeDraft PROVE WInv'
<1> USE DEF SeeDraft, request
<1>1. SaveOK' BY OpMoves DEF WInv, TypeOK, SaveOK, SavedOnce, OutcomesAreTrue, Saved
<1> QED BY <1>1, OpMoves, CallFacts, Frame DEF WInv, TypeOK

LEMMA ConfirmStep == ASSUME WInv, Confirm PROVE WInv'
<1> USE DEF Confirm, request
<1>1. SaveOK' BY OpMoves DEF WInv, TypeOK, SaveOK, SavedOnce, OutcomesAreTrue
<1> QED BY <1>1, OpMoves, CallFacts, Frame DEF WInv, TypeOK

LEMMA NoOpOK == NoOp \in OpRow /\ (op' = NoOp => OpOK')
BY DEF NoOp, OpRow, OpOK, Follows

LEMMA SeeRejectionStep == ASSUME WInv, SeeRejection PROVE WInv'
<1> USE DEF SeeRejection, request
<1>1. SaveOK' BY DEF WInv, TypeOK, SaveOK, SavedOnce, OutcomesAreTrue, Saved, NoOp
<1> QED BY <1>1, OpCall, ReportsCalls, NoOpOK, Frame DEF WInv, TypeOK

LEMMA OperationFailsStep == ASSUME WInv, OperationFails PROVE WInv'
<1> USE DEF OperationFails, request
<1>1. SaveOK' BY DEF WInv, SaveOK, SavedOnce, OutcomesAreTrue, NoOp
<1> QED BY <1>1, OpCall, ReportsCalls, NoOpOK, Frame DEF WInv, TypeOK

\* A receipt continues the receipts of its workflow, and that of a save has a draft.
LEMMA ReceiptStep == ASSUME WInv, Receipt PROVE WInv'
<1> USE DEF Receipt, request, workflows
<1> DEFINE r == op.run
           i == op.index
<1>0. orphans' \subseteq orphans /\ orphans \subseteq CommandRow /\ orphans \subseteq OrphanSet
  BY DEF WInv, TypeOK
<1>1. CASE r = None
  <2>1. CASE op.call = None
    <3>1. calls' = calls BY <2>1 DEF Reports
    <3>2. SaveOK' BY <1>1 DEF WInv, SaveOK, SavedOnce, OutcomesAreTrue, NoOp
    <3> QED BY <1>0, <1>1, <3>1, <3>2, NoOpOK, CallFacts, Frame DEF WInv, TypeOK
  <2>2. CASE op.call # None
    <3>1. op.call \in Call /\ calls[op.call].run = None
      BY <1>1, <2>2 DEF WInv, TypeOK, OpRow, OpOK, Follows
    <3>2. Ends(op.call) BY <2>2, <3>1 DEF Reports, Answered
    <3>3. calls' \in [Call -> CallRow] /\ \A d \in Call : RowOK(calls'[d])
      BY <3>1, <3>2, NoCallOK, CallFacts DEF Ends, Becomes, WInv, TypeOK
    <3>4. SaveOK' BY <1>1 DEF WInv, SaveOK, SavedOnce, OutcomesAreTrue, NoOp
    <3> QED BY <1>0, <1>1, <3>3, <3>4, NoOpOK, Frame DEF WInv, TypeOK
  <2> QED BY <2>1, <2>2
<1>2. CASE r # None
  <2>1. r \in Run /\ i \in 1..Len(Steps) /\ op.name = Steps[i]
        /\ \A j \in 1..Len(Steps) : j < i => <<r, j>> \in receipts
    BY <1>2 DEF WInv, TypeOK, OpRow, OpOK, Follows
  <2>2. receipts' = receipts \cup {<<r, i>>} /\ op' = NoOp BY <1>2
  <2>3. receipts' \subseteq Run \X (1..Len(Steps)) BY <2>1, <2>2 DEF WInv, TypeOK
  <2>4. calls' \in [Call -> CallRow]
        /\ \A d \in Call : \/ calls'[d] = calls[d]
                           \/ /\ calls'[d] = [calls[d] EXCEPT !.step = "advance"]
                              /\ calls[d].run = r /\ calls[d].done + 1 = i
    <3>1. CASE op.call = None BY <3>1, CallFacts DEF Reports, WInv, TypeOK
    <3>2. CASE op.call # None
      <4>1. op.call \in Call /\ calls[op.call].run = r /\ calls[op.call].done + 1 = i
        BY <3>2 DEF WInv, TypeOK, OpRow, OpOK, Follows
      <4>2. Becomes(op.call, [calls[op.call] EXCEPT !.step = "advance"])
        BY <1>2, <3>2, <4>1 DEF Reports, Answered, Goes
      <4>3. [calls[op.call] EXCEPT !.step = "advance"] \in CallRow BY <4>1, CallFacts DEF CallRow
      <4> QED BY <4>1, <4>2, <4>3 DEF Becomes, WInv, TypeOK
    <3> QED BY <3>1, <3>2
  <2>5. TypeOK' BY <1>0, <2>2, <2>3, <2>4, NoOpOK DEF WInv, TypeOK
  <2>6. CallsOK'
    <3> SUFFICES ASSUME NEW d \in Call PROVE RowOK(calls[d])'
      BY DEF CallsOK
    <3>1. calls[d] \in CallRow /\ RowOK(calls[d]) BY CallFacts
    <3>2. CASE calls'[d] = calls[d] BY <2>2, <3>1, <3>2 DEF RowOK, UpTo, Done
    <3>3. CASE calls'[d] = [calls[d] EXCEPT !.step = "advance"]
               /\ calls[d].run = r /\ calls[d].done + 1 = i
      <4>1. /\ calls'[d].step = "advance" /\ calls'[d].run = r /\ calls'[d].done = calls[d].done
            /\ calls'[d].tool = calls[d].tool /\ calls'[d].seen = calls[d].seen
            /\ calls'[d].row = calls[d].row
        BY <3>1, <3>3 DEF CallRow
      <4>2. calls[d].done < Len(Steps) /\ <<r, calls[d].done + 1>> \in receipts'
        BY <2>1, <2>2, <3>1, <3>3, StepsLen DEF CallRow
      <4> QED BY <1>2, <2>2, <3>1, <3>3, <4>1, <4>2 DEF RowOK, UpTo, Done
    <3> QED BY <2>4, <3>2, <3>3
  <2>7. RunsOK' BY <2>2 DEF WInv, RunsOK, UpTo, Done
  <2>8. Chain'
    <3>1. \A j \in 2..Len(Steps) : j - 1 \in 1..Len(Steps) /\ j - 1 < j BY StepsLen
    <3>2. \A x \in Run : \A j \in 2..Len(Steps) :
             <<x, j>> \in receipts' => <<x, j>> \in receipts \/ (x = r /\ j = i)
      BY <2>2
    <3> QED BY <2>1, <2>2, <3>1, <3>2 DEF WInv, Chain
  <2>9. SaveOK'
    <3>1. \A x \in Run : \A j \in 1..Len(Steps) :
             <<x, j>> \in receipts' => <<x, j>> \in receipts \/ (x = r /\ j = i)
      BY <2>2
    <3> QED BY <2>1, <2>2, <3>1 DEF WInv, SaveOK, SavedOnce, OutcomesAreTrue, NoOp
  <2>10. orphans' \subseteq OrphanSet' BY <1>0, <2>2 DEF OrphanSet, Follows
  <2> QED BY <2>2, <2>5, <2>6, <2>7, <2>8, <2>9, <2>10, NoOpOK DEF WInv
<1> QED BY <1>1, <1>2

LEMMA TimeOutStep == ASSUME WInv, TimeOut PROVE WInv'
<1> USE DEF TimeOut
<1>1. op.call \in Call BY DEF WInv, TypeOK, OpRow
<1>2. calls' \in [Call -> CallRow] /\ \A d \in Call : RowOK(calls'[d])
  BY <1>1, AnewOK, CallFacts DEF Resets, Becomes, WInv, TypeOK
<1>3. CASE op' = NoOp
  <2>1. SaveOK' BY <1>3 DEF WInv, SaveOK, SavedOnce, OutcomesAreTrue, NoOp
  <2> QED BY <1>2, <1>3, <2>1, NoOpOK, Frame DEF WInv, TypeOK, request
<1>4. CASE op' = [op EXCEPT !.call = None]
  <2>1. op'.call = None BY <1>4 DEF WInv, TypeOK, OpRow
  <2> QED BY <1>2, <1>4, <2>1, IdleStep DEF WInv, TypeOK, request
<1> QED BY <1>3, <1>4

\* What is left in the queue was there before.
LEMMA LeavesOrphans ==
    ASSUME WInv, status = "running", NEW C \in SUBSET Call, Leaves(C)
    PROVE  orphans' \subseteq OrphanSet
<1>1. ASSUME NEW c \in Call, Waits(c) PROVE Orphan(c) \in OrphanSet
  <2>1. Command(c) \in Queued BY <1>1 DEF Queued
  <2>2. Command(c) \in CommandRow /\ Orphan(c) \in CommandRow
        /\ Orphan(c).call = None /\ Orphan(c).name = Command(c).name
        /\ Orphan(c).run = Command(c).run /\ Orphan(c).index = Command(c).index
    BY <2>1, QueuedFacts DEF Orphan, CommandRow
  <2> QED BY <2>1, <2>2, QueuedFacts DEF OrphanSet, Follows
<1> QED BY <1>1, CallFacts DEF Leaves, Matter, WInv

LEMMA AbandonStep == ASSUME WInv, NEW c \in Call, Abandon(c) PROVE WInv'
<1> USE DEF Abandon, workflows
<1>1. calls[c].step # "await" BY DEF Waits
<1> QED BY <1>1, LeavesOrphans, AnewOK, CallStep, CallFacts DEF Resets

LEMMA RestartStep == ASSUME WInv, Restart PROVE WInv'
<1> USE DEF Restart
<1>1. calls' \in [Call -> CallRow] /\ \A c \in Call : RowOK(calls'[c]) BY AnewOK, NoCallOK
<1>2. op'.call = None BY DEF WInv, TypeOK, OpRow
<1> QED BY <1>1, <1>2, LeavesOrphans, IdleStep

LEMMA AppStep == ASSUME WInv, Commit \/ RejectSave PROVE WInv'
<1>1. app.clicks \in Nat /\ app.drafts \in Nat /\ app.clicks > 0 BY DEF Commit, RejectSave, WInv, TypeOK
<1>2. app.clicks = 1 /\ app.drafts = 0 BY <1>1 DEF WInv, SaveOK, SavedOnce
<1>3. /\ app'.clicks = 0 /\ app'.drafts \in {0, 1} /\ app' \in [clicks: Nat, drafts: Nat, rejected: BOOLEAN]
      /\ UNCHANGED <<request, executing, workflows, calls>>
  <2>1. CASE Commit BY <1>1, <1>2, <2>1 DEF Commit
  <2>2. CASE RejectSave
    <3>1. app' = [app EXCEPT !.clicks = 0, !.rejected = TRUE] BY <1>2, <2>2 DEF RejectSave
    <3>2. app' \in [clicks: Nat, drafts: Nat, rejected: BOOLEAN] /\ app'.clicks = 0 /\ app'.drafts = 0
      BY <1>2, <3>1 DEF WInv, TypeOK
    <3> QED BY <2>2, <3>2 DEF RejectSave
  <2> QED BY <2>1, <2>2
<1>4. SaveOK' BY <1>2, <1>3 DEF WInv, SaveOK, SavedOnce, OutcomesAreTrue, executing
<1>5. OpOK' BY <1>3 DEF WInv, OpOK, Follows, executing
<1> QED BY <1>3, <1>4, <1>5, CallFacts, Frame DEF WInv, TypeOK, request, executing

LEMMA NextWInv == WInv /\ [Next]_vars => WInv'
<1> SUFFICES ASSUME WInv, [Next]_vars PROVE WInv' OBVIOUS
<1>1. ASSUME NEW c \in Call,
             RunSkill(c) \/ Register(c) \/ ResumeSkill(c) \/ Charge(c) \/ Open(c)
             \/ UseTool(c) \/ Advance(c) \/ Finished(c) \/ ReadRuns(c) \/ WriteRuns(c) \/ GiveUp(c)
             \/ Abandon(c) \/ Replay(c) \/ Paused(c) \/ Declines(c) \/ NotFound(c)
      PROVE  WInv'
  <2>1. CASE GiveUp(c) BY <2>1, FinishStep DEF GiveUp
  <2>2. CASE Declines(c) \/ NotFound(c) BY <2>2, AnsweredStep DEF Declines, NotFound
  <2> QED BY <1>1, <2>1, <2>2, RunSkillStep, RegisterStep, ResumeSkillStep, ChargeStep, OpenStep,
             UseToolStep, AdvanceStep, FinishedStep, ReadRunsStep, WriteRunsStep, AbandonStep,
             ReplayStep, PausedStep
<1>2. CASE Cancel \/ Conclude BY <1>2, FinishStep DEF Cancel, Conclude
<1>3. ASSUME concluding' \in BOOLEAN, UNCHANGED <<status, executing, workflows, calls, app>>
      PROVE  WInv'
  <2>1. OpOK' /\ SaveOK'
    BY <1>3 DEF WInv, OpOK, Follows, SaveOK, SavedOnce, OutcomesAreTrue, executing
  <2> QED BY <1>3, <2>1, CallFacts, Frame DEF WInv, TypeOK, executing
<1>4. CASE CheckCompletion BY <1>3, <1>4 DEF CheckCompletion
<1>5. CASE UNCHANGED vars BY <1>3, <1>5 DEF vars, executing, workflows, WInv, TypeOK
<1> QED BY <1>1, <1>2, <1>4, <1>5, TurnStep, ReconcileStep, PerformSaveStep, InspectStep,
           FenceSaveStep, ClickSaveStep, SeeDraftStep, SeeRejectionStep, ConfirmStep,
           ReceiptStep, OperationFailsStep, TimeOutStep, RestartStep, AppStep DEF Next

-----------------------------------------------------------------------------
\* The invariant all the others follow from: what a call, a workflow's row and a checkpoint say is
\* backed by receipts, and a click is to come only for a save that is uncertain.
THEOREM WorkflowInvariant == Spec => []WInv
<1> QED BY InitWInv, NextWInv, PTL DEF Spec

\* The records of the request, of its workflows and of the operation keep their types.
THEOREM WorkflowTypes == Spec => []TypeOK
<1>1. WInv => TypeOK BY DEF WInv
<1> QED BY <1>1, WorkflowInvariant, PTL

\* However saves fail, time out, are resumed or repeated, one draft is made at the most.
THEOREM SavesOnce == Spec => []SavedOnce
<1>1. WInv => SavedOnce BY DEF WInv, SaveOK
<1> QED BY <1>1, WorkflowInvariant, PTL

\* A confirmed save is there, and one said to have failed or not to be tried never comes.
THEOREM OutcomesHold == Spec => []OutcomesAreTrue
<1>1. WInv => OutcomesAreTrue BY DEF WInv, SaveOK
<1> QED BY <1>1, WorkflowInvariant, PTL

\* Steps are performed in order, and a completed workflow has performed them all.
THEOREM PerformsInOrder == Spec => []StepsInOrder
<1>1. WInv => StepsInOrder BY DEF WInv, Chain, RunsOK, Done, SaveOK, StepsInOrder
<1> QED BY <1>1, WorkflowInvariant, PTL
=============================================================================
