---------------------------------- MODULE Workflow ----------------------------------
(***************************************************************************)
(* A skill workflow and the save it makes.  The planner performs tool      *)
(* calls, several at once: one starts a workflow, one resumes it, one      *)
(* saves by itself.  The executor performs one command at a time under its *)
(* lock, those a planner no longer waits for, too, and the application     *)
(* takes a click on Save when it gets to it.                               *)
(*                                                                         *)
(* Leases, epochs and authorizations are the subject of Desktop: here an   *)
(* operation simply may fail wherever they, its deadline or the            *)
(* application's screen can stop it.                                       *)
(***************************************************************************)
EXTENDS Naturals, Sequences, FiniteSets

CONSTANTS
    Run,          \* identities of workflows
    Call,         \* tool calls under way at a time
    None,         \* no workflow, no call
    Steps,        \* the pinned package's operations; "prepare" is any that looks or fills in
    MaxRecoveries, \* times a workflow gets assistance (4)
    MaxOrphans     \* bound: commands nobody waits for that are queued at a time

ASSUME WorkflowAssumption ==
    /\ None \notin Run \cup Call
    /\ Steps \in Seq({"prepare", "save", "verify", "complete"})
    /\ MaxRecoveries \in Nat
    /\ MaxOrphans \in Nat

VARIABLES
    status,     \* of the request
    mutation,   \* what the request knows of its save
    runs,       \* skill_runs, read and written as a whole
    checkpoint, \* of each workflow's graph: steps done, and that its record was once missing
    receipts,   \* the steps with a cached result
    calls,      \* the planner's tool calls
    op,         \* the operation in the executor
    orphans,    \* commands in the executor's queue that nobody waits for
    concluding, \* a completion has passed its check and is yet to be committed
    app         \* the application: clicks on Save to come, drafts, the last rejection

vars == <<status, mutation, runs, checkpoint, receipts, calls, op, orphans, concluding, app>>

NoRun  == [state |-> "absent", recoveries |-> 0]
RunRow == [state: {"absent", "running", "needs_assistance", "awaiting_approval", "record_unavailable",
                   "completed"},
           recoveries: 0..MaxRecoveries]
Table  == [Run -> RunRow]
NoCall == [step |-> "idle", tool |-> "save_draft", run |-> None, seen |-> [r \in Run |-> NoRun],
           row |-> NoRun, done |-> 0, uncertain |-> FALSE]
CallRow == [step: {"idle", "begin", "register", "charge", "reconcile", "open", "perform", "await",
                   "advance", "read", "write", "refused"},
            tool: {"run_skill", "resume_skill", "save_draft"},
            run: Run \cup {None},
            seen: Table,            \* the job's skill_runs when the call read it
            row: RunRow,            \* its own copy of the workflow's row
            done: 0..Len(Steps),    \* index of its graph
            uncertain: BOOLEAN]     \* the job's mutation when the call read it
CommandRow == [name: {"prepare", "save", "verify", "complete", "save_draft", "reconcile"},
               call: Call \cup {None}, run: Run \cup {None}, index: Nat]
NoOp  == [phase |-> "none", name |-> "verify", call |-> None, run |-> None, index |-> 0]
OpRow == [phase: {"none", "click", "press", "outcome", "confirm", "receipt"},
          name: {"prepare", "save", "verify", "complete", "save_draft"},
          call: Call \cup {None}, run: Run \cup {None}, index: Nat]

TypeOK ==
    /\ status \in {"running", "completed", "ended"}
    /\ mutation \in {"not_attempted", "attempted_uncertain", "confirmed_succeeded", "confirmed_failed"}
    /\ runs \in Table
    /\ checkpoint \in [Run -> [done: 0..Len(Steps), missing: BOOLEAN]]
    /\ receipts \subseteq (Run \X (1..Len(Steps)))
    /\ calls \in [Call -> CallRow]
    /\ op \in OpRow
    /\ orphans \subseteq CommandRow
    /\ concluding \in BOOLEAN
    /\ app \in [clicks: Nat, drafts: Nat, rejected: BOOLEAN]

Init ==
    /\ status = "running" /\ mutation = "not_attempted"
    /\ runs = [r \in Run |-> NoRun]
    /\ checkpoint = [r \in Run |-> [done |-> 0, missing |-> FALSE]]
    /\ receipts = {}
    /\ calls = [c \in Call |-> NoCall]
    /\ op = NoOp /\ orphans = {} /\ concluding = FALSE
    /\ app = [clicks |-> 0, drafts |-> 0, rejected |-> FALSE]

Owns(row)  == row.state \notin {"absent", "completed"}
Known(t)   == {r \in Run : t[r].state # "absent"}
Saved      == app.drafts > 0
At(c, s)   == status = "running" /\ calls[c].step = s
Becomes(c, row) == calls' = [calls EXCEPT ![c] = row]
Goes(c, s) == Becomes(c, [calls[c] EXCEPT !.step = s])
\* A call that needs nothing more of what it has read.
Anew(c, s)   == [NoCall EXCEPT !.step = s, !.tool = calls[c].tool, !.run = calls[c].run]
Resets(c, s) == Becomes(c, Anew(c, s))
Ends(c)    == Becomes(c, NoCall)
Mine(c)    == [calls[c].seen EXCEPT ![calls[c].run] = calls[c].row]

\* The server accepts a new skill_runs that removes no workflow.
Store(c, t, Then) ==
    IF Known(runs) \subseteq Known(t) THEN runs' = t /\ Then
    ELSE UNCHANGED runs /\ Resets(c, "refused")

request   == <<status, concluding>>
workflows == <<runs, checkpoint>>
executing == <<mutation, receipts, op, orphans>>
planning  == <<request, executing, checkpoint, app>>

-----------------------------------------------------------------------------
(* The planner's tool calls *)

\* Whatever a call does next needs a request that runs, and so does a command in the queue: once it
\* does not, they come to nothing.  The operation in the executor goes on.
Finish(s) ==
    /\ status' = s /\ concluding' = FALSE /\ calls' = [c \in Call |-> NoCall] /\ orphans' = {}
    /\ op' = [op EXCEPT !.call = None]
    /\ UNCHANGED <<workflows, mutation, receipts, app>>

\* A turn of the model: a batch of calls.  A workflow is named after the call that starts it.
Requests ==
    {NoCall} \cup
    {[NoCall EXCEPT !.step = "begin"]} \cup
    {[NoCall EXCEPT !.step = "begin", !.tool = "run_skill", !.run = r] : r \in Run \ Known(runs)} \cup
    {[NoCall EXCEPT !.step = "begin", !.tool = "resume_skill", !.run = r] : r \in Known(runs)}

Turn ==
    /\ status = "running" /\ ~concluding /\ \A c \in Call : calls[c].step = "idle"
    /\ calls' \in [Call -> Requests]
    /\ \A c, d \in Call : calls'[c].tool = "run_skill" /\ calls'[c].run = calls'[d].run => c = d
    /\ UNCHANGED <<runs, planning>>

\* A call that is repeated after a restart finds its workflow.
RunSkill(c) ==
    /\ At(c, "begin") /\ calls[c].tool = "run_skill"
    /\ CASE calls[c].run \in Known(runs)    -> Resets(c, "open")
         [] \E r \in Run : Owns(runs[r])    -> Resets(c, "refused")
         [] OTHER -> Becomes(c, [calls[c] EXCEPT !.seen = runs, !.row.state = "running",
                                                 !.step = "register"])
    /\ UNCHANGED <<runs, planning>>

Register(c) ==
    /\ At(c, "register")
    /\ Store(c, Mine(c), Becomes(c, [Anew(c, "perform") EXCEPT !.row = calls[c].row]))
    /\ UNCHANGED planning

Reads(c) ==
    Becomes(c, [calls[c] EXCEPT !.step = "charge", !.seen = runs,
                                !.uncertain = mutation = "attempted_uncertain"])

ResumeUnbounded(c) ==    \* mutant
    /\ At(c, "begin") /\ calls[c].tool = "resume_skill"
    /\ IF runs[calls[c].run].state = "needs_assistance" THEN Reads(c) ELSE Resets(c, "open")
    /\ UNCHANGED <<runs, planning>>

ResumeSkill(c) ==
    /\ At(c, "begin") /\ calls[c].tool = "resume_skill"
    /\ LET row == runs[calls[c].run]
       IN  CASE row.state # "needs_assistance"  -> Resets(c, "open")
             [] row.recoveries >= MaxRecoveries -> Resets(c, "refused")
             [] OTHER                           -> Reads(c)
    /\ UNCHANGED <<runs, planning>>

Charge(c) ==
    /\ At(c, "charge")
    /\ Store(c, [calls[c].seen EXCEPT ![calls[c].run].recoveries = @ + 1],
             Resets(c, IF calls[c].uncertain THEN "reconcile" ELSE "open"))
    /\ UNCHANGED planning

\* run reads the job again, then the graph its checkpoint.  What the row says of the state is written
\* over before it is looked at.
Open(c) ==
    /\ At(c, "open")
    /\ Becomes(c, [calls[c] EXCEPT !.row = [runs[calls[c].run] EXCEPT !.state = "running"],
                                   !.done = checkpoint[calls[c].run].done, !.step = "perform"])
    /\ UNCHANGED <<runs, planning>>

\* A workflow keeps every other tool out unless it waits for assistance.  Only the first one that
\* is not completed is looked at; the table has no order here.
UseTool(c) ==
    /\ At(c, "begin") /\ calls[c].tool = "save_draft"
    /\ LET pending == {r \in Run : Owns(runs[r])}
       IN  IF pending = {} THEN Goes(c, "perform")
           ELSE \E first \in pending :
                    IF runs[first].state # "needs_assistance" THEN Resets(c, "refused")
                    ELSE Goes(c, "perform")
    /\ UNCHANGED <<runs, planning>>

\* The checkpoint of the step is written before the next one begins.
Advance(c) ==
    /\ At(c, "advance")
    /\ checkpoint' = [checkpoint EXCEPT ![calls[c].run].done = calls[c].done + 1]
    /\ Becomes(c, [calls[c] EXCEPT !.done = @ + 1, !.step = "perform"])
    /\ UNCHANGED <<request, executing, runs, app>>

Finished(c) ==
    /\ At(c, "perform") /\ calls[c].run # None /\ calls[c].done = Len(Steps)
    /\ Becomes(c, [calls[c] EXCEPT !.row.state = "completed", !.step = "read"])
    /\ UNCHANGED <<runs, planning>>

\* The job is read and written in two calls.  A graph that once missed its record says so ever after,
\* unless it is done.
ReadRuns(c) ==
    /\ At(c, "read")
    /\ LET r       == calls[c].run
           state   == calls[c].row.state
           missing == checkpoint[r].missing \/ state = "record_unavailable"
       IN  /\ checkpoint' = [checkpoint EXCEPT ![r].missing = missing]
           /\ Becomes(c, [calls[c] EXCEPT
                !.seen = runs, !.step = "write",
                !.row.state = IF missing /\ state # "completed" THEN "record_unavailable" ELSE state])
    /\ UNCHANGED <<request, executing, runs, app>>

\* A workflow that was paused is taken up by a repetition of its call.
WriteRuns(c) ==
    /\ At(c, "write")
    /\ Store(c, Mine(c), IF calls[c].row.state = "awaiting_approval" THEN Resets(c, "begin") ELSE Ends(c))
    /\ UNCHANGED planning

\* A refusal leaves the agent, whose other calls may still go on, and ends the request.
GiveUp(c) ==
    /\ At(c, "refused") /\ Finish("ended")

-----------------------------------------------------------------------------
(* The executor: one command at a time *)

Needed(c)  == calls[c].run = None \/ calls[c].done < Len(Steps)
Waits(c)   == calls[c].step = "reconcile" \/ (calls[c].step = "perform" /\ Needed(c))
NameOf(c)  == CASE calls[c].step = "reconcile" -> "reconcile"
                [] calls[c].run = None         -> "save_draft"
                [] OTHER                       -> Steps[calls[c].done + 1]
Command(c) == [name |-> NameOf(c), call |-> c, run |-> calls[c].run, index |-> calls[c].done + 1]
Cached(k)  == <<k.run, k.index>> \in receipts

\* The commands the executor may take.
Queued    == IF status = "running" THEN {Command(c) : c \in {d \in Call : Waits(d)}} \cup orphans ELSE {}
Starts(k) == k \in Queued /\ k.name # "reconcile" /\ op = NoOp /\ ~Cached(k)
Begins(c) == Waits(c) /\ Starts(Command(c))

\* Alike orphans are one, which may start again.
Takes(k) == IF k.call = None THEN orphans' \in {orphans, orphans \ {k}} ELSE UNCHANGED orphans

\* Mutant: the graph goes on after a failure, too.
AnsweredOnward(c, state) ==
    IF calls[c].run = None THEN Ends(c) ELSE Goes(c, "advance")

\* How a call goes on after its operation: the graph advances, or notes why it stops.
Answered(c, state) ==
    CASE calls[c].run = None -> Ends(c)
      [] calls[c].run # None /\ state = "done" -> Goes(c, "advance")
      [] OTHER -> Becomes(c, [calls[c] EXCEPT !.row.state = state, !.step = "read"])
\* The planner that asked may be gone.
Reports(k, state) == IF k.call = None THEN UNCHANGED calls ELSE Answered(k.call, state)

\* A step with a receipt is not performed.
Replay(c) ==
    /\ At(c, "perform") /\ op = NoOp /\ Needed(c) /\ Cached(Command(c))
    /\ Goes(c, "advance")
    /\ UNCHANGED <<runs, planning>>

\* Staff have the desktop, or the executor does not know how this invocation ended.
Paused(c) ==
    /\ Begins(c)
    /\ IF calls[c].run = None THEN Resets(c, "begin") ELSE Answered(c, "awaiting_approval")
    /\ UNCHANGED <<runs, planning>>

\* The screen, the state of the save or a draft that does not show does not let the operation begin.
Declines(c) ==
    /\ Begins(c)
    /\ Answered(c, "needs_assistance")
    /\ UNCHANGED <<runs, planning>>

\* saved_result.  A draft that is there shows only while its record does; what it does not find the
\* model is told.
Reconcile(k) ==
    /\ k \in Queued /\ k.name = "reconcile" /\ op = NoOp /\ Takes(k)
    /\ \/ /\ Saved /\ mutation' = "confirmed_succeeded"
          /\ IF k.call = None THEN UNCHANGED calls ELSE Goes(k.call, "open")
       \/ /\ UNCHANGED mutation
          /\ IF k.call = None THEN UNCHANGED calls ELSE Ends(k.call)
    /\ UNCHANGED <<request, workflows, receipts, op, app>>

Performs(k, phase) ==
    /\ op' = [phase |-> phase, name |-> k.name, call |-> k.call, run |-> k.run, index |-> k.index]
    /\ IF k.call = None THEN UNCHANGED calls ELSE Goes(k.call, "await")

\* Mutant: a save that was made, but not answered, may be made again.
MayClickUnlessSaved(name) == mutation # "confirmed_succeeded"

\* A save needs to know that none is under way or made.
MayClick(name) ==
    CASE name = "save"       -> mutation \in {"not_attempted", "confirmed_failed"}
      [] name = "save_draft" -> mutation # "attempted_uncertain"

\* A save is marked before it looks for its draft and is made; save_draft is marked in any case.
PerformSave(k) ==
    /\ Starts(k) /\ k.name \in {"save", "save_draft"} /\ Takes(k)
    /\ mutation' = IF MayClick(k.name) \/ k.name = "save_draft" THEN "attempted_uncertain"
                   ELSE mutation
    /\ \/ Saved /\ Performs(k, "confirm")
       \/ ~Saved /\ MayClick(k.name) /\ Performs(k, "click")
       \/ Reports(k, "needs_assistance") /\ UNCHANGED op
    /\ UNCHANGED <<request, workflows, receipts, app>>

\* Mutant: completion does not look at the outcome of the save.
FindsDraft(name) == name # "prepare" => Saved

\* The draft has to be there for two of the other steps, and confirmed for the last.
Finds(name) ==
    CASE name = "prepare"  -> TRUE
      [] name = "verify"   -> Saved
      [] name = "complete" -> Saved /\ mutation = "confirmed_succeeded"

Inspect(k) ==
    /\ Starts(k) /\ k.name \in {"prepare", "verify", "complete"} /\ Takes(k)
    /\ Finds(k.name)
    /\ Performs(k, IF k.name = "verify" THEN "confirm" ELSE "receipt")
    /\ UNCHANGED <<request, workflows, mutation, receipts, app>>

\* The first steps may find no record.
NotFound(c) ==
    /\ Begins(c) /\ NameOf(c) = "prepare" /\ mutation = "not_attempted"
    /\ Answered(c, "record_unavailable")
    /\ UNCHANGED <<runs, planning>>

\* The last look at the request comes before the click.
FenceSave ==
    /\ status = "running" /\ op.phase = "click"
    /\ op' = [op EXCEPT !.phase = "press"]
    /\ UNCHANGED <<request, workflows, mutation, receipts, calls, orphans, app>>

ClickSave ==
    /\ op.phase = "press"
    /\ op' = [op EXCEPT !.phase = "outcome"]
    /\ app' = [app EXCEPT !.clicks = @ + 1]
    /\ UNCHANGED <<request, workflows, mutation, receipts, calls, orphans>>

\* The application is done with the click.
SeeDraft ==
    /\ op.phase = "outcome" /\ app.clicks = 0 /\ Saved
    /\ op' = [op EXCEPT !.phase = "confirm"]
    /\ UNCHANGED <<request, workflows, mutation, receipts, calls, orphans, app>>

\* Mutant: no draft in sight is taken for a rejection.
SeeNothing ==
    /\ status = "running" /\ op.phase = "outcome" /\ ~Saved
    /\ mutation' = "confirmed_failed"
    /\ op' = NoOp /\ Reports(op, "needs_assistance")
    /\ UNCHANGED <<request, workflows, receipts, orphans, app>>

SeeRejection ==
    /\ status = "running" /\ op.phase = "outcome" /\ app.clicks = 0 /\ app.rejected /\ ~Saved
    /\ mutation' = "confirmed_failed"
    /\ op' = NoOp /\ Reports(op, "needs_assistance")
    /\ UNCHANGED <<request, workflows, receipts, orphans, app>>

Confirm ==
    /\ status = "running" /\ op.phase = "confirm"
    /\ mutation' = "confirmed_succeeded"
    /\ op' = [op EXCEPT !.phase = "receipt"]
    /\ UNCHANGED <<request, workflows, receipts, calls, orphans, app>>

Receipt ==
    /\ op.phase = "receipt"
    /\ receipts' = IF op.run = None THEN receipts ELSE receipts \cup {<<op.run, op.index>>}
    /\ op' = NoOp /\ Reports(op, "done")
    /\ orphans' = {k \in orphans : k.name = "reconcile" \/ <<k.run, k.index>> \notin receipts'}
    /\ UNCHANGED <<request, workflows, mutation, app>>

\* A deadline, a dialog, a changed screen, lost authority, a crash: at any point.
OperationFails ==
    /\ op # NoOp
    /\ op' = NoOp /\ Reports(op, "needs_assistance")
    /\ UNCHANGED <<request, workflows, mutation, receipts, orphans, app>>

\* What becomes of the commands in the queue that nobody waits for any more: all of them, or some
\* if others were not sent yet or were lost with the executor.  One that has its receipt is of no effect.
Orphan(c) == [Command(c) EXCEPT !.call = None]
Matter(C) == {c \in C : Waits(c) /\ (calls[c].step = "reconcile" \/ ~Cached(Command(c)))}
Leaves(C) ==
    /\ orphans' \in {orphans \cup S : S \in SUBSET {Orphan(c) : c \in Matter(C)}}
    /\ orphans' # orphans => Cardinality(orphans') <= MaxOrphans

\* The planner's client gives up, the executor dies, or an error is no matter for assistance: the
\* planner ends the request.
TimeOut ==
    /\ op # NoOp /\ op.call # None
    /\ op' \in {NoOp, [op EXCEPT !.call = None]} /\ Resets(op.call, "refused")
    /\ UNCHANGED <<request, workflows, mutation, receipts, orphans, app>>

\* The same, of a command in the queue.
Abandon(c) ==
    /\ status = "running" /\ Waits(c)
    /\ Leaves({c}) /\ Resets(c, "refused")
    /\ UNCHANGED <<request, workflows, mutation, receipts, op, app>>

\* The planner restarts; the calls its checkpoint holds are made again.  A completion that the server
\* still commits is a Cancel to all that is modelled here.
Restart ==
    /\ status = "running"
    /\ \E again \in SUBSET {c \in Call : calls[c].step # "idle"} :
           calls' = [c \in Call |-> IF c \in again THEN Anew(c, "begin") ELSE NoCall]
    /\ op' = [op EXCEPT !.call = None]
    /\ Leaves(Call) /\ concluding' = FALSE
    /\ UNCHANGED <<status, workflows, mutation, receipts, app>>

-----------------------------------------------------------------------------
(* The application, the staff and the end of the request *)

\* Nothing here relies on the application to recognize a second click.
Commit ==
    /\ app.clicks > 0
    /\ app' = [clicks |-> app.clicks - 1, drafts |-> app.drafts + 1, rejected |-> FALSE]
    /\ UNCHANGED <<request, executing, workflows, calls>>

RejectSave ==
    /\ app.clicks > 0
    /\ app' = [app EXCEPT !.clicks = @ - 1, !.rejected = TRUE]
    /\ UNCHANGED <<request, executing, workflows, calls>>

Cancel == status = "running" /\ Finish("ended")

\* conclude looks at the operations and the workflows first, and completes the request in a
\* transaction of its own.
CheckCompletion ==
    /\ status = "running" /\ ~concluding
    /\ op = NoOp /\ \A c \in Call : calls[c].step = "idle"
    /\ \A r \in Run : runs[r].state \in {"absent", "completed", "record_unavailable"}
    /\ concluding' = TRUE
    /\ UNCHANGED <<status, executing, workflows, calls, app>>

Conclude == status = "running" /\ concluding /\ Finish("completed")

-----------------------------------------------------------------------------
Next ==
    \/ Turn
    \/ \E c \in Call : \/ RunSkill(c) \/ Register(c) \/ ResumeSkill(c) \/ Charge(c)
                       \/ Open(c) \/ UseTool(c) \/ Advance(c) \/ Finished(c)
                       \/ ReadRuns(c) \/ WriteRuns(c) \/ GiveUp(c) \/ Abandon(c)
                       \/ Replay(c) \/ Paused(c) \/ Declines(c) \/ NotFound(c)
    \/ \E k \in Queued : Reconcile(k) \/ PerformSave(k) \/ Inspect(k)
    \/ FenceSave \/ ClickSave \/ SeeDraft \/ SeeRejection \/ Confirm \/ Receipt \/ OperationFails
    \/ TimeOut \/ Restart
    \/ Commit \/ RejectSave \/ Cancel \/ CheckCompletion \/ Conclude

Spec == Init /\ [][Next]_vars

-----------------------------------------------------------------------------
(* Properties *)

\* An uncertain save is never repeated: whatever fails, is paused, retried or repeated, the
\* application gets one draft, though it would take a second.  architecture.md:19, save_and_verify.
SavedOnce == app.drafts + app.clicks <= 1

\* The outcomes mean what they say: what is confirmed has happened, and a save said to have failed
\* cannot come later.  ExecutionLayer._run.
OutcomesAreTrue ==
    /\ mutation = "confirmed_succeeded" => app.drafts = 1
    /\ mutation \in {"not_attempted", "confirmed_failed"} => app.drafts = 0 /\ app.clicks = 0

\* The steps of a workflow are performed in their order and each to its end, over failures, pauses and
\* restarts; a completed workflow has performed all of them and its draft is there.  perform.
StepsInOrder ==
    \A r \in Run :
        /\ \A i \in 2..Len(Steps) : <<r, i>> \in receipts => <<r, i - 1>> \in receipts
        /\ runs[r].state = "completed" =>
              \A i \in 1..Len(Steps) : <<r, i>> \in receipts /\ (Steps[i] = "save" => app.drafts = 1)
=============================================================================
