--------------------------------- MODULE Desktop ---------------------------------
(***************************************************************************)
(* One desktop and every process that acts on it: the planner process of   *)
(* the edge worker (run_worker, Coordinator.tick), the executor process    *)
(* that alone runs operations (Executor, ExecutionLayer), the staff        *)
(* console (takeover, release, cancel, message), the supervisor, the clock *)
(* and the faults of machines and network.  A remote call is one step; the *)
(* transaction it makes is the operator of ServerStore it names.           *)
(***************************************************************************)
EXTENDS ServerStore

CONSTANTS
    ErrorKinds,  \* how an operation may fail, see OperationFails
    FaultKinds,  \* what may fail: "planner", "executor", "network"
    MaxFaults,   \* bound: crashes and lost responses
    MaxHandoffs, \* bound: transfers by the staff console
    MaxRequests  \* bound: commands waiting for the executor's lock

ASSUME ErrorAssumption == ErrorKinds \subseteq {"closing", "reading", "updating"}
ASSUME FaultAssumption == FaultKinds \subseteq {"planner", "executor", "network"}
ASSUME BudgetAssumption ==
    MaxFaults \in Nat /\ MaxHandoffs \in Nat /\ MaxRequests \in Nat

VARIABLES
    planner,  \* the planner process: [pc, nonce, job, epoch, verdict]
    requests, \* HTTP commands waiting for the executor's lock
    exec,     \* the command that holds the lock
    console,  \* the staff request being served: [pc, job, owner, epoch]
    spent     \* budget used so far: [faults, handoffs]

edgeVars == <<planner, requests, exec, console, spent>>
vars == <<storeVars, edgeVars>>

Nobody == 0   \* the caller of a command whose planner gave up or died

PlannerPc == {"idle", "claimed", "ticking", "assisting", "waiting", "concluding",
              "failing", "reporting", "down"}
ExecPc == {"idle", "observed", "recovering", "staling", "approved", "granted", "begun",
           "operating", "confirming", "finishing", "reading", "updating", "closing"}
Answer == {"ok", "recovery", "paused", "stale", "stopped"}
Verdict == {"assisting", "idle", "failing"}   \* where a planner goes after its calls

\* Between begin_action and the end of the operation, success or failure.
Operating == {"begun", "operating", "confirming", "finishing", "reading", "updating"}

Idle == [pc |-> "idle", caller |-> Nobody, inv |-> None, owner |-> None, epoch |-> 0,
         approval |-> 0, answer |-> "ok"]

PlannerState == [pc: PlannerPc, nonce: Nat, job: Job \cup {None}, epoch: Nat,
                 verdict: Verdict]
Command      == [caller: Nat, inv: Job \X Op, kind: {"tool", "node"}]
ExecState    == [pc: ExecPc, caller: Nat, inv: (Job \X Op) \cup {None},
                 owner: Controller \cup {None}, epoch: Nat,
                 approval: ApprovalId \cup {0}, answer: Answer]
ConsoleState == [pc: {"idle", "noting", "taking", "releasing"}, job: Job \cup {None},
                 owner: Controller \cup {None}, epoch: Nat]

EdgeTypeOK ==
    /\ planner \in PlannerState
    /\ requests \subseteq Command
    /\ exec \in ExecState
    /\ console \in ConsoleState
    /\ spent \in [faults: Nat, handoffs: Nat]

(* Every variable holds a value of its kind: the rows of the server's tables *)
(* and the local state of the processes.                                     *)
TypeOK == StoreTypeOK /\ EdgeTypeOK

Polling(nonce) == [pc |-> "idle", nonce |-> nonce, job |-> None, epoch |-> 0,
                   verdict |-> "assisting"]

Init ==
    /\ StoreInit
    /\ planner = Polling(1)
    /\ requests = {}
    /\ exec = Idle
    /\ console = [pc |-> "idle", job |-> None, owner |-> None, epoch |-> 0]
    /\ spent = [faults |-> 0, handoffs |-> 0]

-----------------------------------------------------------------------------
(* The planner process: run_worker and Coordinator.tick *)

PlannerAt(pc) == planner.pc = pc
PlannerGoes(pc) ==
    planner' = [planner EXCEPT !.pc = pc, !.epoch = 0, !.verdict = "assisting",
                               !.job = IF pc \in {"idle", "down"} THEN None ELSE @]
OnRefusal(j) == IF Refusal(j) = "stopped" THEN "failing" ELSE "idle"
OnRefusedTransfer(j) == IF Assigned(j) /\ Live(j) THEN "idle" ELSE "failing"

\* claim answers None: nothing to do yet.
Poll == PlannerAt("idle") /\ UNCHANGED vars

Claim(j) ==
    /\ PlannerAt("idle")
    /\ Reclaim(planner.nonce, j) \/ ClaimNew(planner.nonce, j)
    /\ planner' = [planner EXCEPT !.pc = "claimed", !.job = j]
    /\ UNCHANGED <<requests, exec, console, spent>>

\* lease and check before every tick; then tick reads the controller.
Look ==
    LET j == planner.job IN
    /\ PlannerAt("claimed")
    /\ IF ~Check(j, lease.owner, lease.epoch) THEN PlannerGoes(OnRefusal(j))
       ELSE \/ lease.owner = "staff" /\ PlannerGoes("idle")
            \/ lease.owner = "assistant" /\ PlannerGoes("assisting")
            \/ /\ lease.owner = "script"
               /\ planner' = [planner EXCEPT !.pc = "ticking", !.epoch = lease.epoch]
    /\ UNCHANGED <<storeVars, requests, exec, console, spent>>

\* tick: the script hands the desktop to the assistant, at the epoch it read.
AssistantTakesOver ==
    LET j == planner.job IN
    /\ PlannerAt("ticking")
    /\ IF Assigned(j) /\ MayTransfer(j, planner.epoch)
       THEN Transfer(j, "assistant", planner.epoch) /\ PlannerGoes("assisting")
       ELSE UNCHANGED storeVars /\ PlannerGoes(OnRefusedTransfer(j))
    /\ UNCHANGED <<requests, exec, console, spent>>

\* RemoteExecutionLayer.run, from a tool call or from a workflow node.  Tool
\* calls run concurrently until one of them fails.
Call(op, kind) ==
    LET inv == <<planner.job, op>> IN
    /\ planner.pc \in {"assisting", "waiting"}
    /\ planner.verdict = "assisting"
    /\ Cardinality(requests) < MaxRequests
    /\ \A r \in requests \cup {exec} : r.caller = planner.nonce => r.inv # inv
    /\ requests' = requests \cup {[caller |-> planner.nonce, inv |-> inv, kind |-> kind]}
    /\ PlannerGoes("waiting")
    /\ UNCHANGED <<storeVars, exec, console, spent>>

\* The client's 60 seconds pass before the executor answers.  The command
\* stays queued or running: nobody will hear its answer.
Forget(r) == IF r.caller = planner.nonce THEN [r EXCEPT !.caller = Nobody] ELSE r
TimeOutContinues ==   \* mutant: the agent takes a timeout for a tool error
    /\ PlannerAt("waiting")
    /\ PlannerGoes("assisting")
    /\ requests' = {Forget(r) : r \in requests}
    /\ exec' = Forget(exec)
    /\ UNCHANGED <<storeVars, console, spent>>
TimeOut ==
    /\ PlannerAt("waiting")
    /\ PlannerGoes("failing")
    /\ requests' = {Forget(r) : r \in requests}
    /\ exec' = Forget(exec)
    /\ UNCHANGED <<storeVars, console, spent>>

\* The tick ends with an interrupt (a question, staff control), or it fails
\* (model budget, unfinished workflow, unverified business result).
EndTick(pc) ==
    /\ PlannerAt("assisting")
    /\ pc \in {"idle", "failing"}
    /\ PlannerGoes(pc)
    /\ UNCHANGED <<storeVars, requests, exec, console, spent>>

\* conclude reads the job and its approvals ...
ConcludeCheck ==
    LET j == planner.job IN
    /\ PlannerAt("assisting")
    /\ PlannerGoes(IF ~Assigned(j) THEN "failing"
                   ELSE IF Outstanding(j) THEN "idle" ELSE "concluding")
    /\ UNCHANGED <<storeVars, requests, exec, console, spent>>

\* ... and completes the job in a later transaction that looks at its status only.
ConcludeCommit ==
    LET j == planner.job IN
    /\ PlannerAt("concluding")
    /\ IF Live(j) THEN End(j, "completed") /\ PlannerGoes("idle")
                  ELSE UNCHANGED storeVars /\ PlannerGoes("failing")
    /\ UNCHANGED <<requests, exec, console, spent>>

\* run_worker's handlers of Stopped, PermissionError and any other exception:
\* get_job, then update_job unless the job has ended.  A refused get_job is
\* caught by the first handler only; a refused update_job ends the process.
FailRead ==
    LET j == planner.job IN
    /\ PlannerAt("failing")
    /\ IF Assigned(j)
       THEN PlannerGoes(IF Live(j) THEN "reporting" ELSE "idle")
       ELSE \E pc \in {"idle", "down"} : PlannerGoes(pc)
    /\ UNCHANGED <<storeVars, requests, exec, console, spent>>

FailWrite ==
    LET j == planner.job IN
    /\ PlannerAt("reporting")
    /\ IF Assigned(j) /\ Live(j) THEN End(j, "failed") /\ PlannerGoes("idle")
                                 ELSE UNCHANGED storeVars /\ PlannerGoes("down")
    /\ UNCHANGED <<requests, exec, console, spent>>

\* A new process draws a new worker id.
Restart ==
    /\ PlannerAt("down")
    /\ planner' = Polling(planner.nonce + 1)
    /\ UNCHANGED <<storeVars, requests, exec, console, spent>>

-----------------------------------------------------------------------------
(* The executor process: Executor.dispatch and ExecutionLayer._run, under   *)
(* the lock                                                                  *)

ExecAt(pc)   == exec.pc = pc
ExecGoes(pc) == exec' = [exec EXCEPT !.pc = pc]

\* What the planner does with an answer, if it still waits for it.  It goes on
\* when all its calls are answered; of several failures any one surfaces.
Outcome(answer) == IF answer \in {"ok", "recovery"} THEN "assisting"
                   ELSE IF answer = "stopped" THEN "failing" ELSE "idle"
Surfaces(v, answer) ==
    /\ v \in {planner.verdict, Outcome(answer)}
    /\ v = "assisting" => planner.verdict = Outcome(answer)
Reply(caller, answer, waiting) ==
    IF PlannerAt("waiting") /\ planner.nonce = caller
    THEN \E v \in Verdict :
            /\ Surfaces(v, answer)
            /\ IF \E r \in waiting : r.caller = caller
               THEN planner' = [planner EXCEPT !.verdict = v]
               ELSE PlannerGoes(v)
    ELSE UNCHANGED planner
Finishes(answer) == exec' = Idle /\ Reply(exec.caller, answer, requests)

\* Mutant: the receipt of an earlier run is not looked up.
AcceptAgain(r) ==
    LET j == r.inv[1]
        owner == IF r.kind = "tool" THEN "assistant" ELSE lease.owner
        refuse(answer) == exec' = exec /\ Reply(r.caller, answer, requests \ {r})
    IN  /\ ExecAt("idle")
        /\ r \in requests
        /\ requests' = requests \ {r}
        /\ IF ~Check(j, owner, lease.epoch) THEN refuse(Refusal(j))
           ELSE /\ owner # "staff"
                /\ exec' = [Idle EXCEPT !.pc = "observed", !.caller = r.caller, !.inv = r.inv,
                                        !.owner = owner, !.epoch = lease.epoch]
                /\ UNCHANGED planner
        /\ UNCHANGED <<storeVars, console, spent>>

\* authorize (planner_context), the receipt lookup, boundary, lease and check:
\* reads only.  Receipts are filed under the executor's lock and the last check
\* decides on what the others saw, so that they make one step.
Accept(r) ==
    LET j == r.inv[1]
        owner == IF r.kind = "tool" THEN "assistant" ELSE lease.owner
        refuse(answer) == exec' = exec /\ Reply(r.caller, answer, requests \ {r})
    IN  /\ ExecAt("idle")
        /\ r \in requests
        /\ requests' = requests \ {r}
        /\ IF ~Check(j, lease.owner, lease.epoch) THEN refuse(Refusal(j))
           ELSE IF r.inv \in receipts THEN refuse("ok")
           ELSE IF owner = "staff" THEN refuse("paused")
           ELSE IF owner # lease.owner THEN refuse("stale")
           ELSE /\ exec' = [Idle EXCEPT !.pc = "observed", !.caller = r.caller, !.inv = r.inv,
                                        !.owner = owner, !.epoch = lease.epoch]
                /\ UNCHANGED planner
        /\ UNCHANGED <<storeVars, console, spent>>

\* prepare_observation finds the application's window hidden or closed.
PrepareWindow ==
    LET j == exec.inv[1] IN
    /\ ExecAt("observed")
    /\ IF MayRecoverWindow(j, exec.owner, exec.epoch)
       THEN /\ BeginWindowRecovery(j, exec.owner, exec.epoch)
            /\ ExecGoes("recovering") /\ UNCHANGED planner
       ELSE UNCHANGED storeVars /\ Finishes(Refusal(j))
    /\ UNCHANGED <<requests, console, spent>>

\* The window is back, or it is not, or the desktop is no longer held: the
\* recovery files its receipt in any case.
WindowReady ==
    LET j == exec.inv[1] IN
    /\ ExecAt("recovering")
    /\ IF AssignedReceipt(j) /\ lease.inflight = <<j, Window>>
       THEN /\ FinishWindowRecovery(j)
            /\ \/ ExecGoes("observed") /\ UNCHANGED planner
               \/ Finishes("recovery")
               \/ ~Check(j, exec.owner, exec.epoch) /\ Finishes(Refusal(j))
       ELSE UNCHANGED storeVars /\ Finishes("stopped")
    /\ UNCHANGED <<requests, console, spent>>

\* authorize_operation.  An approval found executing belongs to an earlier,
\* interrupted run; a standing one of another screen is outdated.
ExecAuthorize(a) ==
    LET j == exec.inv[1]
        go(pc, answer) == exec' = [exec EXCEPT !.pc = pc, !.approval = a, !.answer = answer]
    IN  /\ ExecAt("observed")
        /\ Authorize(j, exec.inv, exec.epoch, a)
        /\ \/ approvals[a].status = "executing" /\ go("staling", "paused")
           \/ approvals[a].status = "authorized" /\ go("staling", "stale")
           \/ /\ approvals'[a].status = "authorized"
              /\ approvals'[a].epoch = exec.epoch
              /\ go("approved", "ok")
        /\ UNCHANGED <<planner, requests, console, spent>>

AuthorizeRefused ==
    LET j == exec.inv[1] IN
    /\ ExecAt("observed")
    /\ ~MayAuthorize(j, exec.epoch)
    /\ Finishes(Refusal(j))
    /\ UNCHANGED <<storeVars, requests, console, spent>>

ExecStales ==
    /\ ExecAt("staling")
    /\ IF Assigned(exec.inv[1])
       THEN StaleApproval(exec.approval) /\ Finishes(exec.answer)
       ELSE UNCHANGED storeVars /\ Finishes("stopped")
    /\ UNCHANGED <<requests, console, spent>>

\* RemoteStore.begin_action: request the grant, then begin with it.  Both are
\* outside ExecutionLayer's try block.
RequestGrant ==
    LET j == exec.inv[1] IN
    /\ ExecAt("approved")
    /\ IF MayIssue(j, exec.owner, exec.epoch, exec.inv, exec.approval)
       THEN ExecGoes("granted") /\ UNCHANGED planner
       ELSE Finishes(Refusal(j))
    /\ UNCHANGED <<storeVars, requests, console, spent>>

ExecBegin ==
    LET j == exec.inv[1] IN
    /\ ExecAt("granted")
    /\ BeginAction(j, exec.owner, exec.epoch, exec.inv, exec.approval)
    /\ ExecGoes("begun")
    /\ UNCHANGED <<planner, requests, console, spent>>

\* Another operation is in flight, authority changed or the grant expired.
BeginRefused ==
    /\ ExecAt("granted")
    /\ Finishes(Refusal(exec.inv[1]))
    /\ UNCHANGED <<storeVars, requests, console, spent>>

\* The fence before the operation and the one after it.
Fence(from, to) ==
    LET j == exec.inv[1] IN
    /\ ExecAt(from)
    /\ <<from, to>> \in {<<"begun", "operating">>, <<"confirming", "finishing">>}
    /\ exec' = IF Check(j, exec.owner, exec.epoch)
               THEN [exec EXCEPT !.pc = to]
               ELSE [exec EXCEPT !.pc = "closing", !.answer = Refusal(j)]
    /\ UNCHANGED <<storeVars, planner, requests, console, spent>>

Operate ==
    /\ ExecAt("operating")
    /\ ExecGoes("confirming")
    /\ UNCHANGED <<storeVars, planner, requests, console, spent>>

\* The operation that selects the request's record is over with its commit.
SelectRecord(a) ==
    /\ ExecAt("operating")
    /\ exec.owner = "assistant"
    /\ BindRecord(exec.inv[1], a)
    /\ Finishes("ok")
    /\ UNCHANGED <<requests, console, spent>>

\* The operation raises.  Before it files the receipt the handler makes no
\* call (a plain Recovery, any other exception), reads the job (a missing
\* record, the action deadline) or updates it (a rejected save, a retry count).
OperationFails(handler) ==
    /\ ExecAt("operating")
    /\ exec' = [exec EXCEPT !.pc = handler, !.answer = "recovery"]
    /\ UNCHANGED <<storeVars, planner, requests, console, spent>>

\* A refused call leaves the handler before its finish_action.
Handler ==
    LET j == exec.inv[1] IN
    /\ exec.pc \in {"reading", "updating"}
    /\ IF Assigned(j) /\ (ExecAt("updating") => Live(j))
       THEN ExecGoes("closing") /\ UNCHANGED planner
       ELSE Finishes("stopped")
    /\ UNCHANGED <<storeVars, requests, console, spent>>

FileResult ==
    /\ ExecAt("finishing")
    /\ FinishAction(exec.inv, exec.approval, TRUE)
    /\ Finishes("ok")
    /\ UNCHANGED <<requests, console, spent>>

\* A read, an update or the receipt after a successful operation is refused.
FileResultRefused ==
    LET j == exec.inv[1] IN
    /\ ExecAt("finishing")
    /\ ~Assigned(j) \/ ~Live(j) \/ ~MayFinish(exec.inv, exec.approval)
    /\ exec' = [exec EXCEPT !.pc = "closing", !.answer = "stopped"]
    /\ UNCHANGED <<storeVars, planner, requests, console, spent>>

FileError ==
    /\ ExecAt("closing")
    /\ IF MayFinish(exec.inv, exec.approval)
       THEN FinishAction(exec.inv, exec.approval, FALSE) /\ Finishes(exec.answer)
       ELSE UNCHANGED storeVars /\ Finishes("stopped")
    /\ UNCHANGED <<requests, console, spent>>

-----------------------------------------------------------------------------
(* Staff and supervisor *)

edgeUnchanged == UNCHANGED <<planner, requests, exec, console, spent>>

Submit(j)      == (Resolve(j) \/ CreateJob(j)) /\ edgeUnchanged
Cancel(j)      == End(j, "cancelled") /\ edgeUnchanged
Guide(j)       == Message(j) /\ edgeUnchanged
Supervise(s)   == ChangeEmployee(s) /\ edgeUnchanged
ChangeScope    == ScopeChanged /\ edgeUnchanged

\* takeover: read the lease, note its owner, transfer.  (Of an ended request
\* the code would still write the note, which nothing reads.)
TakeoverRead(j) ==
    /\ console.pc = "idle"
    /\ spent.handoffs < MaxHandoffs
    /\ Live(j)
    /\ console' = [pc |-> "noting", job |-> j, owner |-> lease.owner, epoch |-> lease.epoch]
    /\ UNCHANGED <<storeVars, planner, requests, exec, spent>>

TakeoverNote ==
    /\ console.pc = "noting"
    /\ NoteHandoff(console.job, console.owner)
    /\ console' = [console EXCEPT !.pc = "taking"]
    /\ UNCHANGED <<planner, requests, exec, spent>>

Rest == [pc |-> "idle", job |-> None, owner |-> None, epoch |-> 0]
ConsoleTransfers(o) ==
    /\ IF MayTransfer(console.job, console.epoch)
       THEN /\ Transfer(console.job, o, console.epoch)
            /\ spent' = [spent EXCEPT !.handoffs = @ + 1]
       ELSE UNCHANGED <<storeVars, spent>>
    /\ console' = Rest
    /\ UNCHANGED <<planner, requests, exec>>

TakeoverCommit == console.pc = "taking" /\ ConsoleTransfers("staff")

\* release: read the lease, then transfer to the noted controller.
ReleaseRead(j) ==
    /\ console.pc = "idle"
    /\ spent.handoffs < MaxHandoffs
    /\ Live(j)
    /\ lease.owner = "staff"
    /\ console' = [pc |-> "releasing", job |-> j, owner |-> lease.owner, epoch |-> lease.epoch]
    /\ UNCHANGED <<storeVars, planner, requests, exec, spent>>

ReleaseCommit ==
    /\ console.pc = "releasing"
    /\ ConsoleTransfers(IF handoff[console.job] = None THEN "script" ELSE handoff[console.job])

-----------------------------------------------------------------------------
(* The clock and the faults *)

Tick(j) == (ExpireLease \/ PassBudget(j)) /\ edgeUnchanged

Fault(kind) ==
    /\ kind \in FaultKinds
    /\ spent.faults < MaxFaults
    /\ spent' = [spent EXCEPT !.faults = @ + 1]

PlannerCrash ==
    /\ Fault("planner")
    /\ ~PlannerAt("down")
    /\ PlannerGoes("down")
    /\ requests' = {Forget(r) : r \in requests}
    /\ exec' = Forget(exec)
    /\ UNCHANGED <<storeVars, console>>

\* The executor restarts; whoever waited for it sees the connection close.
ExecutorCrash ==
    /\ Fault("executor")
    /\ exec' = Idle
    /\ requests' = {}
    /\ PlannerGoes(IF PlannerAt("waiting") THEN "failing" ELSE planner.pc)
    /\ UNCHANGED <<storeVars, console>>

\* begin_action commits but its response never arrives.
BeginResponseLost ==
    LET j == exec.inv[1] IN
    /\ Fault("network")
    /\ ExecAt("granted")
    /\ BeginAction(j, exec.owner, exec.epoch, exec.inv, exec.approval)
    /\ Finishes("stopped")
    /\ UNCHANGED <<requests, console>>

\* The receipt, or its acknowledgement, is lost: the generic handler files an
\* error receipt; losing that one too leaves the operation to the caller.
ReceiptLost ==
    /\ Fault("network")
    /\ exec.pc \in {"finishing", "closing"}
    /\ UNCHANGED storeVars \/ FinishAction(exec.inv, exec.approval, ExecAt("finishing"))
    /\ IF ExecAt("finishing")
       THEN exec' = [exec EXCEPT !.pc = "closing", !.answer = "recovery"] /\ UNCHANGED planner
       ELSE Finishes("stopped")
    /\ UNCHANGED <<requests, console>>

SelectionResponseLost ==
    /\ Fault("network")
    /\ ExecAt("operating")
    /\ exec.owner = "assistant"
    /\ \E a \in ApprovalId : BindRecord(exec.inv[1], a)
    /\ exec' = [exec EXCEPT !.pc = "closing", !.answer = "recovery"]
    /\ UNCHANGED <<planner, requests, console>>

WindowReceiptLost ==
    /\ Fault("network")
    /\ ExecAt("recovering")
    /\ UNCHANGED storeVars \/ FinishWindowRecovery(exec.inv[1])
    /\ Finishes("stopped")
    /\ UNCHANGED <<requests, console>>

-----------------------------------------------------------------------------
PlannerNext ==
    \/ \E j \in Job : Claim(j)
    \/ Look \/ AssistantTakesOver
    \/ \E op \in Op, kind \in {"tool", "node"} : Call(op, kind)
    \/ TimeOut
    \/ \E pc \in {"idle", "failing"} : EndTick(pc)
    \/ ConcludeCheck \/ ConcludeCommit \/ FailRead \/ FailWrite \/ Restart

ExecNext ==
    \/ \E r \in requests : Accept(r)
    \/ PrepareWindow \/ WindowReady
    \/ \E a \in ApprovalId : ExecAuthorize(a)
    \/ AuthorizeRefused \/ ExecStales \/ RequestGrant \/ ExecBegin \/ BeginRefused
    \/ \E from, to \in ExecPc : Fence(from, to)
    \/ Operate
    \/ \E a \in ApprovalId : SelectRecord(a)
    \/ \E handler \in ErrorKinds : OperationFails(handler)
    \/ Handler \/ FileResult \/ FileResultRefused \/ FileError

StaffNext ==
    \/ \E j \in Job : Submit(j) \/ Cancel(j) \/ Guide(j)
    \/ \E s \in {"active", "paused"} : Supervise(s)
    \/ ChangeScope
    \/ \E j \in Job : TakeoverRead(j) \/ ReleaseRead(j)
    \/ TakeoverNote \/ TakeoverCommit \/ ReleaseCommit

FaultNext ==
    \/ PlannerCrash \/ ExecutorCrash
    \/ BeginResponseLost \/ ReceiptLost \/ SelectionResponseLost \/ WindowReceiptLost

Next ==
    \/ Poll
    \/ PlannerNext
    \/ ExecNext
    \/ StaffNext
    \/ \E j \in Job : Tick(j)
    \/ FaultNext

Spec == Init /\ [][Next]_vars

\* Processes keep running and answer the calls they accepted, the clock goes
\* on.  Nothing is assumed of staff, of supervisors, of the client timeout or
\* of faults; the planner chooses freely how often it calls and when it stops.
PlannerRuns == PlannerNext /\ ~TimeOut
Fairness ==
    /\ WF_vars(PlannerRuns)
    /\ WF_vars(ExecNext)
    /\ WF_vars(TakeoverNote \/ TakeoverCommit \/ ReleaseCommit)
    /\ WF_vars(ExpireLease /\ edgeUnchanged)
    /\ \A j \in Job : WF_vars(CreateJob(j) /\ edgeUnchanged)
    /\ \A j \in Job : WF_vars(PassBudget(j) /\ edgeUnchanged)

FairSpec == Spec /\ Fairness

-----------------------------------------------------------------------------
(* Safety *)

(* An operation is authorized only for the request, the epoch and the        *)
(* control under which the desktop is held now: every handoff, restart,      *)
(* guidance message, cancellation or lifecycle change leaves no usable       *)
(* authorization of the past behind.                                         *)
AuthorityIsCurrent ==
    \A a \in ApprovalId : approvals[a].status = "authorized" =>
        /\ approvals[a].inv[1] = lease.job
        /\ approvals[a].epoch = lease.epoch
        /\ Live(lease.job)
        /\ lease.owner # "staff"

(* While the executor is inside an operation its approval stays executing,   *)
(* and as long as the desktop has not changed hands the desktop is reserved  *)
(* for exactly that operation under the controller it began with.            *)
OperationFenced ==
    exec.pc \in Operating =>
        /\ approvals[exec.approval].status = "executing"
        /\ approvals[exec.approval].inv = exec.inv
        /\ exec.owner # "staff"
        /\ exec.epoch = lease.epoch =>
            /\ lease.job = exec.inv[1]
            /\ lease.owner = exec.owner
            /\ lease.inflight = exec.inv

(* Within one epoch at most one operation is executing, and it is the one    *)
(* the lease names: the desktop permits one active operation.                *)
OneOperationPerEpoch ==
    \A a, b \in ApprovalId :
        /\ approvals[a].status = "executing"
        /\ approvals[a].epoch = lease.epoch
        => /\ lease.inflight = approvals[a].inv
           /\ (approvals[b].status = "executing" /\ approvals[b].epoch = lease.epoch) => a = b

(* authorize_operation never leaves an invocation with two approvals that    *)
(* could both still act, however often the invocation is repeated.           *)
OneStandingApproval ==
    \A a, b \in ApprovalId :
        approvals[a] # Closed /\ approvals[a].inv = approvals[b].inv => a = b

(* An invocation with a cached receipt is over: no approval of it can act    *)
(* any more and the executor is not performing it again.                     *)
ReceiptIsFinal ==
    \A inv \in receipts :
        /\ Standing(inv) = {}
        /\ ~(exec.pc \in Operating /\ exec.inv = inv)

(* A job is not completed while one of its operations is executing: conclude *)
(* looks at the approvals in one transaction and completes in another, so    *)
(* this rests on the planner having waited for every command it sent.        *)
CompletedIsQuiet ==
    \A a \in ApprovalId :
        approvals[a].status = "executing" => status[approvals[a].inv[1]] # "completed"

-----------------------------------------------------------------------------
(* What a step may never do *)

(* Control of the desktop changes only together with its epoch, and an epoch *)
(* never comes back, so that a process holding an old epoch is fenced off.   *)
EpochGuardsOwnership ==
    [][/\ lease'.epoch >= lease.epoch
       /\ <<lease'.job, lease'.owner, lease'.worker>> # <<lease.job, lease.owner, lease.worker>>
            => lease'.epoch > lease.epoch]_vars

(* No step revives a request that has ended.                                 *)
TerminalIsFinal ==
    [][\A j \in Job : status[j] \in Terminal => status'[j] = status[j]]_vars

(* The staff's release of the desktop hands it back to automation.           *)
ReleaseGivesBack ==
    [][ReleaseCommit /\ lease' # lease => lease'.owner # "staff"]_vars

(* A handoff never interrupts an operation the executor is performing.       *)
HandoffWaits ==
    [][lease'.owner # lease.owner => exec.pc \notin Operating]_vars

(* Without any fault, an executor that is not at work leaves nothing in      *)
(* flight: whatever happens to the request, its operation files a receipt.   *)
NothingLeftInFlight == exec.pc = "idle" => lease.inflight = None

-----------------------------------------------------------------------------
(* Progress *)

(* A queued request is taken up or cancelled, unless its employee stops or   *)
(* an operation of a request that ended leaves the desktop reserved for ever:*)
(* its failure handler was refused before it filed the receipt, no planner   *)
(* reclaims an ended request and claim passes no reserved desktop on.        *)
LeftReserved == lease.inflight # None /\ status[lease.job] \in Terminal
RequestsAreServed ==
    \A j \in Job : \/ status[j] = "queued" ~> status[j] # "queued" \/ employee.state = "paused"
                  \/ <>[]LeftReserved

(* A running request comes to an end, whatever staff, assistant and planner  *)
(* crashes do to it, unless its employee stops.                              *)
RequestsEnd ==
    \A j \in Job : status[j] = "running" ~> status[j] \in Terminal \/ employee.state = "paused"

(* What is put in flight is settled.                                         *)
InFlightSettles == lease.inflight # None ~> lease.inflight = None
=============================================================================
