------------------------------- MODULE ServerStore -------------------------------
(***************************************************************************)
(* The tables of the central server that decide who may act on one         *)
(* desktop: the jobs, the desktop lease, the operation approvals, the      *)
(* receipts (invocations), the handoff notes and the digital employee that *)
(* owns the desktop.                                                       *)
(*                                                                         *)
(* Every operator that primes a variable is ONE transaction of the store   *)
(* (`with self.db()`: BEGIN IMMEDIATE ... COMMIT); the module Desktop      *)
(* composes them with the processes that call them.  A wall-clock deadline *)
(* is the fact that it has passed: lease.expired, overdue.                 *)
(*                                                                         *)
(* An approval is kept while it can still act (authorized, executing).  A  *)
(* row that is executed or stale refuses everything, as a closed one does. *)
(* An execution grant is held by nobody but the call that asked for it and *)
(* is worth no more than the conditions begin_action checks again.         *)
(***************************************************************************)
EXTENDS Naturals, FiniteSets

CONSTANTS
    Job,          \* requests
    Op,           \* invocation suffixes: an invocation is "<job>:<suffix>"
    Window,       \* the suffix of a window-recovery invocation
    None,         \* no job, no controller, nothing in flight
    MaxApprovals, \* bound: approvals that can act at the same time
    MaxRevision   \* bound: changes of the employee's authority

ASSUME WindowAssumption == Window \notin Op
ASSUME NoneAssumption ==
    /\ None \notin Job
    /\ None \notin {"script", "assistant", "staff"}
    /\ None \notin Job \X (Op \cup {Window})
ASSUME BoundAssumption ==
    /\ MaxApprovals \in Nat
    /\ MaxRevision \in Nat

VARIABLES
    status,    \* jobs.status; "resolved" is a request between resolve and create_job
    overdue,   \* jobs whose execution time budget has passed
    lease,     \* the row of desktop_leases
    approvals, \* the approvals that can still act
    receipts,  \* invocations with a cached result
    handoff,   \* kv "handoff:<job>": the controller to give control back to
    employee   \* the employees row: its state and authority revision

storeVars == <<status, overdue, lease, approvals, receipts, handoff, employee>>

Controller == {"script", "assistant", "staff"}
Invocation == Job \X (Op \cup {Window})
ApprovalId == 1..MaxApprovals
Terminal   == {"completed", "cancelled", "failed"}   \* denied, rejected: as failed
Status     == {"absent", "resolved", "queued", "running"} \cup Terminal

Lease == [job: Job \cup {None}, owner: Controller \cup {None}, worker: Nat, epoch: Nat,
          expired: BOOLEAN, inflight: Invocation \cup {None}]

Approval == [status: {"closed", "authorized", "executing"},
             inv: Invocation \cup {None}, epoch: Nat, revision: Nat]
Closed   == [status |-> "closed", inv |-> None, epoch |-> 0, revision |-> 0]

StoreTypeOK ==
    /\ status \in [Job -> Status]
    /\ overdue \subseteq Job
    /\ lease \in Lease
    /\ approvals \in [ApprovalId -> Approval]
    /\ receipts \subseteq Invocation
    /\ handoff \in [Job -> Controller \cup {None}]
    /\ employee \in [state: {"active", "paused"}, revision: Nat]

StoreInit ==
    /\ status = [j \in Job |-> "absent"]
    /\ overdue = {}
    /\ lease = [job |-> None, owner |-> None, worker |-> 0, epoch |-> 0,
                expired |-> TRUE, inflight |-> None]
    /\ approvals = [a \in ApprovalId |-> Closed]
    /\ receipts = {}
    /\ handoff = [j \in Job |-> None]
    /\ employee = [state |-> "active", revision |-> 1]

-----------------------------------------------------------------------------
(* Conditions shared by the transactions *)

Live(j) == status[j] \in {"queued", "running"}

\* The preludes of a worker RPC: the desktop is still on this job and, unless
\* the call only files a receipt, the employee is active.
AssignedReceipt(j) == lease.job = j
Assigned(j)        == AssignedReceipt(j) /\ employee.state = "active"

\* _check: what raises Stopped, then what raises Stale.
StoppedWithoutBudget(j) == status[j] \in Terminal   \* mutant: no time budget
Stopped(j)     == status[j] \in Terminal \/ j \in overdue
Holds(j, o, e) == /\ lease.job = j
                  /\ lease.owner = o
                  /\ lease.epoch = e
                  /\ ~lease.expired
Check(j, o, e) == Assigned(j) /\ ~Stopped(j) /\ Holds(j, o, e)

\* The exception a refused call surfaces as: PermissionError and Stopped end
\* the request, Stale makes its planner start over from current authority.
Refusal(j) == IF ~Assigned(j) \/ Stopped(j) THEN "stopped" ELSE "stale"

\* _invalidate: authorizations not yet begun go stale, executing ones stay.
Invalidated(js) ==
    [a \in ApprovalId |->
        IF approvals[a].status = "authorized" /\ approvals[a].inv[1] \in js
        THEN Closed
        ELSE approvals[a]]

AuthorizedOnly(inv) ==   \* mutant: an executing approval is not a standing one
    {a \in ApprovalId : approvals[a].inv = inv /\ approvals[a].status = "authorized"}
Standing(inv)    == {a \in ApprovalId : approvals[a].inv = inv}
FreshApproval(a) == /\ approvals[a] = Closed
                    /\ \A b \in 1..(a - 1) : approvals[b] # Closed

-----------------------------------------------------------------------------
(* Requests *)

\* send_chat: workforce.resolve finds an active employee ...
Resolve(j) ==
    /\ status[j] = "absent"
    /\ employee.state = "active"
    /\ status' = [status EXCEPT ![j] = "resolved"]
    /\ UNCHANGED <<overdue, lease, approvals, receipts, handoff, employee>>

\* ... and create_job, a later transaction, queues the request.
CreateJob(j) ==
    /\ status[j] = "resolved"
    /\ status' = [status EXCEPT ![j] = "queued"]
    /\ UNCHANGED <<overdue, lease, approvals, receipts, handoff, employee>>

\* Mutant: a request that has ended can be stopped again.
EndAgain(j, s) ==
    /\ status' = [status EXCEPT ![j] = s]
    /\ approvals' = Invalidated({j})
    /\ UNCHANGED <<overdue, lease, receipts, handoff, employee>>

\* stop, and update_job with a terminal status.
End(j, s) ==
    /\ Live(j)
    /\ status' = [status EXCEPT ![j] = s]
    /\ approvals' = Invalidated({j})
    /\ UNCHANGED <<overdue, lease, receipts, handoff, employee>>

\* Conversation.message: guidance makes queued proposals stale.
Message(j) ==
    /\ Live(j)
    /\ approvals' = Invalidated({j})
    /\ UNCHANGED <<status, overdue, lease, receipts, handoff, employee>>

-----------------------------------------------------------------------------
(* claim and transfer: who controls the desktop *)

\* Mutant: reacquiring the desktop keeps its epoch.
ReclaimSameEpoch(w, j) ==
    /\ lease.job = j
    /\ Live(j)
    /\ employee.state = "active"
    /\ lease.worker = w \/ lease.expired
    /\ lease' = [lease EXCEPT !.worker = w, !.expired = FALSE,
                              !.inflight = IF lease.worker = w THEN @ ELSE None]
    /\ UNCHANGED <<status, overdue, approvals, receipts, handoff, employee>>

\* Another worker process may take over only an expired lease; the same
\* process renews its own.  Reacquiring forgets what was in flight.
Reclaim(w, j) ==
    /\ lease.job = j
    /\ Live(j)
    /\ employee.state = "active"
    /\ \/ /\ lease.worker = w
          /\ lease' = [lease EXCEPT !.expired = FALSE]
          /\ UNCHANGED approvals
       \/ /\ lease.worker # w
          /\ lease.expired
          /\ lease' = [lease EXCEPT !.worker = w, !.epoch = @ + 1,
                                    !.expired = FALSE, !.inflight = None]
          /\ approvals' = Invalidated({j})
    /\ UNCHANGED <<status, overdue, receipts, handoff, employee>>

\* Mutant: new work does not wait for the receipt of the old.
ClaimInFlight(w, j) ==
    /\ employee.state = "active"
    /\ lease.job # None => status[lease.job] \in Terminal
    /\ status[j] = "queued"
    /\ status' = [status EXCEPT ![j] = "running"]
    /\ lease' = [job |-> j, owner |-> "script", worker |-> w, epoch |-> lease.epoch + 1,
                 expired |-> FALSE, inflight |-> None]
    /\ UNCHANGED <<overdue, approvals, receipts, handoff, employee>>

\* Mutant: a desktop never leaves its first request.
ClaimOnce(w, j) == lease.job = None /\ ClaimInFlight(w, j)

ClaimNew(w, j) ==
    /\ employee.state = "active"
    /\ lease.job # None => status[lease.job] \in Terminal /\ lease.inflight = None
    /\ status[j] = "queued"
    /\ status' = [status EXCEPT ![j] = "running"]
    /\ lease' = [job |-> j, owner |-> "script", worker |-> w, epoch |-> lease.epoch + 1,
                 expired |-> FALSE, inflight |-> None]
    /\ UNCHANGED <<overdue, approvals, receipts, handoff, employee>>

\* Mutant: a handoff does not wait for the operation in flight.
MayInterrupt(j, e) == Live(j) /\ lease.job = j /\ lease.epoch = e

MayTransfer(j, e) ==
    /\ Live(j)
    /\ lease.job = j
    /\ lease.epoch = e
    /\ lease.inflight = None

\* Mutants: a transfer that forgets one of its effects.
TransferKeepsAuthority(j, o, e) ==
    /\ MayTransfer(j, e)
    /\ lease' = [lease EXCEPT !.owner = o, !.epoch = @ + 1, !.expired = FALSE]
    /\ UNCHANGED <<status, overdue, approvals, receipts, handoff, employee>>
TransferKeepsEpoch(j, o, e) ==
    /\ MayTransfer(j, e)
    /\ lease' = [lease EXCEPT !.owner = o, !.expired = FALSE]
    /\ approvals' = Invalidated({j})
    /\ UNCHANGED <<status, overdue, receipts, handoff, employee>>

Transfer(j, o, e) ==
    /\ MayTransfer(j, e)
    /\ lease' = [lease EXCEPT !.owner = o, !.epoch = @ + 1, !.expired = FALSE]
    /\ approvals' = Invalidated({j})
    /\ UNCHANGED <<status, overdue, receipts, handoff, employee>>

\* Mutant: the key is stored as the value.
NoteJob(j, o) ==
    /\ handoff' = [handoff EXCEPT ![j] = j]
    /\ UNCHANGED <<status, overdue, lease, approvals, receipts, employee>>

\* takeover, its second transaction: put_value("handoff:<job>", owner).
NoteHandoff(j, o) ==
    /\ handoff' = [handoff EXCEPT ![j] = o]
    /\ UNCHANGED <<status, overdue, lease, approvals, receipts, employee>>

-----------------------------------------------------------------------------
(* One business operation *)

MayAuthorize(j, e) == Check(j, lease.owner, e) /\ lease.owner # "staff"

\* authorize_operation returns the invocation's standing approval if it has
\* one, else it records a new one.  a is the approval it answers with.
Authorize(j, inv, e, a) ==
    /\ MayAuthorize(j, e)
    /\ IF Standing(inv) # {}
       THEN /\ a \in Standing(inv)
            /\ UNCHANGED approvals
       ELSE /\ FreshApproval(a)
            /\ approvals' = [approvals EXCEPT ![a] =
                    [status |-> "authorized", inv |-> inv, epoch |-> e,
                     revision |-> employee.revision]]
    /\ UNCHANGED <<status, overdue, lease, receipts, handoff, employee>>

\* stale_approval: whatever the approval's status is.
StaleApproval(a) ==
    /\ approvals' = [approvals EXCEPT ![a] = Closed]
    /\ UNCHANGED <<status, overdue, lease, receipts, handoff, employee>>

\* ExecutionGrants.issue
MayIssue(j, o, e, inv, a) ==
    /\ Check(j, o, e)
    /\ approvals[a] = [status |-> "authorized", inv |-> inv, epoch |-> e,
                       revision |-> employee.revision]

MayBeginBeside(j, o, e, inv, a) == MayIssue(j, o, e, inv, a)   \* mutant: inflight not read

MayBegin(j, o, e, inv, a) ==
    /\ MayIssue(j, o, e, inv, a)
    /\ lease.inflight \in {None, inv}

\* begin_action, with the consumption of the grant.
BeginAction(j, o, e, inv, a) ==
    /\ MayBegin(j, o, e, inv, a)
    /\ approvals' = [approvals EXCEPT ![a].status = "executing"]
    /\ lease' = [lease EXCEPT !.inflight = inv]
    /\ UNCHANGED <<status, overdue, receipts, handoff, employee>>

MayFinish(inv, a) ==
    /\ AssignedReceipt(inv[1])
    /\ approvals[a].status = "executing"
    /\ approvals[a].inv = inv

\* Mutant: an error receipt leaves the reservation.
FinishKeepsError(inv, a, cache) ==
    /\ MayFinish(inv, a)
    /\ receipts' = IF cache THEN receipts \cup {inv} ELSE receipts
    /\ lease' = [lease EXCEPT !.inflight = IF cache /\ @ = inv THEN None ELSE @]
    /\ approvals' = [approvals EXCEPT ![a] = Closed]
    /\ UNCHANGED <<status, overdue, handoff, employee>>

\* finish_action files a receipt whatever became of the job; only a success
\* is cached.
FinishAction(inv, a, cache) ==
    /\ MayFinish(inv, a)
    /\ receipts' = IF cache THEN receipts \cup {inv} ELSE receipts
    /\ lease' = [lease EXCEPT !.inflight = IF @ = inv THEN None ELSE @]
    /\ approvals' = [approvals EXCEPT ![a] = Closed]
    /\ UNCHANGED <<status, overdue, handoff, employee>>

\* bind_record: the request's scope and the receipt of the operation in flight
\* are one commit.
BindRecord(j, a) ==
    /\ Check(j, "assistant", lease.epoch)
    /\ approvals[a].epoch = lease.epoch
    /\ lease.inflight = approvals[a].inv
    /\ FinishAction(approvals[a].inv, a, TRUE)

MayRecoverWindow(j, o, e) == Check(j, o, e) /\ o # "staff" /\ lease.inflight = None

BeginWindowRecovery(j, o, e) ==
    /\ MayRecoverWindow(j, o, e)
    /\ lease' = [lease EXCEPT !.inflight = <<j, Window>>]
    /\ UNCHANGED <<status, overdue, approvals, receipts, handoff, employee>>

FinishWindowRecovery(j) ==
    /\ AssignedReceipt(j)
    /\ lease.inflight = <<j, Window>>
    /\ lease' = [lease EXCEPT !.inflight = None]
    /\ UNCHANGED <<status, overdue, approvals, receipts, handoff, employee>>

-----------------------------------------------------------------------------
(* conclude: a check and a commit in separate transactions *)

Outstanding(j) == \E a \in ApprovalId : approvals[a] # Closed /\ approvals[a].inv[1] = j

-----------------------------------------------------------------------------
(* The employee *)

\* change: a supervisor sets the employee's state.  A change of state cancels
\* every job of the employee; anything but a pause waits for the operation.
ChangeEmployee(s) ==
    /\ employee.revision < MaxRevision
    /\ s = "paused" \/ lease.inflight = None
    /\ employee' = [state |-> s, revision |-> employee.revision + 1]
    /\ IF s # employee.state
       THEN /\ status' = [j \in Job |-> IF Live(j) THEN "cancelled" ELSE status[j]]
            /\ approvals' = Invalidated({j \in Job : Live(j)})
       ELSE UNCHANGED <<status, approvals>>
    /\ UNCHANGED <<overdue, lease, receipts, handoff>>

\* sync: the registered application scope changed.
ScopeChanged ==
    /\ employee.revision < MaxRevision
    /\ employee' = [state |-> "paused", revision |-> employee.revision + 1]
    /\ UNCHANGED <<status, overdue, lease, approvals, receipts, handoff>>

-----------------------------------------------------------------------------
(* Time *)

ExpireLease ==
    /\ lease.job # None
    /\ ~lease.expired
    /\ lease' = [lease EXCEPT !.expired = TRUE]
    /\ UNCHANGED <<status, overdue, approvals, receipts, handoff, employee>>

PassBudget(j) ==
    /\ status[j] = "running"
    /\ j \notin overdue
    /\ overdue' = overdue \cup {j}
    /\ UNCHANGED <<status, lease, approvals, receipts, handoff, employee>>
=============================================================================
