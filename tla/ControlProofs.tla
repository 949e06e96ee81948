------------------------------ MODULE ControlProofs ------------------------------
(* With planner processes that end only by themselves, Desktop implements    *)
(* DesktopControl and a completed request is quiet: nobody but the process   *)
(* that holds a live request ever claims its desktop, and a command that     *)
(* nobody waits for belongs to a request that is failing.                    *)
EXTENDS DesktopRefinement, DesktopProofs

NoPlannerCrash == "planner" \notin FaultKinds

\* A command waits for the lock or holds it.
Sent(c, inv) ==
    \/ \E r \in requests : r.caller = c /\ r.inv = inv
    \/ exec.pc # "idle" /\ exec.caller = c /\ exec.inv = inv

Started(j) == status[j] \in {"running"} \cup Terminal

AtWork == planner.pc \notin {"idle", "down"} => planner.job = lease.job

Owned ==
    /\ lease.job \in Job
    /\ status[lease.job] = "running"
    /\ employee.state = "active"
    => lease.worker = planner.nonce /\ planner.pc # "down"

Callers ==
    /\ planner.nonce # Nobody
    /\ \A c, inv : Sent(c, inv) =>
          /\ c \in {Nobody, planner.nonce}
          /\ c = planner.nonce => planner.pc = "waiting" /\ inv[1] = planner.job
          /\ inv \in Job \X Op
          /\ Started(inv[1])

\* A command nobody waits for: its planner is failing the request.
Orphans ==
    \A inv : Sent(Nobody, inv) =>
        \/ planner.pc \in {"failing", "reporting"} /\ planner.job = inv[1]
        \/ status[inv[1]] \in Terminal
        \/ employee.state # "active"

Concluding ==
    planner.pc = "concluding" /\ status[planner.job] = "running" =>
        /\ \A c, inv : Sent(c, inv) => inv[1] # planner.job
        /\ \A a \in ApprovalId : approvals[a].status = "executing" =>
              approvals[a].inv[1] # planner.job

QInv == AtWork /\ Owned /\ Callers /\ Orphans /\ Concluding /\ CompletedIsQuiet

-----------------------------------------------------------------------------
(* What a step does that neither completes a request nor sends a command *)

Gentle ==
    /\ \A j \in Job :
          /\ status[j] \in Terminal => status'[j] = status[j]
          /\ status[j] = "running" => status'[j] \in {"running"} \cup Terminal
          /\ status'[j] = "completed" => status[j] = "completed"
    /\ employee'.state = "active" =>
          employee.state = "active" \/ \A j \in Job : status[j] = "running" => status'[j] \in Terminal
    /\ \A a \in ApprovalId : approvals'[a].status = "executing" =>
          \/ approvals[a].status = "executing" /\ approvals'[a].inv = approvals[a].inv
          \/ /\ exec.pc # "idle"
             /\ approvals'[a].inv = exec.inv
             /\ status[exec.inv[1]] \notin Terminal

\* The planner waits while a command of its own is out, goes on failing until
\* the request has ended or stopped, and does not begin to conclude.
Orderly ==
    /\ planner'.nonce = planner.nonce
    /\ \A c, inv : Sent(c, inv)' => Sent(c, inv)
    /\ \A c, inv : c = planner.nonce /\ Sent(c, inv)' =>
          planner'.pc = "waiting" /\ planner'.job = planner.job
    /\ planner.pc \in {"failing", "reporting"} =>
          \/ planner'.pc \in {"failing", "reporting"} /\ planner'.job = planner.job
          \/ status'[planner.job] \in Terminal
          \/ employee'.state # "active"
    /\ planner'.pc = "concluding" => planner.pc = "concluding" /\ planner'.job = planner.job

LEMMA ExecIsSent ==
    ASSUME exec.pc # "idle"
    PROVE  Sent(exec.caller, exec.inv)
BY DEF Sent

LEMMA GentleKeeps ==
    ASSUME IInv, QInv, Gentle, Orderly, AtWork', Owned'
    PROVE  QInv'
<1> USE DEF QInv
<1>0. /\ planner.pc = "concluding" => planner.job \in Job /\ Started(planner.job)
      /\ exec.pc # "idle" => exec.inv[1] \in Job
  BY DEF IInv, EdgeInv, PlannerOK, AtWork, StoreInv, LeaseServesClaimed, Started, ExecInv, ExecBound
<1>1. Callers'
  BY DEF Callers, Orderly, Gentle, Started
<1>2. Orphans'
  <2> SUFFICES ASSUME NEW inv, Sent(Nobody, inv)'
               PROVE  \/ planner'.pc \in {"failing", "reporting"} /\ planner'.job = inv[1]
                      \/ status'[inv[1]] \in Terminal
                      \/ employee'.state # "active"
    BY DEF Orphans
  <2>1. Sent(Nobody, inv) BY DEF Orderly
  <2>2. inv[1] \in Job /\ Started(inv[1]) BY <2>1 DEF Callers
  <2> QED BY <2>1, <2>2 DEF Orphans, Orderly, Gentle, Started
<1>3. Concluding'
  <2> SUFFICES ASSUME planner'.pc = "concluding", status'[planner'.job] = "running"
               PROVE  /\ \A c, inv : Sent(c, inv)' => inv[1] # planner'.job
                      /\ \A a \in ApprovalId : approvals'[a].status = "executing" =>
                            approvals'[a].inv[1] # planner'.job
    BY DEF Concluding
  <2>1. planner.pc = "concluding" /\ planner'.job = planner.job BY DEF Orderly
  <2>2. status[planner.job] = "running"
    BY <1>0, <2>1 DEF Gentle, Started, Terminal
  <2>3. \A c, inv : Sent(c, inv)' => inv[1] # planner'.job
    BY <2>1, <2>2 DEF Concluding, Orderly
  <2>4. \A a \in ApprovalId : approvals'[a].status = "executing" =>
                            approvals'[a].inv[1] # planner'.job
    BY <2>1, <2>2, ExecIsSent DEF Concluding, Gentle
  <2> QED BY <2>3, <2>4
<1>4. CompletedIsQuiet'
  <2> SUFFICES ASSUME NEW a \in ApprovalId, approvals'[a].status = "executing",
                      status'[approvals'[a].inv[1]] = "completed"
               PROVE  FALSE
    BY DEF CompletedIsQuiet
  <2>1. CASE approvals[a].status = "executing" /\ approvals'[a].inv = approvals[a].inv
    <3>1. approvals[a].inv[1] \in Job
      BY <2>1, ApprovalFacts DEF IInv, StoreInv, ApprovalShape
    <3> QED BY <2>1, <3>1 DEF CompletedIsQuiet, Gentle
  <2>2. CASE /\ exec.pc # "idle"
             /\ approvals'[a].inv = exec.inv
             /\ status[exec.inv[1]] \notin Terminal
    BY <1>0, <2>2 DEF Gentle, Terminal
  <2> QED BY <2>1, <2>2 DEF Gentle
<1> QED BY <1>1, <1>2, <1>3, <1>4

\* The lease stays with its request and worker.
LEMMA OwnedKept ==
    ASSUME IInv, QInv, Gentle, planner'.nonce = planner.nonce,
           lease'.job = lease.job, lease'.worker = lease.worker,
           planner'.pc = "down" =>
              planner.pc = "down" \/ employee'.state # "active" \/ status'[lease.job] # "running"
    PROVE  Owned'
<1>1. lease.job \in Job => Started(lease.job)
  BY DEF IInv, StoreInv, LeaseServesClaimed, Started
<1> QED BY <1>1 DEF QInv, Owned, Gentle, Started, Terminal

-----------------------------------------------------------------------------
(* The transactions *)

Harmless ==
    \/ UNCHANGED storeVars
    \/ \E j \in Job :
          Resolve(j) \/ CreateJob(j) \/ Message(j) \/ PassBudget(j) \/ FinishWindowRecovery(j)
    \/ \E j \in Job, s \in {"cancelled", "failed"} : End(j, s)
    \/ \E j \in Job, w \in Nat : w = planner.nonce /\ (Reclaim(w, j) \/ ClaimNew(w, j))
    \/ \E j \in Job, o \in Controller, e \in Nat : Transfer(j, o, e)
    \/ \E j \in Job, o \in Controller \cup {None} : NoteHandoff(j, o)
    \/ \E inv \in Job \X Op, e \in Nat, a \in ApprovalId : Authorize(inv[1], inv, e, a)
    \/ \E a \in ApprovalId : StaleApproval(a)
    \/ \E inv \in Job \X Op, a \in ApprovalId, cache \in BOOLEAN : FinishAction(inv, a, cache)
    \/ \E j \in Job, o \in Controller, e \in Nat : BeginWindowRecovery(j, o, e)
    \/ \E s \in {"active", "paused"} : ChangeEmployee(s)
    \/ ScopeChanged
    \/ ExpireLease

LEMMA HarmlessIsGentle ==
    ASSUME IInv, Harmless
    PROVE  Gentle
<1>0. /\ StoreInv /\ StoreTypeOK /\ status \in [Job -> Status]
      /\ approvals \in [ApprovalId -> Approval]
      /\ employee.state \in {"active", "paused"}
  BY DEF IInv, StoreInv, StoreTypeOK
<1>1. \A j \in Job : status[j] \in Terminal => status'[j] = status[j]
  <2>1. Transaction BY DEF Harmless, Transaction, Terminal, Controller
  <2> QED BY <1>0, <2>1, TransactionRevivesNothing
<1>2. \A j \in Job : /\ status[j] = "running" => status'[j] \in {"running"} \cup Terminal
                     /\ status'[j] = "completed" => status[j] = "completed"
  <2>1. CASE \/ \E j \in Job : Resolve(j) \/ CreateJob(j)
             \/ \E j \in Job, s \in {"cancelled", "failed"} : End(j, s)
             \/ \E j \in Job, w \in Nat : ClaimNew(w, j)
    BY <1>0, <2>1 DEF Resolve, CreateJob, End, ClaimNew, Terminal
  <2>2. CASE \E s \in {"active", "paused"} : ChangeEmployee(s)
    BY <1>0, <2>2 DEF ChangeEmployee, Terminal
  <2>3. CASE UNCHANGED status BY <2>3
  <2> QED
    BY <2>1, <2>2, <2>3 DEF Harmless, storeVars, Message, PassBudget, FinishWindowRecovery,
        Reclaim, Transfer, NoteHandoff, Authorize, StaleApproval, FinishAction,
        BeginWindowRecovery, ScopeChanged, ExpireLease
<1>3. employee'.state = "active" =>
          employee.state = "active" \/ \A j \in Job : status[j] = "running" => status'[j] \in Terminal
  <2>1. CASE \E s \in {"active", "paused"} : ChangeEmployee(s)
    BY <1>0, <2>1 DEF ChangeEmployee, Live, Terminal
  <2>2. CASE ScopeChanged BY <2>2 DEF ScopeChanged
  <2>3. CASE UNCHANGED employee BY <2>3
  <2> QED
    BY <2>1, <2>2, <2>3 DEF Harmless, storeVars, Resolve, CreateJob, End, Message, PassBudget,
        FinishWindowRecovery, Reclaim, ClaimNew, Transfer, NoteHandoff, Authorize,
        StaleApproval, FinishAction, BeginWindowRecovery, ExpireLease
<1>4. \A a \in ApprovalId : approvals'[a].status = "executing" =>
          approvals[a].status = "executing" /\ approvals'[a].inv = approvals[a].inv
  <2>1. CASE \E js : approvals' = Invalidated(js)
    BY <1>0, <2>1, InvalidatedFacts, ApprovalFacts
  <2>2. CASE \E inv \in Job \X Op, e \in Nat, a \in ApprovalId : Authorize(inv[1], inv, e, a)
    BY <1>0, <2>2 DEF Authorize
  <2>3. CASE \/ \E a \in ApprovalId : StaleApproval(a)
             \/ \E inv \in Job \X Op, a \in ApprovalId, cache \in BOOLEAN :
                   FinishAction(inv, a, cache)
    BY <1>0, <2>3, ApprovalFacts DEF StaleApproval, FinishAction
  <2>4. CASE UNCHANGED approvals BY <2>4
  <2> QED
    BY <2>1, <2>2, <2>3, <2>4 DEF Harmless, storeVars, Resolve, CreateJob, End, Message,
        PassBudget, FinishWindowRecovery, Reclaim, ClaimNew, Transfer, NoteHandoff,
        BeginWindowRecovery, ChangeEmployee, ScopeChanged, ExpireLease
<1> QED BY <1>1, <1>2, <1>3, <1>4 DEF Gentle

\* begin_action refuses a request that has ended.
LEMMA BeginIsGentle ==
    ASSUME IInv, exec.pc # "idle",
           BeginAction(exec.inv[1], exec.owner, exec.epoch, exec.inv, exec.approval)
    PROVE  Gentle
<1>1. /\ status[exec.inv[1]] \notin Terminal
      /\ approvals[exec.approval].inv = exec.inv
      /\ approvals' = [approvals EXCEPT ![exec.approval].status = "executing"]
      /\ UNCHANGED <<status, employee>>
  BY DEF BeginAction, MayBegin, MayIssue, Check, Stopped
<1>2. approvals \in [ApprovalId -> Approval] BY DEF IInv, StoreInv, StoreTypeOK
<1>3. \A a \in ApprovalId : approvals'[a].status = "executing" =>
          \/ approvals[a].status = "executing" /\ approvals'[a].inv = approvals[a].inv
          \/ approvals'[a].inv = exec.inv
  BY <1>1, <1>2 DEF Approval
<1> QED BY <1>1, <1>3 DEF Gentle
-----------------------------------------------------------------------------
(* The planner's actions *)

LEMMA PlannerFacts ==
    ASSUME IInv, QInv
    PROVE  /\ planner.pc \notin {"idle", "down"} =>
                 planner.job \in Job /\ planner.job = lease.job /\ Started(planner.job)
           /\ planner.pc # "waiting" => \A inv : ~Sent(planner.nonce, inv)
           /\ planner.nonce \in Nat /\ planner.epoch \in Nat
           /\ planner \in PlannerState
BY DEF IInv, EdgeInv, PlannerOK, PlannerState, QInv, AtWork, Callers, StoreInv,
   LeaseServesClaimed, Started

Moves(pc) ==
    /\ planner'.pc = pc
    /\ planner'.nonce = planner.nonce
    /\ pc \notin {"idle", "down"} => planner'.job = planner.job

LEMMA GoesMoves ==
    ASSUME IInv, NEW pc, PlannerGoes(pc)
    PROVE  Moves(pc)
BY DEF IInv, EdgeInv, PlannerOK, PlannerState, PlannerGoes, Moves

\* The planner moves between two calls and leaves its commands alone.
LEMMA MoveKeeps ==
    ASSUME IInv, QInv, Gentle, NEW pc, Moves(pc), UNCHANGED <<requests, exec>>,
           lease'.job = lease.job, lease'.worker = lease.worker,
           planner.pc \notin {"idle", "down", "waiting"},
           pc \notin {"concluding", "waiting"},
           planner.pc \in {"failing", "reporting"} =>
              \/ pc \in {"failing", "reporting"}
              \/ status'[planner.job] \in Terminal
              \/ employee'.state # "active",
           pc = "down" => employee'.state # "active" \/ status'[planner.job] # "running"
    PROVE  QInv'
<1>0. /\ planner.job = lease.job
      /\ \A inv : ~Sent(planner.nonce, inv)
      /\ planner'.pc = pc /\ planner'.nonce = planner.nonce
      /\ pc \notin {"idle", "down"} => planner'.job = planner.job
  BY PlannerFacts DEF Moves
<1>1. \A c, inv : Sent(c, inv)' <=> Sent(c, inv)
  BY DEF Sent
<1>2. Orderly BY <1>0, <1>1 DEF Orderly
<1>3. AtWork' BY <1>0 DEF AtWork
<1>4. Owned' BY <1>0, OwnedKept
<1> QED BY <1>2, <1>3, <1>4, GentleKeeps

\* Only its own process reclaims the desktop of a live request.
LEMMA ReclaimIsOwn ==
    ASSUME IInv, QInv, NEW j \in Job, Reclaim(planner.nonce, j)
    PROVE  /\ lease.worker = planner.nonce
           /\ lease' = [lease EXCEPT !.expired = FALSE]
           /\ lease'.job = lease.job /\ lease'.owner = lease.owner
           /\ lease'.worker = lease.worker /\ lease'.inflight = lease.inflight
           /\ UNCHANGED approvals
<1>1. lease.job \in Job /\ status[lease.job] = "running" /\ employee.state = "active"
  BY DEF Reclaim, Live, IInv, StoreInv, LeaseServesClaimed, Terminal
<1>2. lease.worker = planner.nonce BY <1>1 DEF QInv, Owned
<1>3. lease \in Lease BY DEF IInv, StoreInv, StoreTypeOK
<1> QED BY <1>2, <1>3 DEF Reclaim, Lease

LEMMA ClaimKeeps ==
    ASSUME IInv, QInv, NEW j \in Job, Claim(j)
    PROVE  QInv'
<1>0. /\ planner.nonce \in Nat /\ planner.pc = "idle"
      /\ \A inv : ~Sent(planner.nonce, inv)
      /\ planner'.pc = "claimed" /\ planner'.nonce = planner.nonce /\ planner'.job = j
      /\ UNCHANGED <<requests, exec>>
  BY PlannerFacts DEF Claim, PlannerAt, PlannerState
<1>1. Gentle BY <1>0, HarmlessIsGentle DEF Harmless, Claim
<1>2. \A c, inv : Sent(c, inv)' <=> Sent(c, inv)
  BY <1>0 DEF Sent
<1>3. Orderly BY <1>0, <1>2 DEF Orderly
<1>4. CASE Reclaim(planner.nonce, j)
  <2>1. lease'.job = lease.job /\ lease'.worker = lease.worker /\ lease.job = j
    BY <1>4, ReclaimIsOwn DEF Reclaim
  <2>2. AtWork' BY <1>0, <2>1 DEF AtWork
  <2>3. Owned' BY <1>0, <1>1, <2>1, OwnedKept
  <2> QED BY <1>1, <1>3, <2>2, <2>3, GentleKeeps
<1>5. CASE ClaimNew(planner.nonce, j)
  <2>1. lease'.job = j /\ lease'.worker = planner.nonce BY <1>5 DEF ClaimNew
  <2>2. AtWork' /\ Owned' BY <1>0, <2>1 DEF AtWork, Owned
  <2> QED BY <1>1, <1>3, <2>2, GentleKeeps
<1> QED BY <1>4, <1>5 DEF Claim

\* Those actions that move the planner between two calls.
LEMMA TickKeeps ==
    ASSUME IInv, QInv,
           Look \/ AssistantTakesOver \/ (\E pc \in {"idle", "failing"} : EndTick(pc))
           \/ FailRead \/ FailWrite
    PROVE  QInv'
<1> USE PlannerFacts, GoesMoves
<1>1. ASSUME UNCHANGED storeVars PROVE /\ Gentle
                                       /\ lease' = lease /\ status' = status /\ employee' = employee
  BY <1>1, HarmlessIsGentle DEF Harmless, storeVars
<1>2. CASE Look
  <2>1. CASE Moves("ticking") \/ \E pc \in {"failing", "idle", "assisting"} : Moves(pc)
    BY <1>1, <1>2, <2>1, MoveKeeps DEF Look, PlannerAt
  <2>2. CASE planner' = [planner EXCEPT !.pc = "ticking", !.epoch = lease.epoch]
    <3>1. Moves("ticking") BY <2>2 DEF Moves, PlannerState
    <3> QED BY <2>1, <3>1
  <2> QED BY <1>2, <2>1, <2>2 DEF Look, OnRefusal
<1>3. CASE AssistantTakesOver
  <2>1. /\ planner.pc = "ticking" /\ UNCHANGED <<requests, exec>>
        /\ \E pc \in {"assisting", "idle", "failing"} : Moves(pc)
    BY <1>3 DEF AssistantTakesOver, PlannerAt, OnRefusedTransfer
  <2>2. CASE UNCHANGED storeVars BY <1>1, <2>1, <2>2, MoveKeeps
  <2>3. CASE Transfer(planner.job, "assistant", planner.epoch)
    <3>1. Gentle BY <2>1, <2>3, HarmlessIsGentle DEF Harmless, Controller
    <3>2. lease'.job = lease.job /\ lease'.worker = lease.worker
      BY <2>3 DEF Transfer, IInv, StoreInv, StoreTypeOK, Lease
    <3> QED BY <2>1, <3>1, <3>2, MoveKeeps
  <2> QED BY <1>3, <2>2, <2>3 DEF AssistantTakesOver
<1>4. CASE \E pc \in {"idle", "failing"} : EndTick(pc)
  BY <1>1, <1>4, MoveKeeps DEF EndTick, PlannerAt
<1>5. CASE FailRead
  <2>0. /\ planner.pc = "failing" /\ planner.job \in Job /\ planner.job = lease.job
        /\ UNCHANGED <<storeVars, requests, exec>>
    BY <1>5 DEF FailRead, PlannerAt
  <2>1. CASE Assigned(planner.job) /\ Live(planner.job)
    <3>1. Moves("reporting") BY <1>5, <2>1 DEF FailRead
    <3> QED BY <1>1, <2>0, <3>1, MoveKeeps
  <2>2. CASE Assigned(planner.job) /\ ~Live(planner.job)
    <3>1. Moves("idle") /\ status[planner.job] \in Terminal
      BY <1>5, <2>0, <2>2 DEF FailRead, Live, Started
    <3> QED BY <1>1, <2>0, <3>1, MoveKeeps
  <2>3. CASE ~Assigned(planner.job)
    <3>1. employee.state # "active" BY <2>0, <2>3 DEF Assigned, AssignedReceipt
    <3>2. \E pc \in {"idle", "down"} : Moves(pc) BY <1>5, <2>3 DEF FailRead
    <3> QED BY <1>1, <2>0, <3>1, <3>2, MoveKeeps
  <2> QED BY <2>1, <2>2, <2>3
<1>6. CASE FailWrite
  <2>0. /\ planner.pc = "reporting" /\ planner.job \in Job /\ planner.job = lease.job
        /\ UNCHANGED <<requests, exec>>
    BY <1>6 DEF FailWrite, PlannerAt
  <2>1. CASE Assigned(planner.job) /\ Live(planner.job)
    <3>1. End(planner.job, "failed") /\ Moves("idle") BY <1>6, <2>1 DEF FailWrite
    <3>2. Gentle /\ lease' = lease BY <2>0, <3>1, HarmlessIsGentle DEF Harmless, End
    <3>3. status'[planner.job] \in Terminal
      BY <2>0, <3>1 DEF End, Terminal, IInv, StoreInv, StoreTypeOK
    <3> QED BY <2>0, <3>1, <3>2, <3>3, MoveKeeps
  <2>2. CASE ~(Assigned(planner.job) /\ Live(planner.job))
    <3>1. UNCHANGED storeVars /\ Moves("down") BY <1>6, <2>2 DEF FailWrite
    <3>2. employee.state # "active" \/ status[planner.job] \in Terminal
      BY <2>0, <2>2 DEF Assigned, AssignedReceipt, Live, Started
    <3>3. employee.state # "active" \/ status[planner.job] # "running"
      BY <3>2 DEF Terminal
    <3> QED BY <1>1, <2>0, <3>1, <3>2, <3>3, MoveKeeps
  <2> QED BY <2>1, <2>2
<1> QED BY <1>2, <1>3, <1>4, <1>5, <1>6

\* A new command belongs to the planner that waits for it.
LEMMA CallKeeps ==
    ASSUME IInv, QInv, NEW op \in Op, NEW kind \in {"tool", "node"}, Call(op, kind)
    PROVE  QInv'
<1> DEFINE inv == <<planner.job, op>>
<1>0. /\ planner.pc \in {"assisting", "waiting"}
      /\ planner.job \in Job /\ planner.job = lease.job /\ Started(planner.job)
      /\ Moves("waiting") /\ planner'.job = planner.job
      /\ UNCHANGED <<storeVars, exec>>
  BY PlannerFacts, GoesMoves DEF Call, Moves
<1>1. \A c, i : Sent(c, i)' => Sent(c, i) \/ (c = planner.nonce /\ i = inv)
  BY <1>0 DEF Sent, Call
<1>2. inv \in Job \X Op /\ inv[1] = planner.job BY <1>0
<1>3. AtWork' BY <1>0 DEF Moves, AtWork, storeVars
<1>4. Owned' BY <1>0 DEF QInv, Owned, Moves, storeVars
<1>5. Callers'
  <2>1. planner'.nonce = planner.nonce /\ planner'.pc = "waiting" BY <1>0 DEF Moves
  <2>2. \A i : Started(i[1])' <=> Started(i[1]) BY <1>0 DEF Started, storeVars
  <2> QED BY <1>0, <1>1, <1>2, <2>1, <2>2 DEF QInv, Callers
<1>6. Orphans'
  <2>1. planner.nonce # Nobody BY DEF QInv, Callers
  <2> QED BY <1>0, <1>1, <2>1 DEF QInv, Orphans, storeVars
<1>7. Concluding' BY <1>0 DEF Concluding, Moves
<1>8. CompletedIsQuiet' BY <1>0 DEF QInv, CompletedIsQuiet, storeVars
<1> QED BY <1>3, <1>4, <1>5, <1>6, <1>7, <1>8 DEF QInv

\* A planner that gives up a command fails its request.
LEMMA TimeOutKeeps ==
    ASSUME IInv, QInv, TimeOut
    PROVE  QInv'
<1>0. /\ planner.pc = "waiting"
      /\ planner.job \in Job /\ planner.job = lease.job
      /\ Moves("failing") /\ planner'.job = planner.job
      /\ UNCHANGED storeVars
  BY PlannerFacts, GoesMoves DEF TimeOut, PlannerAt, Moves
<1>1. \A c, inv : Sent(c, inv)' =>
          c = Nobody /\ (Sent(Nobody, inv) \/ Sent(planner.nonce, inv))
  <2> SUFFICES ASSUME NEW c, NEW inv, Sent(c, inv)'
               PROVE  c = Nobody /\ (Sent(Nobody, inv) \/ Sent(planner.nonce, inv))
    OBVIOUS
  <2>1. \A r \in requests : Sent(r.caller, r.inv) BY DEF Sent
  <2>2. exec.pc # "idle" => Sent(exec.caller, exec.inv) BY DEF Sent
  <2>3. \A d, i : Sent(d, i) => d \in {Nobody, planner.nonce} BY DEF QInv, Callers
  <2>4. CASE \E r \in requests' : r.caller = c /\ r.inv = inv
    <3>1. PICK r \in requests : Forget(r).caller = c /\ Forget(r).inv = inv
      BY <2>4 DEF TimeOut
    <3>2. Forget(r).inv = r.inv /\ (r.caller = planner.nonce => Forget(r).caller = Nobody)
          /\ (r.caller # planner.nonce => Forget(r).caller = r.caller)
      BY DEF Forget, IInv, EdgeInv, EdgeTypeOK, Command
    <3> QED BY <2>1, <2>3, <3>1, <3>2
  <2>5. CASE exec'.pc # "idle" /\ exec'.caller = c /\ exec'.inv = inv
    <3>1. /\ Forget(exec).inv = exec.inv /\ Forget(exec).pc = exec.pc
          /\ exec.caller = planner.nonce => Forget(exec).caller = Nobody
          /\ exec.caller # planner.nonce => Forget(exec).caller = exec.caller
      BY DEF Forget, IInv, EdgeInv, EdgeTypeOK, ExecState
    <3> QED BY <2>2, <2>3, <2>5, <3>1 DEF TimeOut
  <2> QED BY <2>4, <2>5 DEF Sent
<1>2. planner'.nonce = planner.nonce /\ planner'.pc = "failing" BY <1>0 DEF Moves
<1>3. AtWork' BY <1>0 DEF AtWork, storeVars
<1>4. Owned' BY <1>0, <1>2 DEF QInv, Owned, storeVars
<1>5. Callers'
  <2>1. \A i : Started(i[1])' <=> Started(i[1]) BY <1>0 DEF Started, storeVars
  <2> QED BY <1>1, <1>2, <2>1 DEF QInv, Callers
<1>6. Orphans'
  <2>1. \A inv : Sent(planner.nonce, inv) => inv[1] = planner.job BY DEF QInv, Callers
  <2> QED BY <1>0, <1>1, <1>2, <2>1 DEF QInv, Orphans, storeVars
<1>7. Concluding' BY <1>2 DEF Concluding
<1>8. CompletedIsQuiet' BY <1>0 DEF QInv, CompletedIsQuiet, storeVars
<1> QED BY <1>3, <1>4, <1>5, <1>6, <1>7, <1>8 DEF QInv

\* conclude finds nothing outstanding, and no command that could begin later.
LEMMA ConcludeCheckKeeps ==
    ASSUME IInv, QInv, ConcludeCheck
    PROVE  QInv'
<1>0. /\ planner.pc = "assisting"
      /\ planner.job \in Job /\ planner.job = lease.job
      /\ \A inv : ~Sent(planner.nonce, inv)
      /\ UNCHANGED <<storeVars, requests, exec>>
  BY PlannerFacts DEF ConcludeCheck, PlannerAt
<1>1. Gentle /\ lease' = lease BY <1>0, HarmlessIsGentle DEF Harmless, storeVars
<1>2. CASE Moves("failing") \/ Moves("idle")
  BY <1>0, <1>1, <1>2, MoveKeeps
<1>3. CASE Moves("concluding") /\ Assigned(planner.job) /\ ~Outstanding(planner.job)
  <2>1. /\ planner'.pc = "concluding" /\ planner'.job = planner.job
        /\ planner'.nonce = planner.nonce
    BY <1>3 DEF Moves
  <2>2. \A c, inv : Sent(c, inv)' <=> Sent(c, inv) BY <1>0 DEF Sent
  <2>3. AtWork' /\ Owned' BY <1>0, <2>1 DEF AtWork, QInv, Owned, storeVars
  <2>4. Callers'
    <3>1. \A i : Started(i[1])' <=> Started(i[1]) BY <1>0 DEF Started, storeVars
    <3> QED BY <1>0, <2>1, <2>2, <3>1 DEF QInv, Callers
  <2>5. Orphans' BY <1>0, <2>1, <2>2 DEF QInv, Orphans, storeVars
  <2>6. Concluding'
    <3> SUFFICES ASSUME status[planner.job] = "running"
                 PROVE  /\ \A c, inv : Sent(c, inv) => inv[1] # planner.job
                        /\ \A a \in ApprovalId : approvals[a].status = "executing" =>
                              approvals[a].inv[1] # planner.job
      BY <1>0, <2>1, <2>2 DEF Concluding, storeVars
    <3>1. employee.state = "active" BY <1>3 DEF Assigned
    <3>2. ASSUME NEW c, NEW inv, Sent(c, inv), inv[1] = planner.job PROVE FALSE
      <4>1. c = Nobody BY <1>0, <3>2 DEF QInv, Callers
      <4> QED BY <1>0, <3>1, <3>2, <4>1 DEF QInv, Orphans, Terminal
    <3>3. \A a \in ApprovalId : approvals[a].status = "executing" =>
                              approvals[a].inv[1] # planner.job
      BY <1>3, ApprovalFacts DEF Outstanding
    <3> QED BY <3>2, <3>3
  <2>7. CompletedIsQuiet' BY <1>0 DEF QInv, CompletedIsQuiet, storeVars
  <2> QED BY <2>3, <2>4, <2>5, <2>6, <2>7 DEF QInv
<1>4. planner.pc \notin {"idle", "down"} BY <1>0
<1> QED BY <1>2, <1>3, GoesMoves DEF ConcludeCheck

\* Between check and commit nothing began, so that completion finds it quiet.
LEMMA ConcludeCommitKeeps ==
    ASSUME IInv, QInv, ConcludeCommit
    PROVE  QInv'
<1>0. /\ planner.pc = "concluding"
      /\ planner.job \in Job /\ planner.job = lease.job /\ Started(planner.job)
      /\ \A inv : ~Sent(planner.nonce, inv)
      /\ UNCHANGED <<requests, exec>>
  BY PlannerFacts DEF ConcludeCommit, PlannerAt
<1>1. CASE ~Live(planner.job)
  <2>1. UNCHANGED storeVars /\ Moves("failing") BY <1>1, GoesMoves DEF ConcludeCommit
  <2>2. Gentle /\ lease' = lease BY <2>1, HarmlessIsGentle DEF Harmless, storeVars
  <2> QED BY <1>0, <2>1, <2>2, MoveKeeps
<1>2. CASE Live(planner.job)
  <2>1. End(planner.job, "completed") /\ Moves("idle") BY <1>2, GoesMoves DEF ConcludeCommit
  <2>2. /\ planner'.pc = "idle" /\ planner'.nonce = planner.nonce
        /\ status[planner.job] = "running"
        /\ status \in [Job -> Status] /\ approvals \in [ApprovalId -> Approval]
    BY <1>0, <1>2, <2>1 DEF Moves, Live, Started, Terminal, IInv, StoreInv, StoreTypeOK
  <2>3. /\ status' = [status EXCEPT ![planner.job] = "completed"]
        /\ lease' = lease /\ employee' = employee
        /\ \A a \in ApprovalId : approvals'[a] \in {approvals[a], Closed}
    BY <2>1, InvalidatedFacts DEF End, IInv, StoreInv
  <2>4. \A c, inv : Sent(c, inv)' <=> Sent(c, inv) BY <1>0 DEF Sent
  <2>5. \A j \in Job : /\ Started(j) => Started(j)'
                       /\ status[j] \in Terminal => status'[j] \in Terminal
    BY <1>0, <2>2, <2>3 DEF Started, Terminal
  <2>6. AtWork' /\ Owned' BY <1>0, <2>2, <2>3 DEF AtWork, QInv, Owned
  <2>7. Callers' BY <1>0, <2>2, <2>4, <2>5 DEF QInv, Callers
  <2>8. Orphans'
    <3>1. \A inv : Sent(Nobody, inv) => inv[1] \in Job BY DEF QInv, Callers
    <3> QED BY <1>0, <2>3, <2>4, <2>5, <3>1 DEF QInv, Orphans
  <2>9. Concluding' BY <2>2 DEF Concluding
  <2>10. CompletedIsQuiet'
    <3> SUFFICES ASSUME NEW a \in ApprovalId, approvals'[a].status = "executing",
                        status'[approvals'[a].inv[1]] = "completed"
                 PROVE  FALSE
      BY DEF CompletedIsQuiet
    <3>1. approvals'[a] = approvals[a] BY <2>3, ApprovalFacts
    <3>2. approvals[a].inv[1] # planner.job BY <1>0, <2>2, <3>1 DEF QInv, Concluding
    <3>3. approvals[a].inv[1] \in Job
      BY <3>1, ApprovalFacts DEF IInv, StoreInv, ApprovalShape
    <3> QED BY <2>2, <2>3, <3>1, <3>2, <3>3 DEF QInv, CompletedIsQuiet
  <2> QED BY <2>6, <2>7, <2>8, <2>9, <2>10 DEF QInv
<1> QED BY <1>1, <1>2

LEMMA RestartKeeps ==
    ASSUME IInv, QInv, Restart
    PROVE  QInv'
<1>0. /\ planner.pc = "down" /\ planner.nonce \in Nat
      /\ planner'.pc = "idle" /\ planner'.nonce = planner.nonce + 1
      /\ \A inv : ~Sent(planner.nonce, inv)
      /\ UNCHANGED <<storeVars, requests, exec>>
  BY PlannerFacts DEF Restart, PlannerAt, Polling
<1>1. \A c, inv : Sent(c, inv)' <=> Sent(c, inv) BY <1>0 DEF Sent
<1>2. AtWork' BY <1>0 DEF AtWork
<1>3. Owned' BY <1>0 DEF QInv, Owned, storeVars
<1>4. Callers'
  <2>1. planner'.nonce # Nobody BY <1>0 DEF Nobody
  <2>2. \A i : Started(i[1])' <=> Started(i[1]) BY <1>0 DEF Started, storeVars
  <2>3. \A c, inv : Sent(c, inv) => c = Nobody BY <1>0 DEF QInv, Callers
  <2> QED BY <1>1, <2>1, <2>2, <2>3 DEF QInv, Callers
<1>5. Orphans' BY <1>0, <1>1 DEF QInv, Orphans, storeVars
<1>6. Concluding' BY <1>0 DEF Concluding
<1>7. CompletedIsQuiet' BY <1>0 DEF QInv, CompletedIsQuiet, storeVars
<1> QED BY <1>2, <1>3, <1>4, <1>5, <1>6, <1>7 DEF QInv

LEMMA PlannerKeepsQInv ==
    ASSUME IInv, QInv, PlannerNext
    PROVE  QInv'
BY ClaimKeeps, TickKeeps, CallKeeps, TimeOutKeeps, ConcludeCheckKeeps, ConcludeCommitKeeps,
   RestartKeeps DEF PlannerNext


-----------------------------------------------------------------------------
(* The executor, staff, supervisor, clock and faults *)

HolderStays == lease'.job = lease.job /\ lease'.worker = lease.worker

\* A step that the planner does not notice.
LEMMA UnnoticedKeeps ==
    ASSUME IInv, QInv, Gentle, HolderStays, UNCHANGED planner,
           \A c, inv : Sent(c, inv)' => Sent(c, inv)
    PROVE  QInv'
<1>1. Orderly BY DEF Orderly, QInv, Callers
<1>2. AtWork' BY DEF QInv, AtWork, HolderStays
<1>3. Owned' BY OwnedKept DEF HolderStays
<1> QED BY <1>1, <1>2, <1>3, GentleKeeps

\* A command is answered.
LEMMA ReplyKeeps ==
    ASSUME IInv, QInv, Gentle, HolderStays, NEW caller, NEW answer,
           requests' \subseteq requests, exec'.pc = "idle", Reply(caller, answer, requests')
    PROVE  QInv'
<1>0. \A c, inv : Sent(c, inv)' => Sent(c, inv) BY DEF Sent
<1>1. CASE UNCHANGED planner BY <1>0, <1>1, UnnoticedKeeps
<1>2. CASE /\ planner.pc = "waiting" /\ planner.nonce = caller
           /\ \E r \in requests' : r.caller = caller
           /\ \E v \in Verdict : planner' = [planner EXCEPT !.verdict = v]
  <2>1. planner'.pc = planner.pc /\ planner'.nonce = planner.nonce /\ planner'.job = planner.job
    BY <1>2, PlannerFacts DEF PlannerState
  <2>2. Orderly BY <1>0, <1>2, <2>1 DEF Orderly
  <2>3. AtWork' BY <2>1 DEF QInv, AtWork, HolderStays
  <2>4. Owned' BY <1>2, <2>1, OwnedKept DEF HolderStays
  <2> QED BY <2>2, <2>3, <2>4, GentleKeeps
<1>3. CASE /\ planner.pc = "waiting" /\ planner.nonce = caller
           /\ ~\E r \in requests' : r.caller = caller
           /\ \E v \in Verdict : PlannerGoes(v)
  <2>1. PICK v \in Verdict : Moves(v) BY <1>3, GoesMoves
  <2>2. /\ planner'.pc \in {"assisting", "idle", "failing"}
        /\ planner'.nonce = planner.nonce
        /\ planner'.pc # "idle" => planner'.job = planner.job
    BY <2>1 DEF Moves, Verdict
  <2>3. \A c, inv : c = planner.nonce => ~Sent(c, inv)' BY <1>3 DEF Sent
  <2>4. Orderly BY <1>0, <1>3, <2>2, <2>3 DEF Orderly
  <2>5. AtWork' BY <1>3, <2>2 DEF QInv, AtWork, HolderStays
  <2>6. Owned' BY <2>2, OwnedKept DEF HolderStays
  <2> QED BY <2>4, <2>5, <2>6, GentleKeeps
<1> QED BY <1>1, <1>2, <1>3 DEF Reply, PlannerAt

LEMMA HolderFacts ==
    ASSUME IInv
    PROVE  /\ UNCHANGED storeVars => HolderStays
           /\ \A j, o, e : Transfer(j, o, e) => HolderStays
           /\ \A j, o, e, inv, a : BeginAction(j, o, e, inv, a) => HolderStays
           /\ \A inv, a, cache : FinishAction(inv, a, cache) => HolderStays
           /\ \A j, o, e : BeginWindowRecovery(j, o, e) => HolderStays
           /\ \A j : FinishWindowRecovery(j) => HolderStays
           /\ ExpireLease => HolderStays
           /\ UNCHANGED lease => HolderStays
<1>1. lease \in Lease BY DEF IInv, StoreInv, StoreTypeOK
<1> QED
  BY <1>1 DEF HolderStays, storeVars, Transfer, BeginAction, FinishAction,
     BeginWindowRecovery, FinishWindowRecovery, ExpireLease, Lease

LEMMA ExecFacts ==
    ASSUME IInv
    PROVE  /\ exec.pc # "idle" =>
                 /\ exec.inv \in Job \X Op /\ exec.inv[1] \in Job
                 /\ exec.owner \in {"script", "assistant"} /\ exec.owner \in Controller
                 /\ exec.epoch \in Nat
           /\ exec.pc \in {"staling", "granted", "finishing", "closing"}
                 => exec.approval \in ApprovalId
           /\ exec \in ExecState
BY DEF IInv, EdgeInv, EdgeTypeOK, ExecInv, ExecBound, ExecApproval, ExecState, Controller, Operating

LEMMA ExecKeepsQInv ==
    ASSUME IInv, QInv, ExecNext
    PROVE  QInv'
<1> USE ExecFacts, HolderFacts
\* It is done, or it goes on with the same command.
<1>a. ASSUME Gentle, HolderStays, UNCHANGED requests, NEW answer, Finishes(answer) PROVE QInv'
  <2>1. exec'.pc = "idle" BY <1>a DEF Finishes, Idle
  <2> QED BY <1>a, <2>1, ReplyKeeps DEF Finishes
<1>b. ASSUME Gentle, HolderStays, UNCHANGED <<planner, requests>>, exec.pc # "idle",
             exec'.caller = exec.caller, exec'.inv = exec.inv
      PROVE  QInv'
  <2>1. \A c, inv : Sent(c, inv)' => Sent(c, inv) BY <1>b DEF Sent
  <2> QED BY <1>b, <2>1, UnnoticedKeeps
<1>c. UNCHANGED storeVars => Gentle /\ HolderStays BY HarmlessIsGentle DEF Harmless
<1>1. ASSUME NEW r \in requests, Accept(r) PROVE QInv'
  <2>0. /\ exec.pc = "idle" /\ requests' = requests \ {r} /\ UNCHANGED storeVars
    BY <1>1 DEF Accept, ExecAt
  <2>1. CASE exec' = exec /\ \E answer : Reply(r.caller, answer, requests \ {r})
    BY <1>c, <2>0, <2>1, ReplyKeeps
  <2>2. CASE /\ \E owner : exec' = [Idle EXCEPT !.pc = "observed", !.caller = r.caller,
                                          !.inv = r.inv, !.owner = owner, !.epoch = lease.epoch]
             /\ UNCHANGED planner
    <3>1. exec'.caller = r.caller /\ exec'.inv = r.inv BY <2>2 DEF Idle
    <3>2. \A c, inv : Sent(c, inv)' => Sent(c, inv) BY <2>0, <3>1 DEF Sent
    <3> QED BY <1>c, <2>0, <2>2, <3>2, UnnoticedKeeps
  <2> QED BY <1>1, <2>1, <2>2 DEF Accept
<1>2. CASE PrepareWindow
  <2>1. CASE UNCHANGED storeVars /\ Finishes(Refusal(exec.inv[1]))
    BY <1>a, <1>c, <1>2, <2>1 DEF PrepareWindow
  <2>2. CASE /\ BeginWindowRecovery(exec.inv[1], exec.owner, exec.epoch)
             /\ ExecGoes("recovering") /\ UNCHANGED planner
    <3>1. Gentle BY <1>2, <2>2, HarmlessIsGentle DEF Harmless, PrepareWindow, ExecAt
    <3>2. exec'.caller = exec.caller /\ exec'.inv = exec.inv
      BY <2>2 DEF ExecGoes, ExecState
    <3> QED BY <1>b, <1>2, <2>2, <3>1, <3>2 DEF PrepareWindow, ExecAt
  <2> QED BY <1>2, <2>1, <2>2 DEF PrepareWindow
<1>3. CASE WindowReady
  <2>1. CASE UNCHANGED storeVars /\ Finishes("stopped")
    BY <1>a, <1>c, <1>3, <2>1 DEF WindowReady
  <2>2. CASE FinishWindowRecovery(exec.inv[1])
    <3>1. Gentle BY <1>3, <2>2, HarmlessIsGentle DEF Harmless, WindowReady, ExecAt
    <3>2. CASE ExecGoes("observed") /\ UNCHANGED planner
      <4>1. exec'.caller = exec.caller /\ exec'.inv = exec.inv
        BY <3>2 DEF ExecGoes, ExecState
      <4> QED BY <1>b, <1>3, <2>2, <3>1, <3>2, <4>1 DEF WindowReady, ExecAt
    <3>3. CASE \E answer : Finishes(answer)
      BY <1>a, <1>3, <2>2, <3>1, <3>3 DEF WindowReady
    <3> QED BY <1>3, <2>1, <3>2, <3>3 DEF WindowReady
  <2> QED BY <1>3, <2>1, <2>2 DEF WindowReady
<1>4. ASSUME NEW a \in ApprovalId, ExecAuthorize(a) PROVE QInv'
  <2>1. Gentle BY <1>4, HarmlessIsGentle DEF Harmless, ExecAuthorize, ExecAt
  <2>2. exec'.caller = exec.caller /\ exec'.inv = exec.inv
    BY <1>4 DEF ExecAuthorize, ExecState
  <2> QED BY <1>b, <1>4, <2>1, <2>2 DEF ExecAuthorize, ExecAt, Authorize
<1>5. CASE AuthorizeRefused \/ BeginRefused
  BY <1>a, <1>c, <1>5 DEF AuthorizeRefused, BeginRefused
<1>6. CASE ExecStales
  <2>1. CASE UNCHANGED storeVars /\ Finishes("stopped") BY <1>a, <1>c, <1>6, <2>1 DEF ExecStales
  <2>2. CASE StaleApproval(exec.approval) /\ Finishes(exec.answer)
    <3>1. Gentle BY <1>6, <2>2, HarmlessIsGentle DEF Harmless, ExecStales, ExecAt
    <3> QED BY <1>a, <1>6, <2>2, <3>1 DEF ExecStales, StaleApproval
  <2> QED BY <1>6, <2>1, <2>2 DEF ExecStales
<1>7. CASE RequestGrant
  <2>1. CASE Finishes(Refusal(exec.inv[1])) BY <1>a, <1>c, <1>7, <2>1 DEF RequestGrant
  <2>2. CASE ExecGoes("granted") /\ UNCHANGED planner
    <3>1. exec'.caller = exec.caller /\ exec'.inv = exec.inv
      BY <2>2 DEF ExecGoes, ExecState
    <3> QED BY <1>b, <1>c, <1>7, <2>2, <3>1 DEF RequestGrant, ExecAt
  <2> QED BY <1>7, <2>1, <2>2 DEF RequestGrant
<1>8. CASE ExecBegin
  <2>1. Gentle BY <1>8, BeginIsGentle DEF ExecBegin, ExecAt
  <2>2. exec'.caller = exec.caller /\ exec'.inv = exec.inv
    BY <1>8 DEF ExecBegin, ExecGoes, ExecState
  <2> QED BY <1>b, <1>8, <2>1, <2>2 DEF ExecBegin, ExecAt
<1>9. CASE \/ Operate \/ FileResultRefused
           \/ \E from, to \in ExecPc : Fence(from, to)
           \/ \E handler \in ErrorKinds : OperationFails(handler)
  <2>1. /\ exec'.caller = exec.caller /\ exec'.inv = exec.inv /\ exec.pc # "idle"
        /\ UNCHANGED <<storeVars, planner, requests>>
    BY <1>9 DEF Operate, FileResultRefused, Fence, OperationFails, ExecGoes, ExecAt, ExecState
  <2> QED BY <1>b, <1>c, <2>1
<1>10. ASSUME NEW a \in ApprovalId, SelectRecord(a) PROVE QInv'
  <2>1. approvals[a].inv \in Job \X Op /\ FinishAction(approvals[a].inv, a, TRUE)
    BY <1>10, BindKeepsTables DEF SelectRecord
  <2>2. Gentle BY <2>1, HarmlessIsGentle DEF Harmless
  <2> QED BY <1>a, <1>10, <2>1, <2>2 DEF SelectRecord
<1>11. CASE Handler
  <2>1. CASE Finishes("stopped") BY <1>a, <1>c, <1>11, <2>1 DEF Handler
  <2>2. CASE ExecGoes("closing") /\ UNCHANGED planner
    <3>1. exec'.caller = exec.caller /\ exec'.inv = exec.inv
      BY <2>2 DEF ExecGoes, ExecState
    <3> QED BY <1>b, <1>c, <1>11, <2>2, <3>1 DEF Handler
  <2> QED BY <1>11, <2>1, <2>2 DEF Handler
<1>12. CASE FileResult \/ FileError
  <2>1. CASE UNCHANGED storeVars /\ Finishes("stopped")
    BY <1>a, <1>c, <1>12, <2>1 DEF FileResult, FileError
  <2>2. CASE \E cache \in BOOLEAN : FinishAction(exec.inv, exec.approval, cache)
    <3>1. Gentle BY <1>12, <2>2, HarmlessIsGentle DEF Harmless, FileResult, FileError, ExecAt
    <3>2. \E answer : Finishes(answer) BY <1>12 DEF FileResult, FileError
    <3> QED BY <1>a, <1>12, <2>2, <3>1, <3>2 DEF FileResult, FileError
  <2> QED BY <1>12, <2>1, <2>2 DEF FileResult, FileError
<1> QED
  BY <1>1, <1>2, <1>3, <1>4, <1>5, <1>6, <1>7, <1>8, <1>9, <1>10, <1>11, <1>12 DEF ExecNext

LEMMA StaffKeepsQInv ==
    ASSUME IInv, QInv, StaffNext \/ \E j \in Job : Tick(j)
    PROVE  QInv'
<1> USE HolderFacts
<1>0. /\ console.pc # "idle" => console.job \in Job
      /\ console.owner \in Controller \cup {None} /\ console.epoch \in Nat
      /\ handoff \in [Job -> Controller \cup {None}]
  BY DEF IInv, EdgeInv, ConsoleOK, ConsoleState, StoreInv, StoreTypeOK
<1>a. ASSUME Harmless, HolderStays, UNCHANGED <<planner, requests, exec>> PROVE QInv'
  <2>1. \A c, inv : Sent(c, inv)' => Sent(c, inv) BY <1>a DEF Sent
  <2> QED BY <1>a, <2>1, HarmlessIsGentle, UnnoticedKeeps
<1>1. CASE \E j \in Job : Submit(j) \/ Cancel(j) \/ Guide(j)
  BY <1>a, <1>1 DEF Submit, Cancel, Guide, edgeUnchanged, Harmless, Resolve, CreateJob, End, Message
<1>2. CASE ChangeScope \/ \E s \in {"active", "paused"} : Supervise(s)
  BY <1>a, <1>2 DEF ChangeScope, Supervise, edgeUnchanged, Harmless, ScopeChanged, ChangeEmployee
<1>3. CASE \E j \in Job : TakeoverRead(j) \/ ReleaseRead(j)
  BY <1>a, <1>3 DEF TakeoverRead, ReleaseRead, Harmless
<1>4. CASE TakeoverNote
  BY <1>0, <1>a, <1>4 DEF TakeoverNote, NoteHandoff, Harmless
<1>5. ASSUME NEW o \in Controller, console.job \in Job, ConsoleTransfers(o) PROVE QInv'
  BY <1>0, <1>a, <1>5 DEF ConsoleTransfers, Harmless
<1>6. CASE TakeoverCommit BY <1>0, <1>5, <1>6 DEF TakeoverCommit, Controller
<1>7. CASE ReleaseCommit
  <2>1. console.job \in Job BY <1>0, <1>7 DEF ReleaseCommit
  <2>2. (IF handoff[console.job] = None THEN "script" ELSE handoff[console.job]) \in Controller
    BY <1>0, <2>1 DEF Controller
  <2> QED BY <1>5, <1>7, <2>1, <2>2 DEF ReleaseCommit
<1>8. CASE \E j \in Job : Tick(j)
  BY <1>a, <1>8 DEF Tick, edgeUnchanged, Harmless, PassBudget
<1> QED BY <1>1, <1>2, <1>3, <1>4, <1>6, <1>7, <1>8 DEF StaffNext

LEMMA FaultKeepsQInv ==
    ASSUME IInv, QInv, FaultNext, NoPlannerCrash
    PROVE  QInv'
<1> USE ExecFacts, HolderFacts
<1>a. ASSUME Gentle, HolderStays, UNCHANGED requests, NEW answer, Finishes(answer) PROVE QInv'
  <2>1. exec'.pc = "idle" BY <1>a DEF Finishes, Idle
  <2> QED BY <1>a, <2>1, ReplyKeeps DEF Finishes
<1>b. ASSUME Gentle, HolderStays, UNCHANGED <<planner, requests>>, exec.pc # "idle",
             exec' = [exec EXCEPT !.pc = "closing", !.answer = "recovery"]
      PROVE  QInv'
  <2>1. exec'.caller = exec.caller /\ exec'.inv = exec.inv BY <1>b DEF ExecState
  <2>2. \A c, inv : Sent(c, inv)' => Sent(c, inv) BY <1>b, <2>1 DEF Sent
  <2> QED BY <1>b, <2>2, UnnoticedKeeps
<1>1. CASE ExecutorCrash
  <2>0. Gentle /\ HolderStays BY <1>1, HarmlessIsGentle DEF Harmless, ExecutorCrash
  <2>1. \A c, inv : ~Sent(c, inv)' BY <1>1 DEF ExecutorCrash, Idle, Sent
  <2>2. /\ Moves(planner'.pc)
        /\ planner'.pc = IF planner.pc = "waiting" THEN "failing" ELSE planner.pc
    BY <1>1, GoesMoves, PlannerFacts DEF ExecutorCrash, PlannerAt, Moves
  <2>3. Orderly BY <2>1, <2>2 DEF Orderly, Moves
  <2>4. AtWork' BY <2>0, <2>2 DEF QInv, AtWork, HolderStays, Moves
  <2>5. Owned' BY <2>0, <2>2, OwnedKept DEF HolderStays, Moves
  <2> QED BY <2>0, <2>3, <2>4, <2>5, GentleKeeps
<1>2. CASE BeginResponseLost
  <2>1. Gentle BY <1>2, BeginIsGentle DEF BeginResponseLost, ExecAt
  <2> QED BY <1>a, <1>2, <2>1 DEF BeginResponseLost
<1>3. CASE ReceiptLost
  <2>1. exec.pc \in {"finishing", "closing"} /\ ExecAt("finishing") \in BOOLEAN
    BY <1>3 DEF ReceiptLost, ExecAt
  <2>2. Gentle /\ HolderStays BY <1>3, <2>1, HarmlessIsGentle DEF Harmless, ReceiptLost
  <2> QED BY <1>a, <1>b, <1>3, <2>1, <2>2 DEF ReceiptLost
<1>4. CASE WindowReceiptLost
  <2>1. Gentle /\ HolderStays
    BY <1>4, HarmlessIsGentle DEF Harmless, WindowReceiptLost, ExecAt
  <2> QED BY <1>a, <1>4, <2>1 DEF WindowReceiptLost
<1>5. CASE SelectionResponseLost
  <2>1. PICK a \in ApprovalId : BindRecord(exec.inv[1], a) BY <1>5 DEF SelectionResponseLost
  <2>2. approvals[a].inv \in Job \X Op /\ FinishAction(approvals[a].inv, a, TRUE)
    BY <2>1, BindKeepsTables
  <2>3. Gentle BY <2>2, HarmlessIsGentle DEF Harmless
  <2> QED BY <1>b, <1>5, <2>2, <2>3 DEF SelectionResponseLost, ExecAt
<1>6. ~PlannerCrash BY DEF PlannerCrash, Fault, NoPlannerCrash
<1> QED BY <1>1, <1>2, <1>3, <1>4, <1>5, <1>6 DEF FaultNext

LEMMA InitEstablishesQInv ==
    ASSUME Init
    PROVE  QInv
<1>1. lease.job = None /\ planner = Polling(1) /\ requests = {} /\ exec = Idle
      /\ \A a \in ApprovalId : approvals[a] = Closed
  BY DEF Init, StoreInit
<1>2. \A c, inv : ~Sent(c, inv) BY <1>1 DEF Sent, Idle
<1> QED
  BY <1>1, <1>2, NoneAssumption DEF QInv, AtWork, Owned, Callers, Orphans, Concluding,
     CompletedIsQuiet, Polling, Nobody, Closed

LEMMA StutterKeepsQInv ==
    ASSUME IInv, QInv, UNCHANGED vars
    PROVE  QInv'
<1>1. Gentle /\ HolderStays
  BY HarmlessIsGentle, HolderFacts DEF Harmless, vars
<1>2. \A c, inv : Sent(c, inv)' => Sent(c, inv) BY DEF Sent, vars, edgeVars
<1> QED BY <1>1, <1>2, UnnoticedKeeps DEF vars, edgeVars

(* The invariant about commands and their planner: it holds while planner    *)
(* processes end only by themselves.                                         *)
THEOREM PlannersOwnTheirCommands == ASSUME NoPlannerCrash PROVE Spec => []QInv
<1>1. Init => QInv BY InitEstablishesQInv
<1>2. IInv /\ QInv /\ [Next]_vars => QInv'
  <2> SUFFICES ASSUME IInv, QInv, [Next]_vars PROVE QInv'
    OBVIOUS
  <2> QED
    BY PlannerKeepsQInv, ExecKeepsQInv, StaffKeepsQInv, FaultKeepsQInv, StutterKeepsQInv
    DEF Next, Poll
<1> QED BY <1>1, <1>2, InductiveInvariant, PTL DEF Spec

(* conclude checks and commits in two transactions, and yet no operation of  *)
(* a completed request is executing, unless a planner process is killed      *)
(* while a command of its own waits for the executor.                        *)
THEOREM CompletedStaysQuiet == ASSUME NoPlannerCrash PROVE Spec => []CompletedIsQuiet
<1>1. QInv => CompletedIsQuiet BY DEF QInv
<1> QED BY <1>1, PlannersOwnTheirCommands, PTL

(* Desktop implements DesktopTenure *)

Performing == Operating \cup {"recovering"}

Running == IF exec.pc \in Operating THEN exec.inv
           ELSE IF exec.pc = "recovering" THEN <<exec.inv[1], Window>> ELSE None

Began == IF exec.pc \in Performing THEN exec.epoch ELSE 0

TenureStep == [Tenure!Next]_Tenure!tenureVars

SameLease == /\ lease'.job = lease.job /\ lease'.owner = lease.owner
             /\ lease'.epoch = lease.epoch

\* What the executor does to its command shows only as this.
SamePerformance ==
    /\ exec'.pc \in Performing <=> exec.pc \in Performing
    /\ exec'.pc = "recovering" <=> exec.pc = "recovering"
    /\ exec'.inv = exec.inv /\ exec'.epoch = exec.epoch

LEMMA RunningFacts ==
    ASSUME IInv
    PROVE  /\ exec.pc \in Performing => Running # None
           /\ exec.pc \notin Performing => Running = None /\ Began = 0
           /\ exec'.pc \notin Performing => Running' = None /\ Began' = 0
           /\ SamePerformance \/ UNCHANGED exec => Running' = Running /\ Began' = Began
<1>1. exec.pc # "idle" => exec.inv \in Job \X Op
  BY DEF IInv, EdgeInv, EdgeTypeOK, ExecInv, ExecBound, ExecState, Operating
<1>2. /\ exec.pc \in Operating => exec.inv \in Job \X (Op \cup {Window})
      /\ exec.pc = "recovering" => <<exec.inv[1], Window>> \in Job \X (Op \cup {Window})
  BY <1>1 DEF Operating
<1>3. exec.pc \in Performing => Running # None
  BY <1>2, NoneAssumption DEF Running, Performing
<1> QED BY <1>3 DEF Running, Began, Performing, Operating, SamePerformance

LEMMA TenureStutters ==
    ASSUME UNCHANGED <<lease, exec>>
    PROVE  TenureStep
BY DEF TenureStep, Tenure!tenureVars

\* Renewing and expiring a lease does not show.
LEMMA TenureIdles ==
    ASSUME IInv, SameLease, lease'.inflight = lease.inflight,
           SamePerformance \/ UNCHANGED exec
    PROVE  TenureStep
<1>1. Running' = Running /\ Began' = Began BY RunningFacts
<1> QED
  BY <1>1 DEF TenureStep, Tenure!tenureVars, Running, Began, Performing, SameLease

LEMMA TenureHandsOver ==
    ASSUME lease.inflight = None, lease'.inflight = None, lease'.epoch = lease.epoch + 1,
           lease'.job \in Job, lease'.owner \in Controller, UNCHANGED exec
    PROVE  TenureStep
<1>1. Tenure!HandOver BY DEF Tenure!HandOver
<1> QED BY <1>1 DEF TenureStep, Tenure!Next

LEMMA TenureTakesBack ==
    ASSUME lease'.job = lease.job, lease'.owner = lease.owner,
           lease'.epoch = lease.epoch + 1, lease'.inflight = None, UNCHANGED exec
    PROVE  TenureStep
<1>1. Tenure!TakeBack BY DEF Tenure!TakeBack
<1> QED BY <1>1 DEF TenureStep, Tenure!Next

LEMMA TenureEnds ==
    ASSUME IInv, SameLease, lease'.inflight \in {None, lease.inflight},
           exec'.pc \notin Performing
    PROVE  TenureStep
<1>0. Running' = None /\ Began' = 0 BY RunningFacts
<1>1. CASE lease'.inflight = lease.inflight /\ exec.pc \notin Performing
  <2>1. Running = None /\ Began = 0 BY <1>1, RunningFacts
  <2> QED
    BY <1>0, <1>1, <2>1
    DEF TenureStep, Tenure!tenureVars, Running, Began, Performing, SameLease
<1>2. CASE lease'.inflight = lease.inflight /\ exec.pc \in Performing
  <2>1. Running # None BY <1>2, RunningFacts
  <2>2. Tenure!Interrupt
    BY <1>0, <1>2, <2>1
    DEF Tenure!Interrupt, Tenure!Stops, Running, Began, Performing, SameLease
  <2> QED BY <2>2 DEF TenureStep, Tenure!Next
<1>3. CASE lease'.inflight # lease.inflight
  <2>1. Tenure!Settle
    BY <1>0, <1>3 DEF Tenure!Settle, Tenure!Stops, Running, Began, Performing, SameLease
  <2> QED BY <2>1 DEF TenureStep, Tenure!Next
<1> QED BY <1>1, <1>2, <1>3

LEMMA TenureReserves ==
    ASSUME IInv, NEW t \in Invocation, SameLease,
           lease.inflight \in {None, t}, lease'.inflight = t,
           lease.job = t[1], lease.owner \in {"script", "assistant"},
           exec.pc \notin Performing,
           \/ exec'.pc \notin Performing
           \/ Running' = t /\ Began' = lease.epoch
    PROVE  TenureStep
<1>1. Running = None /\ Began = 0 BY RunningFacts
<1>2. <<Running', Began'>> \in {<<None, 0>>, <<t, lease.epoch>>} BY RunningFacts
<1>3. Tenure!Reserve(t)
  BY <1>1, <1>2 DEF Tenure!Reserve, MayPerform, Running, Began, Performing, SameLease
<1> QED BY <1>3 DEF TenureStep, Tenure!Next

LEMMA LeaseFacts ==
    ASSUME IInv
    PROVE  /\ lease \in Lease
           /\ UNCHANGED storeVars => SameLease /\ lease'.inflight = lease.inflight
           /\ \A j \in Job, o \in Controller : \A e : Transfer(j, o, e) =>
                 /\ lease.inflight = None /\ lease'.inflight = None
                 /\ lease'.job \in Job /\ lease'.owner \in Controller
                 /\ lease'.epoch = lease.epoch + 1
           /\ \A inv, a, cache : FinishAction(inv, a, cache) =>
                 SameLease /\ lease'.inflight \in {None, lease.inflight}
           /\ \A j : FinishWindowRecovery(j) => SameLease /\ lease'.inflight = None
           /\ ExpireLease => SameLease /\ lease'.inflight = lease.inflight
<1>1. lease \in Lease BY DEF IInv, StoreInv, StoreTypeOK
<1> QED
  BY <1>1 DEF storeVars, Transfer, MayTransfer, FinishAction, FinishWindowRecovery, ExpireLease,
     Lease, SameLease

LEMMA ForgetShowsNothing ==
    ASSUME IInv, exec' = Forget(exec), UNCHANGED storeVars
    PROVE  TenureStep
<1>1. exec \in ExecState BY ExecFacts
<1>2. SamePerformance BY <1>1 DEF Forget, ExecState, SamePerformance
<1> QED BY <1>2, LeaseFacts, TenureIdles

LEMMA PlannerImplements ==
    ASSUME IInv, PlannerNext
    PROVE  TenureStep
<1> USE LeaseFacts
<1>1. ASSUME NEW j \in Job, Claim(j) PROVE TenureStep
  <2>1. CASE Reclaim(planner.nonce, j)
    <3>1. CASE lease' = [lease EXCEPT !.expired = FALSE]
      BY <1>1, <3>1, TenureIdles DEF Claim, Lease, SameLease
    <3>2. CASE lease' = [lease EXCEPT !.worker = planner.nonce, !.epoch = @ + 1,
                                      !.expired = FALSE, !.inflight = None]
      BY <1>1, <3>2, TenureTakesBack DEF Claim, Lease
    <3> QED BY <2>1, <3>1, <3>2 DEF Reclaim
  <2>2. CASE ClaimNew(planner.nonce, j)
    <3>1. lease.inflight = None
      BY <2>2 DEF ClaimNew, IInv, StoreInv, LeaseServesClaimed
    <3>2. /\ lease'.inflight = None /\ lease'.job \in Job /\ lease'.owner \in Controller
          /\ lease'.epoch = lease.epoch + 1
      BY <2>2 DEF ClaimNew, Controller
    <3> QED BY <1>1, <3>1, <3>2, TenureHandsOver DEF Claim
  <2> QED BY <1>1, <2>1, <2>2 DEF Claim
<1>2. CASE AssistantTakesOver
  <2>1. planner.job \in Job /\ exec' = exec
    BY <1>2 DEF AssistantTakesOver, PlannerAt, IInv, EdgeInv, PlannerOK
  <2>2. CASE UNCHANGED storeVars BY <2>1, <2>2, TenureIdles
  <2>3. CASE Transfer(planner.job, "assistant", planner.epoch)
    BY <2>1, <2>3, TenureHandsOver DEF Controller
  <2> QED BY <1>2, <2>2, <2>3 DEF AssistantTakesOver
<1>3. CASE TimeOut BY <1>3, ForgetShowsNothing DEF TimeOut
<1>4. CASE UNCHANGED <<lease, exec>> BY <1>4, TenureStutters
<1> QED
  BY <1>1, <1>2, <1>3, <1>4 DEF PlannerNext, storeVars, Look, Call, EndTick, ConcludeCheck,
     ConcludeCommit, End, FailRead, FailWrite, Restart

\* begin_action, whether its response arrives or not.
LEMMA BeginReserves ==
    ASSUME IInv, ExecAt("granted"),
           BeginAction(exec.inv[1], exec.owner, exec.epoch, exec.inv, exec.approval),
           exec'.pc = "begun" => exec'.inv = exec.inv /\ exec'.epoch = exec.epoch,
           exec'.pc \in {"begun", "idle"}
    PROVE  TenureStep
<1>1. /\ exec.inv \in Invocation /\ exec.owner \in {"script", "assistant"}
      /\ lease \in Lease
  BY ExecFacts, LeaseFacts DEF ExecAt, Invocation
<1>2. /\ lease.inflight \in {None, exec.inv} /\ lease'.inflight = exec.inv
      /\ lease.job = exec.inv[1] /\ lease.owner = exec.owner /\ lease.epoch = exec.epoch
      /\ SameLease
  BY <1>1 DEF BeginAction, MayBegin, MayIssue, Check, Holds, Lease, SameLease
<1>3. exec.pc \notin Performing BY DEF ExecAt, Performing, Operating
<1>4. CASE exec'.pc = "begun"
  <2>1. Running' = exec.inv /\ Began' = lease.epoch
    BY <1>2, <1>4 DEF Running, Began, Performing, Operating
  <2> QED BY <1>1, <1>2, <1>3, <2>1, TenureReserves
<1>5. CASE exec'.pc = "idle"
  <2>1. exec'.pc \notin Performing BY <1>5 DEF Performing, Operating
  <2> QED BY <1>1, <1>2, <1>3, <2>1, TenureReserves
<1> QED BY <1>4, <1>5

\* A command that ends, or that is not performed yet or any more.
LEMMA QuietPc ==
    ASSUME IInv
    PROVE  /\ \A answer : Finishes(answer) => exec'.pc \notin Performing
           /\ \A pc : pc \notin Performing /\ ExecGoes(pc) => exec'.pc \notin Performing
           /\ exec' = [exec EXCEPT !.pc = "closing", !.answer = "recovery"]
                 => exec'.pc \notin Performing
           /\ {"idle", "observed", "staling", "approved", "granted", "closing"}
                 \cap Performing = {}
<1>0. exec \in ExecState BY ExecFacts
<1>1. ASSUME NEW answer, Finishes(answer) PROVE exec'.pc \notin Performing
  <2>1. exec'.pc = "idle" BY <1>1 DEF Finishes, Idle
  <2> QED BY <2>1 DEF Performing, Operating
<1>2. ASSUME NEW pc, pc \notin Performing, ExecGoes(pc) PROVE exec'.pc \notin Performing
  BY <1>0, <1>2 DEF ExecGoes, ExecState
<1>3. ASSUME exec' = [exec EXCEPT !.pc = "closing", !.answer = "recovery"]
      PROVE  exec'.pc \notin Performing
  <2>1. exec'.pc = "closing" BY <1>0, <1>3 DEF ExecState
  <2> QED BY <2>1 DEF Performing, Operating
<1>4. {"idle", "observed", "staling", "approved", "granted", "closing"} \cap Performing = {}
  BY DEF Performing, Operating
<1> QED BY <1>1, <1>2, <1>3, <1>4

LEMMA ExecImplements ==
    ASSUME IInv, ExecNext
    PROVE  TenureStep
<1> USE LeaseFacts, QuietPc
<1>0. UNCHANGED storeVars => SameLease /\ lease'.inflight \in {None, lease.inflight}
  OBVIOUS
<1>1. ASSUME NEW r \in requests, Accept(r) PROVE TenureStep
  <2>1. exec'.pc \in {"idle", "observed"} /\ UNCHANGED storeVars
    BY <1>1 DEF Accept, ExecAt, Idle
  <2> QED BY <1>0, <2>1, TenureEnds
<1>2. CASE PrepareWindow
  <2>1. CASE UNCHANGED storeVars /\ Finishes(Refusal(exec.inv[1]))
    BY <1>0, <2>1, TenureEnds
  <2>2. CASE /\ BeginWindowRecovery(exec.inv[1], exec.owner, exec.epoch)
             /\ ExecGoes("recovering")
    <3>1. /\ exec.pc = "observed" /\ exec'.pc = "recovering"
          /\ exec'.inv = exec.inv /\ exec'.epoch = exec.epoch
          /\ exec.inv[1] \in Job /\ exec.owner \in {"script", "assistant"}
      BY <1>2, <2>2, ExecFacts DEF PrepareWindow, ExecAt, ExecGoes, ExecState
    <3>2. /\ lease.inflight = None /\ lease'.inflight = <<exec.inv[1], Window>>
          /\ lease.job = exec.inv[1] /\ lease.owner = exec.owner
          /\ lease.epoch = exec.epoch /\ SameLease
      BY <2>2 DEF BeginWindowRecovery, MayRecoverWindow, Check, Holds, Lease, SameLease
    <3>3. Running' = <<exec.inv[1], Window>> /\ Began' = lease.epoch
      BY <3>1, <3>2 DEF Running, Began, Performing, Operating
    <3>4. <<exec.inv[1], Window>> \in Invocation /\ <<exec.inv[1], Window>>[1] = exec.inv[1]
      BY <3>1 DEF Invocation
    <3>5. exec.pc \notin Performing BY <3>1
    <3> HIDE LeaseFacts, QuietPc
    <3> QED BY <3>1, <3>2, <3>3, <3>4, <3>5, TenureReserves
  <2> QED BY <1>2, <2>1, <2>2 DEF PrepareWindow
<1>3. CASE WindowReady
  <2>1. CASE UNCHANGED storeVars /\ Finishes("stopped")
    BY <1>0, <2>1, TenureEnds
  <2>2. CASE FinishWindowRecovery(exec.inv[1]) /\ (ExecGoes("observed") \/ \E a : Finishes(a))
    <3>1. exec'.pc \notin Performing BY <2>2
    <3> QED BY <2>2, <3>1, TenureEnds
  <2> QED BY <1>3, <2>1, <2>2 DEF WindowReady
<1>4. ASSUME NEW a \in ApprovalId, ExecAuthorize(a) PROVE TenureStep
  <2>1. exec'.pc \in {"staling", "approved"} /\ lease' = lease
    BY <1>4, ExecFacts DEF ExecAuthorize, Authorize, ExecState
  <2> QED BY <2>1, TenureEnds DEF SameLease
<1>5. CASE AuthorizeRefused \/ BeginRefused
  BY <1>0, <1>5, TenureEnds DEF AuthorizeRefused, BeginRefused
<1>6. CASE ExecStales
  <2>1. CASE UNCHANGED storeVars BY <1>0, <1>6, <2>1, TenureEnds DEF ExecStales
  <2>2. CASE UNCHANGED lease BY <1>6, <2>2, TenureEnds DEF ExecStales, SameLease
  <2> QED BY <1>6, <2>1, <2>2 DEF ExecStales, StaleApproval
<1>7. CASE RequestGrant
  <2>1. exec'.pc \notin Performing BY <1>7 DEF RequestGrant
  <2> QED BY <1>0, <1>7, <2>1, TenureEnds DEF RequestGrant
<1>8. CASE ExecBegin
  <2>1. exec'.pc = "begun" /\ exec'.inv = exec.inv /\ exec'.epoch = exec.epoch
    BY <1>8, ExecFacts DEF ExecBegin, ExecAt, ExecGoes, ExecState
  <2> QED BY <1>8, <2>1, BeginReserves DEF ExecBegin
<1>9. CASE \/ Operate \/ FileResultRefused
           \/ \E from, to \in ExecPc : Fence(from, to)
           \/ \E handler \in ErrorKinds : OperationFails(handler)
  <2>1. /\ exec.pc \in Operating /\ exec'.inv = exec.inv /\ exec'.epoch = exec.epoch
        /\ exec'.pc \in Operating \cup {"closing"}
        /\ UNCHANGED storeVars
    BY <1>9, ErrorAssumption, ExecFacts
    DEF Operate, FileResultRefused, Fence, OperationFails, ExecGoes, ExecAt, ExecState, Operating
  <2>2. CASE exec'.pc \in Operating
    <3>1. SamePerformance BY <2>1, <2>2 DEF SamePerformance, Performing, Operating
    <3> QED BY <2>1, <3>1, TenureIdles
  <2>3. CASE exec'.pc = "closing"
    BY <1>0, <2>1, <2>3, TenureEnds
  <2> QED BY <2>1, <2>2, <2>3
<1>10. ASSUME NEW a \in ApprovalId, SelectRecord(a) PROVE TenureStep
  BY <1>10, TenureEnds DEF SelectRecord, BindRecord
<1>11. CASE Handler
  <2>1. exec'.pc \notin Performing BY <1>11 DEF Handler
  <2> QED BY <1>0, <1>11, <2>1, TenureEnds DEF Handler
<1>12. CASE FileResult \/ FileError
  BY <1>0, <1>12, TenureEnds DEF FileResult, FileError
<1> QED
  BY <1>1, <1>2, <1>3, <1>4, <1>5, <1>6, <1>7, <1>8, <1>9, <1>10, <1>11, <1>12 DEF ExecNext

LEMMA StaffImplements ==
    ASSUME IInv, StaffNext \/ \E j \in Job : Tick(j)
    PROVE  TenureStep
<1> USE LeaseFacts
<1>0. /\ console.pc # "idle" => console.job \in Job
      /\ handoff \in [Job -> Controller \cup {None}]
  BY DEF IInv, EdgeInv, ConsoleOK, StoreInv, StoreTypeOK
<1>1. CASE UNCHANGED <<lease, exec>> BY <1>1, TenureStutters
<1>2. ASSUME NEW o \in Controller, console.job \in Job, ConsoleTransfers(o) PROVE TenureStep
  <2>1. CASE UNCHANGED <<storeVars, spent>>
    BY <1>1, <1>2, <2>1 DEF ConsoleTransfers, storeVars
  <2>2. CASE Transfer(console.job, o, console.epoch)
    BY <1>2, <2>2, TenureHandsOver DEF ConsoleTransfers
  <2> QED BY <1>2, <2>1, <2>2 DEF ConsoleTransfers
<1>3. CASE TakeoverCommit BY <1>0, <1>2, <1>3 DEF TakeoverCommit, Controller
<1>4. CASE ReleaseCommit
  <2>1. console.job \in Job BY <1>0, <1>4 DEF ReleaseCommit
  <2>2. (IF handoff[console.job] = None THEN "script" ELSE handoff[console.job]) \in Controller
    BY <1>0, <2>1 DEF Controller
  <2> QED BY <1>2, <1>4, <2>1, <2>2 DEF ReleaseCommit
<1>5. CASE ExpireLease /\ edgeUnchanged
  BY <1>5, TenureIdles DEF edgeUnchanged
<1> QED
  BY <1>1, <1>3, <1>4, <1>5 DEF StaffNext, Tick, PassBudget, Submit, Resolve, CreateJob, Cancel, End,
     Guide, Message, Supervise, ChangeEmployee, ChangeScope, ScopeChanged, TakeoverRead,
     ReleaseRead, TakeoverNote, NoteHandoff, storeVars, edgeUnchanged

LEMMA FaultImplements ==
    ASSUME IInv, FaultNext
    PROVE  TenureStep
<1> USE LeaseFacts, QuietPc
<1>0. UNCHANGED storeVars => SameLease /\ lease'.inflight \in {None, lease.inflight}
  OBVIOUS
<1>1. CASE ExecutorCrash
  BY <1>0, <1>1, TenureEnds DEF ExecutorCrash, Idle
<1>2. CASE BeginResponseLost
  <2>1. exec'.pc = "idle" BY <1>2 DEF BeginResponseLost, Finishes, Idle
  <2> QED BY <1>2, <2>1, BeginReserves DEF BeginResponseLost
<1>3. CASE ReceiptLost
  <2>1. exec'.pc \notin Performing BY <1>3 DEF ReceiptLost
  <2>2. SameLease /\ lease'.inflight \in {None, lease.inflight}
    BY <1>0, <1>3 DEF ReceiptLost
  <2> QED BY <2>1, <2>2, TenureEnds
<1>4. CASE WindowReceiptLost
  BY <1>0, <1>4, TenureEnds DEF WindowReceiptLost
<1>5. CASE SelectionResponseLost
  BY <1>5, TenureEnds DEF SelectionResponseLost, BindRecord
<1>6. CASE PlannerCrash BY <1>6, ForgetShowsNothing DEF PlannerCrash
<1> QED BY <1>1, <1>2, <1>3, <1>4, <1>5, <1>6 DEF FaultNext

LEMMA StepsAreTenureSteps == ASSUME IInv, [Next]_vars PROVE TenureStep
<1>1. CASE Poll \/ UNCHANGED vars
  BY <1>1, TenureStutters DEF Poll, vars, storeVars, edgeVars
<1> QED
  BY <1>1, PlannerImplements, ExecImplements, StaffImplements, FaultImplements DEF Next

(* Leases, epochs, approvals, grants and the two processes implement the     *)
(* desktop with tenures, whichever process dies: in its tenure an operation  *)
(* is alone on a desktop reserved for it, and nobody gets the desktop before *)
(* its receipt but a successor of the process that asked for it.             *)
THEOREM DesktopImplementsTenure == Spec => ImplementsTenure
<1>1. Init => Tenure!Init
  BY DEF Init, StoreInit, Idle, Operating, Tenure!Init
<1> QED
  BY <1>1, StepsAreTenureSteps, InductiveInvariant, PTL
  DEF Spec, ImplementsTenure, Tenure!Spec, TenureStep

-----------------------------------------------------------------------------
(* Desktop implements DesktopControl *)

ControlStep == [Control!Next]_Control!controlVars

\* A desktop that is not taken back while it is reserved has no need of tenures.
LEMMA TenureIsControl ==
    ASSUME TenureStep, lease.inflight # None => lease'.epoch = lease.epoch, lease.epoch \in Nat
    PROVE  ControlStep
<1>1. CASE Tenure!HandOver
  <2>1. Control!HandOver BY <1>1 DEF Tenure!HandOver, Control!HandOver
  <2> QED BY <2>1 DEF ControlStep, Control!Next
<1>2. CASE Tenure!TakeBack
  <2>1. lease'.epoch # lease.epoch BY <1>2 DEF Tenure!TakeBack
  <2>2. lease.inflight = None BY <2>1
  <2> QED BY <1>2, <2>2 DEF Tenure!TakeBack, ControlStep, Control!controlVars
<1>3. ASSUME NEW t \in Invocation, Tenure!Reserve(t) PROVE ControlStep
  <2>1. Control!Reserve(t) BY <1>3 DEF Tenure!Reserve, Control!Reserve
  <2> QED BY <2>1 DEF ControlStep, Control!Next
<1>4. CASE Tenure!Interrupt
  <2>1. Control!Interrupt BY <1>4 DEF Tenure!Interrupt, Tenure!Stops, Control!Interrupt
  <2> QED BY <2>1 DEF ControlStep, Control!Next
<1>5. CASE Tenure!Settle
  <2>1. Control!Settle BY <1>5 DEF Tenure!Settle, Tenure!Stops, Control!Settle
  <2> QED BY <2>1 DEF ControlStep, Control!Next
<1>6. CASE UNCHANGED Tenure!tenureVars
  BY <1>6 DEF Tenure!tenureVars, ControlStep, Control!controlVars
<1> QED BY <1>1, <1>2, <1>3, <1>4, <1>5, <1>6 DEF TenureStep, Tenure!Next

\* Without a crash of the planner, nobody takes a reserved desktop back.
LEMMA ReservedKeepsEpoch ==
    ASSUME IInv, QInv, [Next]_vars, lease.inflight # None
    PROVE  lease'.epoch = lease.epoch
<1>0. lease \in Lease /\ Transaction /\ StoreInv
  BY LeaseFacts, StepsAreTransactions DEF IInv
<1>1. ASSUME NEW j \in Job, Reclaim(planner.nonce, j) \/ ClaimNew(planner.nonce, j)
      PROVE  lease'.epoch = lease.epoch
  <2>1. ~ClaimNew(planner.nonce, j) BY <1>0 DEF ClaimNew, StoreInv, LeaseServesClaimed
  <2>2. lease' = [lease EXCEPT !.expired = FALSE] BY <1>1, <2>1, ReclaimIsOwn
  <2> QED BY <1>0, <2>2 DEF Lease
<1>2. \A j, o, e : ~Transfer(j, o, e) BY DEF Transfer, MayTransfer
<1>3. CASE \/ \E inv \in Job \X Op, o \in Controller, e \in Nat, a \in ApprovalId :
                BeginAction(inv[1], o, e, inv, a)
           \/ \E inv \in Job \X Op, a \in ApprovalId, cache \in BOOLEAN :
                FinishAction(inv, a, cache)
           \/ \E j \in Job, o \in Controller, e \in Nat : BeginWindowRecovery(j, o, e)
           \/ \E j \in Job : FinishWindowRecovery(j)
           \/ ExpireLease
  BY <1>0, <1>3 DEF BeginAction, FinishAction, BeginWindowRecovery, FinishWindowRecovery,
     ExpireLease, Lease
<1>4. CASE UNCHANGED lease BY <1>4
<1> QED
  BY <1>0, <1>1, <1>2, <1>3, <1>4 DEF Transaction, storeVars, Resolve, CreateJob, Message,
     PassBudget, End, NoteHandoff, Authorize, StaleApproval, ChangeEmployee, ScopeChanged

(* Leases, epochs, approvals, grants and the two processes implement the     *)
(* plain desktop: one holder, one operation, and neither a handoff nor a new *)
(* request before its receipt, as long as no planner process is killed and   *)
(* its successor reclaims the request.                                       *)
THEOREM DesktopImplementsControl == ASSUME NoPlannerCrash PROVE Spec => ImplementsControl
<1>1. Init => Control!Init
  BY DEF Init, StoreInit, Idle, Operating, Control!Init
<1>2. IInv /\ QInv /\ [Next]_vars => ControlStep
  <2> SUFFICES ASSUME IInv, QInv, [Next]_vars PROVE ControlStep
    OBVIOUS
  <2>1. lease.epoch \in Nat BY LeaseFacts DEF Lease
  <2> QED BY <2>1, StepsAreTenureSteps, ReservedKeepsEpoch, TenureIsControl
<1> QED
  BY <1>1, <1>2, InductiveInvariant, PlannersOwnTheirCommands, PTL
  DEF Spec, ImplementsControl, Control!Spec, ControlStep
=============================================================================
