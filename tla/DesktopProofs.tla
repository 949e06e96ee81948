------------------------------ MODULE DesktopProofs ------------------------------
(* Theorems about Desktop, for every number of requests, approvals, faults, *)
(* handoffs and authority changes.                                          *)
EXTENDS Desktop, TLAPS

ApprovalShape ==
    \A a \in ApprovalId : approvals[a] # Closed =>
        /\ approvals[a].status \in {"authorized", "executing"}
        /\ approvals[a].inv \in Job \X Op
        /\ approvals[a].epoch <= lease.epoch

LeaseServesClaimed ==
    /\ lease.job \in Job =>
          status[lease.job] \in {"running"} \cup Terminal /\ lease.owner \in Controller
    /\ lease.job = None => lease.inflight = None

CurrentIsInFlight ==
    \A a \in ApprovalId :
        approvals[a].status = "executing" /\ approvals[a].epoch = lease.epoch
        => lease.inflight = approvals[a].inv

StoreInv ==
    /\ StoreTypeOK
    /\ ApprovalShape
    /\ LeaseServesClaimed
    /\ AuthorityIsCurrent
    /\ OneStandingApproval
    /\ CurrentIsInFlight

LEMMA ApprovalFacts ==
    /\ Closed \in Approval
    /\ Closed.status = "closed" /\ Closed.inv = None
    /\ \A x \in Approval : x.status # "closed" => x # Closed
BY DEF Approval, Closed

LEMMA InvalidatedFacts ==
    ASSUME StoreTypeOK, NEW js
    PROVE  /\ Invalidated(js) \in [ApprovalId -> Approval]
           /\ \A a \in ApprovalId :
                /\ Invalidated(js)[a] \in {approvals[a], Closed}
                /\ approvals[a].status = "executing" => Invalidated(js)[a] = approvals[a]
                /\ Invalidated(js)[a].status = "authorized" =>
                      approvals[a].status = "authorized" /\ approvals[a].inv[1] \notin js
BY ApprovalFacts DEF StoreTypeOK, Invalidated

LEMMA ActingHasInvocation ==
    ASSUME StoreTypeOK, ApprovalShape, NEW a \in ApprovalId, approvals[a] # Closed
    PROVE  approvals[a].inv # None /\ approvals[a].inv[2] # Window
<1>1. approvals[a].inv \in Job \X Op BY DEF ApprovalShape
<1> QED BY <1>1, NoneAssumption, WindowAssumption

\* A step that only closes approvals.
OnlyCloses ==
    /\ approvals' \in [ApprovalId -> Approval]
    /\ \A a \in ApprovalId : approvals'[a] \in {approvals[a], Closed}

LEMMA ClosingKeepsShape ==
    ASSUME StoreInv, OnlyCloses, lease' \in Lease, lease'.epoch >= lease.epoch
    PROVE  ApprovalShape' /\ OneStandingApproval'
<1>1. ApprovalShape'
  BY DEF StoreInv, StoreTypeOK, ApprovalShape, OnlyCloses, Lease, Approval
<1>2. OneStandingApproval'
  <2> SUFFICES ASSUME NEW a \in ApprovalId, NEW b \in ApprovalId,
                      approvals'[a] # Closed, approvals'[a].inv = approvals'[b].inv
               PROVE  a = b
      BY DEF OneStandingApproval
  <2>1. approvals'[a] = approvals[a] BY DEF OnlyCloses
  <2>2. approvals[a].inv # None BY <2>1, ActingHasInvocation DEF StoreInv
  <2>3. approvals'[b] = approvals[b] BY <2>1, <2>2, ApprovalFacts DEF OnlyCloses
  <2> QED BY <2>1, <2>3 DEF StoreInv, OneStandingApproval
<1> QED BY <1>1, <1>2

LEMMA InvalidatedCloses ==
    ASSUME StoreTypeOK, NEW js, approvals' = Invalidated(js)
    PROVE  OnlyCloses
BY InvalidatedFacts DEF OnlyCloses

LEMMA AuthorizedForLease ==
    ASSUME StoreInv, NEW a \in ApprovalId, approvals[a].status = "authorized"
    PROVE  /\ lease.job \in Job
           /\ approvals[a].inv[1] = lease.job
           /\ approvals[a].epoch = lease.epoch
           /\ Live(lease.job)
           /\ lease.owner # "staff"
<1>1. approvals[a] # Closed BY ApprovalFacts
<1>2. approvals[a].inv \in Job \X Op BY <1>1 DEF StoreInv, ApprovalShape
<1> QED BY <1>2 DEF StoreInv, AuthorityIsCurrent

\* A new epoch of control, of the same request or of another one.
LEMMA NewEpoch ==
    ASSUME lease \in Lease, NEW o \in Controller, NEW w \in Nat
    PROVE  LET reclaimed == [lease EXCEPT !.worker = w, !.epoch = @ + 1,
                                          !.expired = FALSE, !.inflight = None]
               moved == [lease EXCEPT !.owner = o, !.epoch = @ + 1, !.expired = FALSE]
           IN  /\ \A l \in {reclaimed, moved} :
                    /\ l \in Lease
                    /\ l.job = lease.job
                    /\ l.epoch = lease.epoch + 1
                    /\ l.epoch > lease.epoch /\ l.epoch >= lease.epoch
               /\ reclaimed.owner = lease.owner
<1>1. lease.epoch \in Nat BY DEF Lease
<1>2. lease.epoch + 1 \in Nat /\ lease.epoch + 1 > lease.epoch /\ lease.epoch + 1 >= lease.epoch
  BY <1>1
<1> QED BY <1>2 DEF Lease

-----------------------------------------------------------------------------
(* Every transaction keeps the invariant of the tables *)

LEMMA EndKeepsStoreInv ==
    ASSUME StoreInv, NEW j \in Job, NEW s \in Terminal, End(j, s)
    PROVE  StoreInv'
<1> USE ApprovalFacts, InvalidatedFacts DEF StoreInv
<1>1. StoreTypeOK' BY DEF StoreTypeOK, End, Status
<1>2. ApprovalShape' /\ OneStandingApproval'
  BY InvalidatedCloses, ClosingKeepsShape DEF End, StoreTypeOK, Lease
<1>3. LeaseServesClaimed' BY DEF LeaseServesClaimed, End, StoreTypeOK
<1>4. AuthorityIsCurrent' BY DEF AuthorityIsCurrent, End, StoreTypeOK, Live
<1>5. CurrentIsInFlight' BY DEF CurrentIsInFlight, End
<1> QED BY <1>1, <1>2, <1>3, <1>4, <1>5

LEMMA MessageKeepsStoreInv ==
    ASSUME StoreInv, NEW j \in Job, Message(j)
    PROVE  StoreInv'
<1> USE ApprovalFacts, InvalidatedFacts DEF StoreInv
<1>1. StoreTypeOK' BY DEF StoreTypeOK, Message
<1>2. ApprovalShape' /\ OneStandingApproval'
  BY InvalidatedCloses, ClosingKeepsShape DEF Message, StoreTypeOK, Lease
<1>3. LeaseServesClaimed' BY DEF LeaseServesClaimed, Message
<1>4. AuthorityIsCurrent' BY DEF AuthorityIsCurrent, Message, Live
<1>5. CurrentIsInFlight' BY DEF CurrentIsInFlight, Message
<1> QED BY <1>1, <1>2, <1>3, <1>4, <1>5

LEMMA SubmitKeepsStoreInv ==
    ASSUME StoreInv, NEW j \in Job, Resolve(j) \/ CreateJob(j)
    PROVE  StoreInv'
<1> USE DEF StoreInv, Resolve, CreateJob
<1>1. StoreTypeOK' BY DEF StoreTypeOK, Status
<1>2. LeaseServesClaimed' BY DEF LeaseServesClaimed, StoreTypeOK, Terminal
<1>3. AuthorityIsCurrent' BY AuthorizedForLease DEF AuthorityIsCurrent, StoreTypeOK, Live
<1> QED BY <1>1, <1>2, <1>3 DEF ApprovalShape, OneStandingApproval, CurrentIsInFlight

LEMMA ReclaimKeepsStoreInv ==
    ASSUME StoreInv, NEW j \in Job, NEW w \in Nat, Reclaim(w, j)
    PROVE  StoreInv'
<1> USE ApprovalFacts, InvalidatedFacts DEF StoreInv
<1>1. CASE lease' = [lease EXCEPT !.expired = FALSE] /\ UNCHANGED approvals
  <2>1. /\ lease' \in Lease
        /\ lease'.job = lease.job /\ lease'.owner = lease.owner
        /\ lease'.epoch = lease.epoch /\ lease'.inflight = lease.inflight
    BY <1>1 DEF StoreTypeOK, Lease
  <2>2. StoreTypeOK' BY <1>1, <2>1 DEF StoreTypeOK, Reclaim
  <2> QED
    BY <1>1, <2>1, <2>2 DEF Reclaim, Live, ApprovalShape, LeaseServesClaimed,
        AuthorityIsCurrent, OneStandingApproval, CurrentIsInFlight
<1>2. CASE /\ lease' = [lease EXCEPT !.worker = w, !.epoch = @ + 1,
                                     !.expired = FALSE, !.inflight = None]
           /\ approvals' = Invalidated({j})
  <2>1. /\ lease' \in Lease
        /\ lease'.job = lease.job /\ lease'.owner = lease.owner
        /\ lease'.epoch = lease.epoch + 1 /\ lease'.epoch >= lease.epoch
    BY <1>2, NewEpoch DEF StoreTypeOK, Controller
  <2>2. StoreTypeOK' BY <1>2, <2>1 DEF StoreTypeOK, Reclaim
  <2>3. ApprovalShape' /\ OneStandingApproval'
    BY <1>2, <2>1, InvalidatedCloses, ClosingKeepsShape
  <2>4. LeaseServesClaimed' BY <2>1, NoneAssumption DEF LeaseServesClaimed, Reclaim
  <2>5. AuthorityIsCurrent' BY <1>2, <2>1 DEF AuthorityIsCurrent, Reclaim
  <2>6. CurrentIsInFlight'
    <3> SUFFICES ASSUME NEW a \in ApprovalId, approvals'[a].status = "executing",
                        approvals'[a].epoch = lease'.epoch
                 PROVE  FALSE
        BY DEF CurrentIsInFlight
    <3>1. approvals'[a] = approvals[a] /\ approvals[a] # Closed BY <1>2
    <3> QED BY <3>1, <2>1 DEF ApprovalShape, StoreTypeOK, Lease, Approval
  <2> QED BY <2>2, <2>3, <2>4, <2>5, <2>6
<1> QED BY <1>1, <1>2 DEF Reclaim

LEMMA ClaimNewKeepsStoreInv ==
    ASSUME StoreInv, NEW j \in Job, NEW w \in Nat, ClaimNew(w, j)
    PROVE  StoreInv'
<1> USE DEF StoreInv
<1>0. /\ lease' \in Lease /\ lease'.epoch = lease.epoch + 1
      /\ lease'.job = j /\ lease'.owner \in Controller
  BY DEF ClaimNew, StoreTypeOK, Lease, Controller
<1>1. StoreTypeOK' BY <1>0 DEF StoreTypeOK, ClaimNew, Status
<1>2. ApprovalShape' /\ OneStandingApproval'
  BY <1>0 DEF ApprovalShape, OneStandingApproval, ClaimNew, StoreTypeOK, Lease, Approval
<1>3. LeaseServesClaimed' BY <1>0 DEF LeaseServesClaimed, ClaimNew, StoreTypeOK
<1>4. \A a \in ApprovalId : approvals[a].status # "authorized"
  <2> SUFFICES ASSUME NEW a \in ApprovalId, approvals[a].status = "authorized" PROVE FALSE
      OBVIOUS
  <2>1. approvals[a].inv \in Job \X Op /\ approvals[a].inv[1] = lease.job /\ Live(lease.job)
      BY ApprovalFacts DEF ApprovalShape, AuthorityIsCurrent
  <2>2. lease.job # None /\ status[lease.job] \in Terminal
      BY <2>1, NoneAssumption DEF ClaimNew
  <2> QED BY <2>1, <2>2 DEF Live, Terminal
<1>5. AuthorityIsCurrent' BY <1>4 DEF AuthorityIsCurrent, ClaimNew
<1>6. CurrentIsInFlight'
  BY <1>0, ApprovalFacts DEF CurrentIsInFlight, ClaimNew, StoreTypeOK, Lease, ApprovalShape, Approval
<1> QED BY <1>1, <1>2, <1>3, <1>5, <1>6

LEMMA TransferKeepsStoreInv ==
    ASSUME StoreInv, NEW j \in Job, NEW o \in Controller, NEW e, Transfer(j, o, e)
    PROVE  StoreInv'
<1> USE ApprovalFacts, InvalidatedFacts DEF StoreInv, MayTransfer
<1>0. /\ lease' \in Lease
      /\ lease'.epoch = lease.epoch + 1
      /\ lease'.job = lease.job
      /\ lease.job = j
  BY NewEpoch DEF Transfer, StoreTypeOK
<1>1. StoreTypeOK' BY <1>0 DEF StoreTypeOK, Transfer
<1>2. ApprovalShape' /\ OneStandingApproval'
  BY <1>0, InvalidatedCloses, ClosingKeepsShape DEF Transfer, StoreTypeOK, Lease
<1>3. LeaseServesClaimed' BY <1>0 DEF LeaseServesClaimed, Transfer
<1>4. AuthorityIsCurrent' BY <1>0 DEF AuthorityIsCurrent, Transfer
<1>5. CurrentIsInFlight'
  BY <1>0 DEF CurrentIsInFlight, Transfer, StoreTypeOK, Lease, ApprovalShape, Approval
<1> QED BY <1>1, <1>2, <1>3, <1>4, <1>5

LEMMA NoteKeepsStoreInv ==
    ASSUME StoreInv, NEW j \in Job, NEW o \in Controller \cup {None}, NoteHandoff(j, o)
    PROVE  StoreInv'
BY DEF StoreInv, NoteHandoff, StoreTypeOK, ApprovalShape, LeaseServesClaimed,
       AuthorityIsCurrent, Live, OneStandingApproval, CurrentIsInFlight

LEMMA AuthorizeKeepsStoreInv ==
    ASSUME StoreInv, NEW j \in Job, NEW inv \in Job \X Op, inv[1] = j, NEW e \in Nat,
           NEW a \in ApprovalId, Authorize(j, inv, e, a)
    PROVE  StoreInv'
<1> USE DEF StoreInv
<1>0. /\ lease.job = j /\ lease.epoch = e /\ lease.owner # "staff" /\ status[j] \notin Terminal
  BY DEF Authorize, MayAuthorize, Check, Holds, Stopped
<1>1. CASE UNCHANGED approvals
  BY <1>1 DEF Authorize, StoreTypeOK, ApprovalShape, LeaseServesClaimed,
       AuthorityIsCurrent, Live, OneStandingApproval, CurrentIsInFlight
<1>2. CASE ~UNCHANGED approvals
  <2> DEFINE new == [status |-> "authorized", inv |-> inv, epoch |-> e,
                     revision |-> employee.revision]
  <2>1. /\ approvals[a] = Closed
        /\ approvals' = [approvals EXCEPT ![a] = new]
        /\ Standing(inv) = {}
    BY <1>2 DEF Authorize, FreshApproval
  <2>2. new \in Approval /\ new # Closed
    BY DEF StoreTypeOK, Approval, Invocation, Closed
  <2>3. StoreTypeOK' BY <2>1, <2>2 DEF StoreTypeOK, Authorize
  <2>4. ApprovalShape'
    BY <1>0, <2>1, <2>2 DEF StoreTypeOK, ApprovalShape, Authorize, Lease
  <2>5. LeaseServesClaimed' BY DEF LeaseServesClaimed, Authorize
  <2>6. AuthorityIsCurrent'
    BY <1>0, <2>1 DEF AuthorityIsCurrent, StoreTypeOK, Authorize, LeaseServesClaimed, Live
  <2>7. OneStandingApproval'
    BY <2>1, <2>2 DEF OneStandingApproval, StoreTypeOK, Standing
  <2>8. CurrentIsInFlight'
    BY <2>1 DEF CurrentIsInFlight, StoreTypeOK, Authorize
  <2> QED BY <2>3, <2>4, <2>5, <2>6, <2>7, <2>8
<1> QED BY <1>1, <1>2

LEMMA StaleKeepsStoreInv ==
    ASSUME StoreInv, NEW a \in ApprovalId, StaleApproval(a)
    PROVE  StoreInv'
<1> USE ApprovalFacts DEF StoreInv
<1>1. StoreTypeOK' BY DEF StoreTypeOK, StaleApproval
<1>2. OnlyCloses BY DEF OnlyCloses, StaleApproval, StoreTypeOK
<1>3. ApprovalShape' /\ OneStandingApproval'
  BY <1>2, ClosingKeepsShape DEF StaleApproval, StoreTypeOK, Lease
<1>4. LeaseServesClaimed' BY DEF LeaseServesClaimed, StaleApproval
<1>5. AuthorityIsCurrent' BY DEF AuthorityIsCurrent, StaleApproval, Live, StoreTypeOK
<1>6. CurrentIsInFlight' BY DEF CurrentIsInFlight, StaleApproval, StoreTypeOK
<1> QED BY <1>1, <1>3, <1>4, <1>5, <1>6

LEMMA BeginKeepsStoreInv ==
    ASSUME StoreInv, NEW j \in Job, NEW o \in Controller, NEW e \in Nat,
           NEW inv \in Job \X Op, NEW a \in ApprovalId, BeginAction(j, o, e, inv, a)
    PROVE  StoreInv'
<1> USE ApprovalFacts DEF StoreInv
<1>0. /\ approvals[a].status = "authorized" /\ approvals[a].inv = inv
      /\ approvals[a].epoch = lease.epoch /\ approvals[a] # Closed
      /\ lease.inflight \in {None, inv}
  BY DEF BeginAction, MayBegin, MayIssue, Check, Holds
<1>1. /\ lease' \in Lease /\ lease'.inflight = inv
      /\ lease'.job = lease.job /\ lease'.owner = lease.owner /\ lease'.epoch = lease.epoch
  BY DEF BeginAction, StoreTypeOK, Lease, Invocation
<1>2. /\ approvals' \in [ApprovalId -> Approval]
      /\ approvals'[a].status = "executing" /\ approvals'[a].inv = inv
      /\ approvals'[a].epoch = lease.epoch /\ approvals'[a] # Closed
      /\ \A b \in ApprovalId : b # a => approvals'[b] = approvals[b]
  BY <1>0 DEF BeginAction, StoreTypeOK, Approval
<1>3. StoreTypeOK' BY <1>1, <1>2 DEF StoreTypeOK, BeginAction
<1>4. ApprovalShape' BY <1>0, <1>1, <1>2 DEF ApprovalShape
<1>5. LeaseServesClaimed'
  <2>1. lease.job # None
    BY NoneAssumption DEF BeginAction, MayBegin, MayIssue, Check, Holds
  <2> QED BY <1>1, <2>1 DEF LeaseServesClaimed, BeginAction
<1>6. AuthorityIsCurrent'
  BY <1>1, <1>2 DEF AuthorityIsCurrent, BeginAction, Live
<1>7. OneStandingApproval' BY <1>0, <1>2 DEF OneStandingApproval
<1>8. CurrentIsInFlight'
  <2> SUFFICES ASSUME NEW b \in ApprovalId, b # a, approvals[b].status = "executing",
                      approvals[b].epoch = lease.epoch
               PROVE  FALSE
    BY <1>1, <1>2 DEF CurrentIsInFlight
  <2>1. approvals[b] # Closed /\ lease.inflight = approvals[b].inv
    BY DEF CurrentIsInFlight
  <2>2. approvals[b].inv # None BY <2>1, ActingHasInvocation
  <2>3. approvals[b].inv = approvals[a].inv BY <1>0, <2>1, <2>2
  <2> QED BY <2>1, <2>3 DEF OneStandingApproval
<1> QED BY <1>3, <1>4, <1>5, <1>6, <1>7, <1>8

LEMMA FinishKeepsStoreInv ==
    ASSUME StoreInv, NEW inv \in Job \X Op, NEW a \in ApprovalId, NEW cache \in BOOLEAN,
           FinishAction(inv, a, cache)
    PROVE  StoreInv'
<1> USE ApprovalFacts DEF StoreInv
<1>0. approvals[a].status = "executing" /\ approvals[a].inv = inv /\ approvals[a] # Closed
  BY DEF FinishAction, MayFinish
<1>1. /\ lease' \in Lease
      /\ lease.inflight # inv => lease'.inflight = lease.inflight
      /\ lease'.job = lease.job /\ lease'.owner = lease.owner /\ lease'.epoch = lease.epoch
  BY DEF FinishAction, StoreTypeOK, Lease
<1>2. /\ approvals' = [approvals EXCEPT ![a] = Closed]
      /\ approvals' \in [ApprovalId -> Approval]
  BY DEF FinishAction, StoreTypeOK
<1>3. StoreTypeOK' BY <1>1, <1>2 DEF StoreTypeOK, FinishAction, Invocation
<1>4. ApprovalShape' /\ OneStandingApproval'
  BY <1>1, <1>2, ClosingKeepsShape DEF OnlyCloses, StoreTypeOK, Lease
<1>5. LeaseServesClaimed' BY <1>1 DEF LeaseServesClaimed, FinishAction
<1>6. AuthorityIsCurrent'
  BY <1>1, <1>2 DEF AuthorityIsCurrent, FinishAction, Live, StoreTypeOK
<1>7. CurrentIsInFlight'
  <2> SUFFICES ASSUME NEW b \in ApprovalId, approvals'[b].status = "executing",
                      approvals'[b].epoch = lease.epoch
               PROVE  lease'.inflight = approvals'[b].inv
    BY <1>1 DEF CurrentIsInFlight
  <2>1. b # a /\ approvals'[b] = approvals[b] /\ approvals[b] # Closed
    BY <1>2 DEF StoreTypeOK
  <2>2. lease.inflight = approvals[b].inv BY <2>1 DEF CurrentIsInFlight
  <2>3. approvals[b].inv # inv BY <1>0, <2>1 DEF OneStandingApproval
  <2> QED BY <1>1, <2>1, <2>2, <2>3
<1> QED BY <1>3, <1>4, <1>5, <1>6, <1>7

LEMMA WindowKeepsStoreInv ==
    ASSUME StoreInv, NEW j \in Job,
           \/ \E o \in Controller, e \in Nat : BeginWindowRecovery(j, o, e)
           \/ FinishWindowRecovery(j)
    PROVE  StoreInv'
<1> USE ApprovalFacts DEF StoreInv
<1>0. /\ UNCHANGED <<status, overdue, approvals, receipts, handoff, employee>>
      /\ lease.inflight \in {None, <<j, Window>>}
  BY DEF BeginWindowRecovery, FinishWindowRecovery, MayRecoverWindow
<1>1. /\ lease' \in Lease
      /\ lease'.job = lease.job /\ lease'.owner = lease.owner /\ lease'.epoch = lease.epoch
  BY DEF BeginWindowRecovery, FinishWindowRecovery, StoreTypeOK, Lease, Invocation
<1>2. \A a \in ApprovalId :
        ~(approvals[a].status = "executing" /\ approvals[a].epoch = lease.epoch)
  <2> SUFFICES ASSUME NEW a \in ApprovalId, approvals[a].status = "executing",
                      approvals[a].epoch = lease.epoch
               PROVE  FALSE
    OBVIOUS
  <2>1. approvals[a] # Closed /\ lease.inflight = approvals[a].inv
    BY DEF CurrentIsInFlight
  <2> QED BY <1>0, <2>1, ActingHasInvocation
<1>3. StoreTypeOK' BY <1>0, <1>1 DEF StoreTypeOK
<1>4. LeaseServesClaimed'
  <2>1. lease.job = j
    BY DEF BeginWindowRecovery, FinishWindowRecovery, MayRecoverWindow, Check, Holds,
        AssignedReceipt
  <2> QED BY <1>0, <1>1, <2>1, NoneAssumption DEF LeaseServesClaimed
<1> QED
  BY <1>0, <1>1, <1>2, <1>3, <1>4 DEF ApprovalShape, AuthorityIsCurrent, Live,
      OneStandingApproval, CurrentIsInFlight

LEMMA EmployeeKeepsStoreInv ==
    ASSUME StoreInv, NEW s \in {"active", "paused"}, ChangeEmployee(s) \/ ScopeChanged
    PROVE  StoreInv'
<1> USE ApprovalFacts DEF StoreInv
<1>0. employee' \in [state: {"active", "paused"}, revision: Nat]
  BY DEF ChangeEmployee, ScopeChanged, StoreTypeOK
<1>1. CASE UNCHANGED <<status, approvals>>
  BY <1>0, <1>1 DEF ChangeEmployee, ScopeChanged, StoreTypeOK, ApprovalShape,
      LeaseServesClaimed, AuthorityIsCurrent, Live, OneStandingApproval, CurrentIsInFlight
<1>2. CASE ~UNCHANGED <<status, approvals>>
  <2> DEFINE js == {j \in Job : Live(j)}
  <2>1. /\ status' = [j \in Job |-> IF Live(j) THEN "cancelled" ELSE status[j]]
        /\ approvals' = Invalidated(js)
        /\ UNCHANGED <<overdue, lease, receipts, handoff>>
    BY <1>2 DEF ChangeEmployee, ScopeChanged
  <2>2. StoreTypeOK'
    BY <1>0, <2>1, InvalidatedFacts DEF StoreTypeOK, Status, Terminal
  <2>3. ApprovalShape' /\ OneStandingApproval'
    BY <2>1, InvalidatedCloses, ClosingKeepsShape DEF StoreTypeOK, Lease
  <2>4. LeaseServesClaimed' BY <2>1 DEF LeaseServesClaimed, Terminal, Live
  <2>5. AuthorityIsCurrent'
    BY <2>1, InvalidatedFacts, AuthorizedForLease DEF AuthorityIsCurrent
  <2>6. CurrentIsInFlight' BY <2>1, InvalidatedFacts DEF CurrentIsInFlight
  <2> QED BY <2>2, <2>3, <2>4, <2>5, <2>6
<1> QED BY <1>1, <1>2

LEMMA ClockKeepsStoreInv ==
    ASSUME StoreInv, NEW j \in Job, ExpireLease \/ PassBudget(j)
    PROVE  StoreInv'
<1>1. /\ lease' \in Lease
      /\ lease'.job = lease.job /\ lease'.owner = lease.owner
      /\ lease'.epoch = lease.epoch /\ lease'.inflight = lease.inflight
  BY DEF StoreInv, StoreTypeOK, Lease, ExpireLease, PassBudget
<1> QED
  BY <1>1 DEF StoreInv, ExpireLease, PassBudget, StoreTypeOK, ApprovalShape,
      LeaseServesClaimed, AuthorityIsCurrent, Live, OneStandingApproval, CurrentIsInFlight

LEMMA IdleKeepsStoreInv ==
    ASSUME StoreInv, UNCHANGED storeVars
    PROVE  StoreInv'
BY DEF storeVars, StoreInv, StoreTypeOK, ApprovalShape, LeaseServesClaimed,
       AuthorityIsCurrent, Live, OneStandingApproval, CurrentIsInFlight

-----------------------------------------------------------------------------
(* The executor's part of the invariant *)

ExecBound ==
    exec.pc # "idle" =>
        /\ exec.inv \in Job \X Op
        /\ exec.owner \in {"script", "assistant"}
        /\ exec.epoch <= lease.epoch
        /\ exec.epoch = lease.epoch => lease.job = exec.inv[1] /\ lease.owner = exec.owner

ExecApproval ==
    exec.pc \in {"staling", "approved", "granted", "closing"} \cup Operating
        => exec.approval \in ApprovalId

ExecHolds ==
    exec.pc \in Operating =>
        /\ approvals[exec.approval].status = "executing"
        /\ approvals[exec.approval].inv = exec.inv
        /\ approvals[exec.approval].epoch = exec.epoch

ReceiptsAreOver == \A inv \in receipts : Standing(inv) = {}
NothingRepeated == exec.pc \notin {"idle", "closing"} => exec.inv \notin receipts

ExecInv == ExecBound /\ ExecApproval /\ ExecHolds /\ ReceiptsAreOver /\ NothingRepeated

\* Whoever is at work is at work on a request.
PlannerOK ==
    /\ planner \in PlannerState
    /\ planner.pc \notin {"idle", "down"} => planner.job \in Job
ConsoleOK ==
    /\ console \in ConsoleState
    /\ console.pc # "idle" => console.job \in Job
EdgeInv == EdgeTypeOK /\ PlannerOK /\ ConsoleOK

IInv == StoreInv /\ EdgeInv /\ ExecInv

\* What a transaction of somebody else may do to the tables while the
\* executor is at work.
Frame ==
    /\ lease'.epoch >= lease.epoch
    /\ lease'.epoch = lease.epoch => lease'.job = lease.job /\ lease'.owner = lease.owner
    /\ OnlyCloses
    /\ \A a \in ApprovalId : approvals[a].status = "executing" => approvals'[a] = approvals[a]
    /\ receipts' = receipts

LEMMA EndFrames ==
    ASSUME StoreInv, NEW js, approvals' = Invalidated(js), receipts' = receipts,
           lease' = lease
    PROVE  Frame
BY InvalidatedFacts, InvalidatedCloses DEF Frame, StoreInv, StoreTypeOK, Lease

LEMMA LeaseFrames ==
    ASSUME StoreInv, UNCHANGED <<approvals, receipts>>, lease'.epoch >= lease.epoch,
           lease'.epoch = lease.epoch => lease'.job = lease.job /\ lease'.owner = lease.owner
    PROVE  Frame
BY DEF Frame, OnlyCloses, StoreInv, StoreTypeOK

LEMMA ClaimFrames ==
    ASSUME StoreInv, NEW j \in Job, NEW w \in Nat, Reclaim(w, j) \/ ClaimNew(w, j)
    PROVE  Frame
<1> USE DEF StoreInv, StoreTypeOK
<1>1. CASE ClaimNew(w, j)
  BY <1>1, LeaseFrames DEF ClaimNew, Lease
<1>2. CASE Reclaim(w, j) /\ lease' = [lease EXCEPT !.expired = FALSE] /\ UNCHANGED approvals
  <2>1. lease'.epoch >= lease.epoch /\ lease'.job = lease.job /\ lease'.owner = lease.owner
    BY <1>2 DEF Lease
  <2> QED BY <1>2, <2>1, LeaseFrames DEF Reclaim
<1>3. CASE /\ Reclaim(w, j)
           /\ lease' = [lease EXCEPT !.worker = w, !.epoch = @ + 1,
                                     !.expired = FALSE, !.inflight = None]
           /\ approvals' = Invalidated({j})
  <2>1. lease'.epoch >= lease.epoch /\ lease'.job = lease.job /\ lease'.owner = lease.owner
    BY <1>3, NewEpoch DEF Controller
  <2> QED BY <1>3, <2>1, InvalidatedFacts, InvalidatedCloses DEF Frame, Reclaim
<1> QED BY <1>1, <1>2, <1>3 DEF Reclaim

LEMMA TransferFrames ==
    ASSUME StoreInv, NEW j \in Job, NEW o \in Controller, NEW e, Transfer(j, o, e)
    PROVE  Frame
<1>1. lease'.epoch > lease.epoch /\ lease'.epoch >= lease.epoch
  BY NewEpoch DEF StoreInv, StoreTypeOK, Transfer
<1>2. lease'.epoch # lease.epoch BY <1>1 DEF StoreInv, StoreTypeOK, Lease
<1> QED
  BY <1>1, <1>2, InvalidatedFacts, InvalidatedCloses DEF Frame, Transfer, StoreInv

LEMMA WindowFrames ==
    ASSUME StoreInv, NEW j \in Job,
           \/ \E o \in Controller, e \in Nat : BeginWindowRecovery(j, o, e)
           \/ FinishWindowRecovery(j)
    PROVE  Frame
<1>1. lease'.epoch = lease.epoch /\ lease'.job = lease.job /\ lease'.owner = lease.owner
      /\ lease'.epoch >= lease.epoch
  BY DEF BeginWindowRecovery, FinishWindowRecovery, StoreInv, StoreTypeOK, Lease
<1> QED BY <1>1, LeaseFrames DEF BeginWindowRecovery, FinishWindowRecovery

LEMMA EmployeeFrames ==
    ASSUME StoreInv, NEW s, ChangeEmployee(s) \/ ScopeChanged
    PROVE  Frame
<1>1. CASE UNCHANGED approvals
  BY <1>1, LeaseFrames DEF ChangeEmployee, ScopeChanged, StoreInv, StoreTypeOK, Lease
<1>2. CASE approvals' = Invalidated({j \in Job : Live(j)})
  BY <1>2, EndFrames DEF ChangeEmployee, ScopeChanged
<1> QED BY <1>1, <1>2 DEF ChangeEmployee, ScopeChanged

LEMMA ClockFrames ==
    ASSUME StoreInv, NEW j, ExpireLease \/ PassBudget(j)
    PROVE  Frame
<1>1. lease'.epoch = lease.epoch /\ lease'.job = lease.job /\ lease'.owner = lease.owner
      /\ lease'.epoch >= lease.epoch
  BY DEF ExpireLease, PassBudget, StoreInv, StoreTypeOK, Lease
<1> QED BY <1>1, LeaseFrames DEF ExpireLease, PassBudget

LEMMA IdleFrames ==
    ASSUME StoreInv, UNCHANGED <<lease, approvals, receipts>>
    PROVE  Frame
BY LeaseFrames DEF StoreInv, StoreTypeOK, Lease

LEMMA FrameKeepsReceipts ==
    ASSUME IInv, Frame
    PROVE  ReceiptsAreOver'
<1> SUFFICES ASSUME NEW inv \in receipts, NEW a \in ApprovalId, approvals'[a].inv = inv
             PROVE  FALSE
  BY DEF ReceiptsAreOver, Standing, Frame
<1>1. inv # None
  BY NoneAssumption DEF IInv, StoreInv, StoreTypeOK, Invocation
<1>2. approvals[a].inv = inv BY <1>1, ApprovalFacts DEF Frame, OnlyCloses
<1> QED BY <1>2 DEF IInv, ExecInv, ReceiptsAreOver, Standing

\* The executor's work is undisturbed, whatever its pc becomes among the
\* steps that need no more than the present one.
SameWork(pcs) ==
    /\ exec'.pc \in pcs
    /\ exec'.inv = exec.inv /\ exec'.owner = exec.owner
    /\ exec'.epoch = exec.epoch /\ exec'.approval = exec.approval

LEMMA FrameKeepsExecInv ==
    ASSUME IInv, Frame, SameWork({exec.pc}), lease' \in Lease
    PROVE  ExecInv'
<1> USE DEF IInv, ExecInv, Frame, SameWork
<1>1. ExecBound'
  BY DEF ExecBound, StoreInv, StoreTypeOK, Lease, EdgeInv, EdgeTypeOK, ExecState
<1>2. ExecApproval' BY DEF ExecApproval
<1>3. ExecHolds'
  <2>1. Operating \subseteq {"staling", "approved", "granted", "closing"} \cup Operating
    OBVIOUS
  <2> QED BY <2>1 DEF ExecHolds, ExecApproval
<1>4. ReceiptsAreOver' BY FrameKeepsReceipts
<1>5. NothingRepeated' BY DEF NothingRepeated
<1> QED BY <1>1, <1>2, <1>3, <1>4, <1>5

\* A step of somebody else.
LEMMA OthersKeepIInv ==
    ASSUME IInv, StoreInv', Frame, SameWork({exec.pc}), EdgeInv'
    PROVE  IInv'
<1>1. lease' \in Lease BY DEF StoreInv, StoreTypeOK
<1> QED BY <1>1, FrameKeepsExecInv DEF IInv

\* A step of the executor that begins nothing.
LEMMA ExecStepKeepsExecInv ==
    ASSUME IInv, Frame, SameWork(ExecPc), lease' \in Lease,
           exec.pc # "idle",
           exec.pc = "closing" => exec'.pc = "closing",
           exec'.pc \in Operating => exec.pc \in Operating,
           exec'.pc \in {"staling", "approved", "granted", "closing"} \cup Operating
               => exec.approval \in ApprovalId
    PROVE  ExecInv'
<1> USE DEF IInv, ExecInv, Frame, SameWork
<1>1. ExecBound'
  BY DEF ExecBound, StoreInv, StoreTypeOK, Lease, EdgeInv, EdgeTypeOK, ExecState
<1>2. ExecApproval' BY DEF ExecApproval
<1>3. ExecHolds'
  <2>1. Operating \subseteq {"staling", "approved", "granted", "closing"} \cup Operating
    OBVIOUS
  <2> QED BY <2>1 DEF ExecHolds, ExecApproval
<1>4. ReceiptsAreOver' BY FrameKeepsReceipts
<1>5. NothingRepeated' BY DEF NothingRepeated
<1> QED BY <1>1, <1>2, <1>3, <1>4, <1>5

LEMMA IdleKeepsExecInv ==
    ASSUME exec' = Idle, ReceiptsAreOver'
    PROVE  ExecInv'
BY DEF Idle, ExecInv, ExecBound, ExecApproval, ExecHolds, NothingRepeated, Operating

-----------------------------------------------------------------------------
(* Types of the local state *)

LEMMA PlannerGoesOK ==
    ASSUME EdgeInv, NEW pc \in PlannerPc, PlannerGoes(pc),
           planner.pc \notin {"idle", "down"} \/ pc \in {"idle", "down", planner.pc}
    PROVE  PlannerOK'
BY DEF EdgeInv, PlannerOK, PlannerGoes, PlannerState, Verdict

LEMMA ReplyOK ==
    ASSUME EdgeInv, NEW caller, NEW answer \in Answer, NEW waiting,
           Reply(caller, answer, waiting)
    PROVE  PlannerOK'
<1>1. CASE UNCHANGED planner BY <1>1 DEF EdgeInv, PlannerOK
<1>2. CASE /\ PlannerAt("waiting")
           /\ \E v \in Verdict : planner' = [planner EXCEPT !.verdict = v] \/ PlannerGoes(v)
  <2>1. PICK v \in Verdict : planner' = [planner EXCEPT !.verdict = v] \/ PlannerGoes(v)
    BY <1>2
  <2>2. CASE planner' = [planner EXCEPT !.verdict = v]
    BY <2>2 DEF EdgeInv, PlannerOK, PlannerState
  <2>3. CASE PlannerGoes(v)
    <3>1. v \in PlannerPc BY DEF Verdict, PlannerPc
    <3> QED BY <1>2, <2>3, <3>1, PlannerGoesOK DEF PlannerAt
  <2> QED BY <2>1, <2>2, <2>3
<1> QED BY <1>1, <1>2 DEF Reply

LEMMA RefusalType ==
    \A j : Refusal(j) \in Answer /\ OnRefusal(j) \in PlannerPc
BY DEF Refusal, OnRefusal, Answer, PlannerPc

LEMMA RefusedTransferType == \A j : OnRefusedTransfer(j) \in PlannerPc
BY DEF OnRefusedTransfer, PlannerPc

LEMMA IdleType == Idle \in ExecState
BY DEF Idle, ExecState, ExecPc, Answer, Nobody

LEMMA FinishesOK ==
    ASSUME EdgeInv, NEW answer \in Answer, Finishes(answer)
    PROVE  exec' \in ExecState /\ PlannerOK'
BY ReplyOK, IdleType DEF Finishes

LEMMA ForgetType ==
    ASSUME EdgeTypeOK
    PROVE  /\ {Forget(r) : r \in requests} \subseteq Command
           /\ Forget(exec) \in ExecState
           /\ exec' = Forget(exec) => SameWork({exec.pc})
BY DEF EdgeTypeOK, Forget, Command, ExecState, Nobody, SameWork

-----------------------------------------------------------------------------
(* Every action keeps the inductive invariant *)

LEMMA PlannerKeepsIInv ==
    ASSUME IInv, PlannerNext
    PROVE  IInv'
<1> USE RefusalType
<1>0. /\ StoreInv /\ EdgeInv /\ EdgeTypeOK /\ PlannerOK /\ ConsoleOK
      /\ {"idle", "claimed", "ticking", "assisting", "waiting", "concluding", "failing",
           "reporting", "down"} \subseteq PlannerPc
  BY DEF IInv, EdgeInv, PlannerPc
<1>1. StoreTypeOK /\ lease \in Lease BY <1>0 DEF StoreInv, StoreTypeOK
\* An action that only moves the planner, and perhaps its commands.
<1>a. ASSUME UNCHANGED storeVars, PlannerOK', requests' \subseteq Command,
             exec' = exec \/ exec' = Forget(exec), UNCHANGED <<console, spent>>
      PROVE  IInv'
  <2>1. StoreInv' BY <1>0, <1>a, IdleKeepsStoreInv
  <2>2. Frame BY <1>0, <1>a, IdleFrames DEF storeVars
  <2>3. SameWork({exec.pc}) BY <1>0, <1>a, ForgetType DEF SameWork
  <2>4. EdgeTypeOK' BY <1>0, <1>a, ForgetType DEF EdgeTypeOK, PlannerOK
  <2>5. EdgeInv' BY <1>0, <1>a, <2>4 DEF EdgeInv, ConsoleOK
  <2> QED BY <2>1, <2>2, <2>3, <2>5, OthersKeepIInv
\* An action that also makes a transaction.
<1>b. ASSUME StoreInv', Frame, PlannerOK', UNCHANGED <<requests, exec, console, spent>>
      PROVE  IInv'
  <2>1. SameWork({exec.pc}) BY <1>b DEF SameWork
  <2>2. EdgeTypeOK' BY <1>0, <1>b DEF EdgeTypeOK, PlannerOK
  <2>3. EdgeInv' BY <1>0, <1>b, <2>2 DEF EdgeInv, ConsoleOK
  <2> QED BY <1>b, <2>1, <2>3, OthersKeepIInv
<1>c. requests \subseteq Command BY <1>0 DEF EdgeTypeOK
<1>2. ASSUME NEW j \in Job, Claim(j) PROVE IInv'
  <2>1. planner.nonce \in Nat BY <1>0 DEF PlannerOK, PlannerState
  <2>2. StoreInv' /\ Frame
    BY <1>0, <1>2, <2>1, ReclaimKeepsStoreInv, ClaimNewKeepsStoreInv, ClaimFrames DEF Claim
  <2>3. PlannerOK' BY <1>0, <1>2 DEF Claim, PlannerOK, PlannerState
  <2> QED BY <1>b, <1>2, <2>2, <2>3 DEF Claim
<1>3. CASE Look
  <2>1. CASE planner' = [planner EXCEPT !.pc = "ticking", !.epoch = lease.epoch]
    <3>1. lease.epoch \in Nat BY <1>1 DEF Lease
    <3>2. PlannerOK' BY <1>0, <1>3, <2>1, <3>1 DEF PlannerOK, PlannerState, Look, PlannerAt
    <3> QED BY <1>a, <1>c, <1>3, <3>2 DEF Look
  <2>2. CASE \E pc \in PlannerPc : PlannerGoes(pc)
    <3>1. PlannerOK' BY <1>0, <1>3, <2>2, PlannerGoesOK DEF Look, PlannerAt
    <3> QED BY <1>a, <1>c, <1>3, <3>1 DEF Look
  <2> QED BY <1>0, <1>3, <2>1, <2>2 DEF Look
<1>4. CASE AssistantTakesOver
  <2>0. /\ \E pc \in PlannerPc : PlannerGoes(pc)
        /\ UNCHANGED storeVars \/ Transfer(planner.job, "assistant", planner.epoch)
        /\ planner.pc = "ticking"
        /\ UNCHANGED <<requests, exec, console, spent>>
    <3>1. "assisting" \in PlannerPc /\ OnRefusedTransfer(planner.job) \in PlannerPc
      BY RefusedTransferType DEF PlannerPc
    <3> QED BY <1>4, <3>1 DEF AssistantTakesOver, PlannerAt
  <2>1. PlannerOK' BY <1>0, <2>0, PlannerGoesOK
  <2>2. CASE UNCHANGED storeVars BY <1>a, <1>c, <2>0, <2>1, <2>2
  <2>3. CASE Transfer(planner.job, "assistant", planner.epoch)
    <3>1. planner.job \in Job BY <1>0, <2>0 DEF PlannerOK
    <3>2. StoreInv' /\ Frame
      BY <1>0, <2>3, <3>1, TransferKeepsStoreInv, TransferFrames DEF Controller
    <3> QED BY <1>b, <2>0, <2>1, <3>2
  <2> QED BY <2>0, <2>2, <2>3
<1>5. ASSUME NEW op \in Op, NEW kind \in {"tool", "node"}, Call(op, kind) PROVE IInv'
  <2>1. planner.job \in Job /\ planner.nonce \in Nat
    BY <1>0, <1>5 DEF Call, PlannerAt, PlannerOK, PlannerState
  <2>2. requests' \subseteq Command BY <1>c, <1>5, <2>1 DEF Call, Command
  <2>3. PlannerOK' BY <1>0, <1>5, PlannerGoesOK DEF Call, PlannerAt
  <2> QED BY <1>a, <1>5, <2>2, <2>3 DEF Call
<1>6. CASE TimeOut
  <2>1. PlannerOK' BY <1>0, <1>6, PlannerGoesOK DEF TimeOut, PlannerAt
  <2> QED BY <1>0, <1>a, <1>6, <2>1, ForgetType DEF TimeOut
<1>7. ASSUME NEW pc \in {"idle", "failing"}, EndTick(pc) PROVE IInv'
  <2>1. PlannerOK' BY <1>0, <1>7, PlannerGoesOK DEF EndTick, PlannerAt
  <2> QED BY <1>a, <1>c, <1>7, <2>1 DEF EndTick
<1>8. CASE ConcludeCheck
  <2>1. PlannerOK' BY <1>0, <1>8, PlannerGoesOK DEF ConcludeCheck, PlannerAt
  <2> QED BY <1>a, <1>c, <1>8, <2>1 DEF ConcludeCheck
\* The planner ends its request.
<1>d. ASSUME NEW s \in Terminal, End(planner.job, s), planner.job \in Job
      PROVE  StoreInv' /\ Frame
  BY <1>0, <1>d, EndKeepsStoreInv, EndFrames DEF End
<1>9. CASE ConcludeCommit
  <2>1. PlannerOK' BY <1>0, <1>9, PlannerGoesOK DEF ConcludeCommit, PlannerAt
  <2>2. planner.job \in Job BY <1>0, <1>9 DEF ConcludeCommit, PlannerAt, PlannerOK
  <2>3. CASE UNCHANGED storeVars
    BY <1>a, <1>c, <1>9, <2>1, <2>3 DEF ConcludeCommit
  <2>4. CASE End(planner.job, "completed")
    BY <1>b, <1>d, <1>9, <2>1, <2>2, <2>4 DEF ConcludeCommit, Terminal
  <2> QED BY <1>9, <2>3, <2>4 DEF ConcludeCommit
<1>10. CASE FailRead
  <2>1. PlannerOK' BY <1>0, <1>10, PlannerGoesOK DEF FailRead, PlannerAt
  <2> QED BY <1>a, <1>c, <1>10, <2>1 DEF FailRead
<1>11. CASE FailWrite
  <2>1. PlannerOK' BY <1>0, <1>11, PlannerGoesOK DEF FailWrite, PlannerAt
  <2>2. planner.job \in Job BY <1>0, <1>11 DEF FailWrite, PlannerAt, PlannerOK
  <2>3. CASE UNCHANGED storeVars
    BY <1>a, <1>c, <1>11, <2>1, <2>3 DEF FailWrite
  <2>4. CASE End(planner.job, "failed")
    BY <1>b, <1>d, <1>11, <2>1, <2>2, <2>4 DEF FailWrite, Terminal
  <2> QED BY <1>11, <2>3, <2>4 DEF FailWrite
<1>12. CASE Restart
  <2>1. PlannerOK' BY <1>0, <1>12 DEF Restart, Polling, PlannerOK, PlannerState, Verdict
  <2> QED BY <1>a, <1>c, <1>12, <2>1 DEF Restart
<1> QED
  BY <1>2, <1>3, <1>4, <1>5, <1>6, <1>7, <1>8, <1>9, <1>10, <1>11, <1>12 DEF PlannerNext

LEMMA StaffKeepsIInv ==
    ASSUME IInv, StaffNext \/ \E j \in Job : Tick(j)
    PROVE  IInv'
<1>0. /\ StoreInv /\ EdgeInv /\ EdgeTypeOK /\ PlannerOK /\ ConsoleOK
  BY DEF IInv, EdgeInv
<1>1. StoreTypeOK /\ lease \in Lease BY <1>0 DEF StoreInv, StoreTypeOK
<1>a. ASSUME StoreInv', Frame, ConsoleOK', spent' \in [faults: Nat, handoffs: Nat],
             UNCHANGED <<planner, requests, exec>>
      PROVE  IInv'
  <2>1. SameWork({exec.pc}) BY <1>a DEF SameWork
  <2>2. EdgeTypeOK' BY <1>0, <1>a DEF EdgeTypeOK, ConsoleOK
  <2>3. EdgeInv' BY <1>0, <1>a, <2>2 DEF EdgeInv, PlannerOK
  <2> QED BY <1>a, <2>1, <2>3, OthersKeepIInv
\* A transaction made by nobody modelled here.
<1>b. ASSUME StoreInv', Frame, edgeUnchanged PROVE IInv'
  <2>1. ConsoleOK' /\ spent' \in [faults: Nat, handoffs: Nat]
    BY <1>0, <1>b DEF edgeUnchanged, ConsoleOK, EdgeTypeOK
  <2> QED BY <1>a, <1>b, <2>1 DEF edgeUnchanged
<1>2. ASSUME NEW j \in Job, Submit(j) PROVE IInv'
  <2>1. StoreInv' BY <1>0, <1>2, SubmitKeepsStoreInv DEF Submit
  <2>2. Frame BY <1>0, <1>2, IdleFrames DEF Submit, Resolve, CreateJob
  <2> QED BY <1>b, <1>2, <2>1, <2>2 DEF Submit
<1>3. ASSUME NEW j \in Job, Cancel(j) PROVE IInv'
  <2>1. StoreInv' BY <1>0, <1>3, EndKeepsStoreInv DEF Cancel, Terminal
  <2>2. Frame BY <1>0, <1>3, EndFrames DEF Cancel, End
  <2> QED BY <1>b, <1>3, <2>1, <2>2 DEF Cancel
<1>4. ASSUME NEW j \in Job, Guide(j) PROVE IInv'
  <2>1. StoreInv' BY <1>0, <1>4, MessageKeepsStoreInv DEF Guide
  <2>2. Frame BY <1>0, <1>4, EndFrames DEF Guide, Message
  <2> QED BY <1>b, <1>4, <2>1, <2>2 DEF Guide
<1>5. ASSUME NEW s \in {"active", "paused"}, Supervise(s) \/ ChangeScope PROVE IInv'
  <2>1. StoreInv' /\ Frame
    BY <1>0, <1>5, EmployeeKeepsStoreInv, EmployeeFrames DEF Supervise, ChangeScope
  <2> QED BY <1>b, <1>5, <2>1 DEF Supervise, ChangeScope
<1>6. ASSUME NEW j \in Job, Tick(j) PROVE IInv'
  <2>1. StoreInv' /\ Frame BY <1>0, <1>6, ClockKeepsStoreInv, ClockFrames DEF Tick
  <2> QED BY <1>b, <1>6, <2>1 DEF Tick
<1>7. ASSUME NEW j \in Job, TakeoverRead(j) \/ ReleaseRead(j) PROVE IInv'
  <2>1. StoreInv' BY <1>0, <1>7, IdleKeepsStoreInv DEF TakeoverRead, ReleaseRead
  <2>2. Frame BY <1>0, <1>7, IdleFrames DEF TakeoverRead, ReleaseRead, storeVars
  <2>3. ConsoleOK'
    BY <1>1, <1>7 DEF TakeoverRead, ReleaseRead, ConsoleOK, ConsoleState, Lease
  <2> QED BY <1>0, <1>a, <1>7, <2>1, <2>2, <2>3 DEF TakeoverRead, ReleaseRead, EdgeTypeOK
<1>8. CASE TakeoverNote
  <2>1. console.job \in Job /\ console.owner \in Controller \cup {None}
    BY <1>0, <1>8 DEF TakeoverNote, ConsoleOK, ConsoleState
  <2>2. StoreInv' BY <1>0, <1>8, <2>1, NoteKeepsStoreInv DEF TakeoverNote
  <2>3. Frame BY <1>0, <1>8, IdleFrames DEF TakeoverNote, NoteHandoff
  <2>4. ConsoleOK' BY <1>0, <1>8, <2>1 DEF TakeoverNote, ConsoleOK, ConsoleState
  <2> QED BY <1>0, <1>a, <1>8, <2>2, <2>3, <2>4 DEF TakeoverNote, EdgeTypeOK
<1>9. ASSUME NEW o \in Controller, console.job \in Job, ConsoleTransfers(o) PROVE IInv'
  <2>1. ConsoleOK' BY <1>9 DEF ConsoleTransfers, ConsoleOK, ConsoleState, Rest
  <2>2. spent' \in [faults: Nat, handoffs: Nat]
    BY <1>0, <1>9 DEF ConsoleTransfers, EdgeTypeOK
  <2>3. CASE UNCHANGED storeVars
    <3>1. StoreInv' BY <1>0, <2>3, IdleKeepsStoreInv
    <3>2. Frame BY <1>0, <2>3, IdleFrames DEF storeVars
    <3> QED BY <1>a, <1>9, <2>1, <2>2, <3>1, <3>2 DEF ConsoleTransfers
  <2>4. CASE Transfer(console.job, o, console.epoch)
    <3>1. StoreInv' /\ Frame BY <1>0, <1>9, <2>4, TransferKeepsStoreInv, TransferFrames
    <3> QED BY <1>a, <1>9, <2>1, <2>2, <3>1 DEF ConsoleTransfers
  <2> QED BY <1>9, <2>3, <2>4 DEF ConsoleTransfers
<1>10. CASE TakeoverCommit
  BY <1>0, <1>9, <1>10 DEF TakeoverCommit, ConsoleOK, Controller
<1>11. CASE ReleaseCommit
  <2>1. console.job \in Job BY <1>0, <1>11 DEF ReleaseCommit, ConsoleOK
  <2>2. (IF handoff[console.job] = None THEN "script" ELSE handoff[console.job]) \in Controller
    BY <1>1, <2>1 DEF StoreTypeOK, Controller
  <2> QED BY <1>9, <1>11, <2>1, <2>2 DEF ReleaseCommit
<1> QED
  BY <1>2, <1>3, <1>4, <1>5, <1>6, <1>7, <1>8, <1>10, <1>11 DEF StaffNext

\* How the executor's own transactions disturb the receipts.
LEMMA FinishKeepsReceipts ==
    ASSUME IInv, NEW inv \in Job \X Op, NEW a \in ApprovalId, NEW cache \in BOOLEAN,
           FinishAction(inv, a, cache)
    PROVE  ReceiptsAreOver'
<1>0. StoreInv /\ StoreTypeOK /\ ReceiptsAreOver BY DEF IInv, StoreInv, ExecInv
<1>1. /\ approvals[a].inv = inv /\ approvals[a] # Closed
      /\ approvals' = [approvals EXCEPT ![a] = Closed]
      /\ receipts' \subseteq receipts \cup {inv}
  BY ApprovalFacts DEF FinishAction, MayFinish
<1> SUFFICES ASSUME NEW i \in receipts', NEW b \in ApprovalId, approvals'[b].inv = i
             PROVE  FALSE
  BY DEF ReceiptsAreOver, Standing
<1>2. i # None /\ inv # None
  BY <1>0, <1>1, NoneAssumption DEF StoreTypeOK, Invocation
<1>3. b # a /\ approvals[b].inv = i BY <1>0, <1>1, <1>2, ApprovalFacts DEF StoreTypeOK
<1>4. CASE i = inv BY <1>0, <1>1, <1>3, <1>4 DEF StoreInv, OneStandingApproval
<1>5. CASE i \in receipts BY <1>0, <1>3, <1>5 DEF ReceiptsAreOver, Standing
<1> QED BY <1>1, <1>4, <1>5

LEMMA BindKeepsTables ==
    ASSUME IInv, NEW j, NEW a \in ApprovalId, BindRecord(j, a)
    PROVE  /\ StoreInv' /\ ReceiptsAreOver'
           /\ approvals[a].inv \in Job \X Op
           /\ FinishAction(approvals[a].inv, a, TRUE)
<1>1. StoreInv /\ ApprovalShape BY DEF IInv, StoreInv
<1>2. approvals[a] # Closed BY ApprovalFacts DEF BindRecord, FinishAction, MayFinish
<1>3. approvals[a].inv \in Job \X Op BY <1>1, <1>2 DEF ApprovalShape
<1> QED BY <1>1, <1>3, FinishKeepsStoreInv, FinishKeepsReceipts DEF BindRecord

\* A transaction that closes approvals lets the executor be done.
LEMMA StaleFrames ==
    ASSUME IInv, NEW a \in ApprovalId, StaleApproval(a)
    PROVE  ReceiptsAreOver'
<1>0. StoreInv /\ StoreTypeOK /\ ReceiptsAreOver BY DEF IInv, StoreInv, ExecInv
<1> SUFFICES ASSUME NEW i \in receipts, NEW b \in ApprovalId, approvals'[b].inv = i
             PROVE  FALSE
  BY DEF ReceiptsAreOver, Standing, StaleApproval
<1>1. i # None BY <1>0, NoneAssumption DEF StoreTypeOK, Invocation
<1>2. approvals[b].inv = i BY <1>0, <1>1, ApprovalFacts DEF StoreTypeOK, StaleApproval
<1> QED BY <1>0, <1>2 DEF ReceiptsAreOver, Standing

LEMMA ExecKeepsIInv ==
    ASSUME IInv, ExecNext
    PROVE  IInv'
<1> USE RefusalType
<1>0. /\ StoreInv /\ EdgeInv /\ EdgeTypeOK /\ PlannerOK /\ ConsoleOK /\ ExecInv
      /\ {"ok", "recovery", "paused", "stale", "stopped"} \subseteq Answer
  BY DEF IInv, EdgeInv, Answer
<1>1. /\ StoreTypeOK /\ lease \in Lease /\ exec \in ExecState /\ requests \subseteq Command
      /\ lease.epoch \in Nat
  BY <1>0 DEF StoreInv, StoreTypeOK, EdgeTypeOK, Lease
<1>2. exec.pc # "idle" =>
        /\ exec.inv \in Job \X Op /\ exec.inv[1] \in Job
        /\ exec.owner \in Controller /\ exec.epoch \in Nat
  BY <1>0, <1>1 DEF ExecInv, ExecBound, ExecState, Controller
\* What is left to show of an action of the executor.
<1>a. ASSUME StoreInv', ExecInv', exec' \in ExecState, PlannerOK',
             requests' \subseteq requests, UNCHANGED <<console, spent>>
      PROVE  IInv'
  <2>1. EdgeTypeOK' BY <1>0, <1>a DEF EdgeTypeOK, PlannerOK
  <2>2. EdgeInv' BY <1>0, <1>a, <2>1 DEF EdgeInv, ConsoleOK
  <2> QED BY <1>a, <2>2 DEF IInv
\* It is done.
<1>b. ASSUME StoreInv', ReceiptsAreOver', NEW answer \in Answer, Finishes(answer),
             UNCHANGED <<requests, console, spent>>
      PROVE  IInv'
  <2>1. exec' \in ExecState /\ PlannerOK' BY <1>0, <1>b, FinishesOK
  <2>2. ExecInv' BY <1>b, IdleKeepsExecInv DEF Finishes
  <2> QED BY <1>a, <1>b, <2>1, <2>2
\* It is done without a transaction.
<1>c. ASSUME UNCHANGED storeVars, NEW answer \in Answer, Finishes(answer),
             UNCHANGED <<requests, console, spent>>
      PROVE  IInv'
  <2>1. StoreInv' BY <1>0, <1>c, IdleKeepsStoreInv
  <2>2. ReceiptsAreOver' BY <1>0, <1>c, IdleFrames, FrameKeepsReceipts DEF storeVars
  <2> QED BY <1>b, <1>c, <2>1, <2>2
\* It moves on, with or without a transaction that frames.
<1>d. ASSUME StoreInv', Frame, exec.pc # "idle", SameWork(ExecPc), exec' \in ExecState,
             exec.pc = "closing" => exec'.pc = "closing",
             exec'.pc \in Operating => exec.pc \in Operating,
             exec'.pc \in {"staling", "approved", "granted", "closing"} \cup Operating
                 => exec.approval \in ApprovalId,
             UNCHANGED <<planner, requests, console, spent>>
      PROVE  IInv'
  <2>1. lease' \in Lease BY <1>d DEF StoreInv, StoreTypeOK
  <2>2. ExecInv' BY <1>d, <2>1, ExecStepKeepsExecInv
  <2>3. PlannerOK' BY <1>0, <1>d DEF PlannerOK
  <2> QED BY <1>a, <1>d, <2>2, <2>3
<1>e. ASSUME UNCHANGED storeVars PROVE StoreInv' /\ Frame
  BY <1>0, <1>e, IdleKeepsStoreInv, IdleFrames DEF storeVars
<1>f. exec.pc \in {"staling", "approved", "granted", "closing"} \cup Operating
        => exec.approval \in ApprovalId
  BY <1>0 DEF ExecInv, ExecApproval
<1>3. ASSUME NEW r \in requests, Accept(r) PROVE IInv'
  <2>1. /\ r.inv \in Job \X Op /\ r.caller \in Nat
        /\ requests' \subseteq requests
        /\ ExecAt("idle") /\ UNCHANGED storeVars
    BY <1>1, <1>3 DEF Accept, Command
  <2>2. StoreInv' /\ ReceiptsAreOver'
    BY <1>0, <1>e, <2>1, FrameKeepsReceipts
  <2>3. CASE exec' = exec /\ \E answer \in Answer : Reply(r.caller, answer, requests \ {r})
    <3>1. PlannerOK' BY <1>0, <2>3, ReplyOK
    <3>2. ExecInv'
      BY <2>1, <2>2, <2>3 DEF ExecAt, ExecInv, ExecBound, ExecApproval, ExecHolds,
          NothingRepeated, Operating
    <3> QED BY <1>a, <1>1, <1>3, <2>1, <2>2, <2>3, <3>1, <3>2 DEF Accept
  <2>4. CASE /\ exec' = [Idle EXCEPT !.pc = "observed", !.caller = r.caller, !.inv = r.inv,
                                      !.owner = lease.owner, !.epoch = lease.epoch]
             /\ UNCHANGED planner
             /\ lease.owner # "staff" /\ lease.job = r.inv[1] /\ r.inv \notin receipts
    <3>1. lease.owner \in {"script", "assistant"}
      BY <1>0, <2>1, <2>4 DEF StoreInv, LeaseServesClaimed, Controller
    <3>2. exec' \in ExecState
      BY <1>1, <2>1, <2>4, <3>1, IdleType DEF ExecState, ExecPc, Controller
    <3>3. /\ exec'.pc = "observed" /\ exec'.inv = r.inv
          /\ exec'.owner = lease.owner /\ exec'.epoch = lease.epoch
      BY <2>4 DEF Idle
    <3>4. ExecInv'
      BY <1>1, <2>1, <2>2, <2>4, <3>1, <3>3 DEF ExecInv, ExecBound, ExecApproval, ExecHolds,
          NothingRepeated, Operating, storeVars
    <3>5. PlannerOK' BY <1>0, <2>4 DEF PlannerOK
    <3> QED BY <1>a, <1>3, <2>1, <2>2, <3>2, <3>4, <3>5 DEF Accept
  <2> QED BY <1>0, <1>3, <2>3, <2>4 DEF Accept, Check, Assigned, AssignedReceipt
<1>4. CASE PrepareWindow
  <2>1. CASE UNCHANGED storeVars /\ Finishes(Refusal(exec.inv[1]))
    BY <1>c, <1>4, <2>1 DEF PrepareWindow
  <2>2. CASE /\ BeginWindowRecovery(exec.inv[1], exec.owner, exec.epoch)
             /\ ExecGoes("recovering") /\ UNCHANGED planner
    <3>1. StoreInv' /\ Frame
      BY <1>0, <1>2, <1>4, <2>2, WindowKeepsStoreInv, WindowFrames DEF PrepareWindow, ExecAt
    <3>2. SameWork(ExecPc) /\ exec' \in ExecState /\ exec'.pc = "recovering"
      BY <1>1, <2>2 DEF ExecGoes, ExecState, SameWork, ExecPc
    <3> QED BY <1>d, <1>4, <2>2, <3>1, <3>2 DEF PrepareWindow, ExecAt, Operating
  <2> QED BY <1>4, <2>1, <2>2 DEF PrepareWindow
<1>5. CASE WindowReady
  <2>1. CASE UNCHANGED storeVars /\ Finishes("stopped")
    BY <1>0, <1>c, <1>5, <2>1 DEF WindowReady
  <2>2. CASE FinishWindowRecovery(exec.inv[1]) /\ ExecGoes("observed") /\ UNCHANGED planner
    <3>1. StoreInv' /\ Frame
      BY <1>0, <1>2, <1>5, <2>2, WindowKeepsStoreInv, WindowFrames DEF WindowReady, ExecAt
    <3>2. SameWork(ExecPc) /\ exec' \in ExecState /\ exec'.pc = "observed"
      BY <1>1, <2>2 DEF ExecGoes, ExecState, SameWork, ExecPc
    <3> QED BY <1>d, <1>5, <2>2, <3>1, <3>2 DEF WindowReady, ExecAt, Operating
  <2>3. ASSUME NEW answer \in Answer, FinishWindowRecovery(exec.inv[1]), Finishes(answer)
        PROVE  IInv'
    <3>1. StoreInv' /\ ReceiptsAreOver'
      BY <1>0, <1>2, <1>5, <2>3, WindowKeepsStoreInv, WindowFrames, FrameKeepsReceipts
      DEF WindowReady, ExecAt
    <3> QED BY <1>b, <1>5, <2>3, <3>1 DEF WindowReady
  <2> QED BY <1>0, <1>5, <2>1, <2>2, <2>3 DEF WindowReady
<1>6. ASSUME NEW a \in ApprovalId, ExecAuthorize(a) PROVE IInv'
  <2>1. exec.pc = "observed" /\ exec.inv \in Job \X Op /\ exec.epoch \in Nat
    BY <1>2, <1>6 DEF ExecAuthorize, ExecAt
  <2>2. StoreInv' BY <1>0, <1>2, <1>6, <2>1, AuthorizeKeepsStoreInv DEF ExecAuthorize
  <2>3. /\ exec' \in ExecState
        /\ exec'.pc \in {"staling", "approved"} /\ exec'.approval = a
        /\ exec'.inv = exec.inv /\ exec'.owner = exec.owner /\ exec'.epoch = exec.epoch
    BY <1>0, <1>1, <1>6 DEF ExecAuthorize, ExecState, ExecPc
  <2>4. lease' = lease /\ receipts' = receipts /\ exec.inv \notin receipts
    BY <1>0, <1>6, <2>1 DEF ExecAuthorize, Authorize, ExecInv, NothingRepeated
  <2>5. ReceiptsAreOver'
    <3>1. CASE UNCHANGED approvals BY <1>0, <2>4, <3>1 DEF ExecInv, ReceiptsAreOver, Standing
    <3>2. CASE approvals' = [approvals EXCEPT ![a] =
                  [status |-> "authorized", inv |-> exec.inv, epoch |-> exec.epoch,
                   revision |-> employee.revision]]
      BY <1>0, <1>1, <2>4, <3>2 DEF ExecInv, ReceiptsAreOver, Standing, StoreTypeOK
    <3> QED BY <1>6, <3>1, <3>2 DEF ExecAuthorize, Authorize
  <2>6. ExecInv'
    BY <1>0, <2>1, <2>3, <2>4, <2>5 DEF ExecInv, ExecBound, ExecApproval, ExecHolds,
        NothingRepeated, Operating
  <2>7. PlannerOK' BY <1>0, <1>6 DEF ExecAuthorize, PlannerOK
  <2> QED BY <1>a, <1>6, <2>2, <2>3, <2>6, <2>7 DEF ExecAuthorize
<1>7. CASE AuthorizeRefused \/ BeginRefused
  BY <1>c, <1>7 DEF AuthorizeRefused, BeginRefused
<1>8. CASE ExecStales
  <2>1. CASE UNCHANGED storeVars /\ Finishes("stopped") BY <1>0, <1>c, <1>8, <2>1 DEF ExecStales
  <2>2. CASE StaleApproval(exec.approval) /\ Finishes(exec.answer)
    <3>1. exec.approval \in ApprovalId /\ exec.answer \in Answer
      BY <1>1, <1>f, <1>8 DEF ExecStales, ExecAt, ExecState
    <3>2. StoreInv' /\ ReceiptsAreOver'
      BY <1>0, <2>2, <3>1, StaleKeepsStoreInv, StaleFrames
    <3> QED BY <1>b, <1>8, <2>2, <3>1, <3>2 DEF ExecStales
  <2> QED BY <1>0, <1>8, <2>1, <2>2 DEF ExecStales
<1>9. CASE RequestGrant
  <2>1. CASE Finishes(Refusal(exec.inv[1])) BY <1>c, <1>9, <2>1 DEF RequestGrant
  <2>2. CASE ExecGoes("granted") /\ UNCHANGED planner
    <3>1. SameWork(ExecPc) /\ exec' \in ExecState /\ exec'.pc = "granted"
      BY <1>1, <2>2 DEF ExecGoes, ExecState, SameWork, ExecPc
    <3> QED BY <1>d, <1>e, <1>f, <1>9, <2>2, <3>1 DEF RequestGrant, ExecAt, Operating
  <2> QED BY <1>9, <2>1, <2>2 DEF RequestGrant
<1>10. CASE ExecBegin
  <2>1. /\ exec.pc = "granted" /\ exec.inv \in Job \X Op /\ exec.owner \in Controller
        /\ exec.epoch \in Nat /\ exec.approval \in ApprovalId
        /\ BeginAction(exec.inv[1], exec.owner, exec.epoch, exec.inv, exec.approval)
    BY <1>2, <1>f, <1>10 DEF ExecBegin, ExecAt
  <2>2. StoreInv' BY <1>0, <1>2, <2>1, BeginKeepsStoreInv
  <2>3. /\ exec' \in ExecState /\ exec'.pc = "begun" /\ exec'.approval = exec.approval
        /\ exec'.inv = exec.inv /\ exec'.owner = exec.owner /\ exec'.epoch = exec.epoch
    BY <1>1, <1>10 DEF ExecBegin, ExecGoes, ExecState, ExecPc
  <2>4. /\ approvals[exec.approval].inv = exec.inv
        /\ approvals[exec.approval].epoch = exec.epoch
        /\ approvals' = [approvals EXCEPT ![exec.approval].status = "executing"]
        /\ lease'.epoch = lease.epoch /\ lease'.job = lease.job /\ lease'.owner = lease.owner
        /\ receipts' = receipts
    BY <1>1, <2>1 DEF BeginAction, MayBegin, MayIssue, Lease
  <2>5. /\ approvals'[exec.approval].status = "executing"
        /\ \A b \in ApprovalId : /\ approvals'[b].inv = approvals[b].inv
                                  /\ approvals'[b].epoch = approvals[b].epoch
    BY <1>1, <2>1, <2>4 DEF StoreTypeOK, Approval
  <2>6. ExecInv'
    <3>1. ExecBound' BY <1>0, <2>1, <2>3, <2>4 DEF ExecInv, ExecBound
    <3>2. ExecApproval' /\ ExecHolds'
      BY <2>1, <2>3, <2>4, <2>5 DEF ExecApproval, ExecHolds
    <3>3. ReceiptsAreOver' /\ NothingRepeated'
      BY <1>0, <2>1, <2>3, <2>4, <2>5 DEF ExecInv, ReceiptsAreOver, Standing, NothingRepeated
    <3> QED BY <3>1, <3>2, <3>3 DEF ExecInv
  <2>7. PlannerOK' BY <1>0, <1>10 DEF ExecBegin, PlannerOK
  <2> QED BY <1>a, <1>10, <2>2, <2>3, <2>6, <2>7 DEF ExecBegin
<1>11. ASSUME NEW from \in ExecPc, NEW to \in ExecPc, Fence(from, to) PROVE IInv'
  <2>1. /\ exec.pc \in Operating /\ exec.pc # "closing" /\ exec'.pc \in {to, "closing"}
        /\ to \in Operating
    BY <1>1, <1>11 DEF Fence, ExecAt, Operating, ExecState
  <2>2. SameWork(ExecPc) /\ exec' \in ExecState
    BY <1>1, <1>11 DEF Fence, ExecState, SameWork, ExecPc
  <2> QED BY <1>d, <1>e, <1>f, <1>11, <2>1, <2>2 DEF Fence, Operating
<1>12. ASSUME NEW handler \in ErrorKinds, OperationFails(handler) PROVE IInv'
  <2>1. /\ exec.pc \in Operating /\ exec.pc # "closing"
    BY <1>12 DEF OperationFails, ExecAt, Operating
  <2>2. SameWork(ExecPc) /\ exec' \in ExecState
    BY <1>0, <1>1, <1>12, ErrorAssumption
      DEF OperationFails, ExecState, SameWork, ExecPc
  <2> QED BY <1>d, <1>e, <1>f, <1>12, <2>1, <2>2 DEF OperationFails, Operating
<1>12a. CASE Operate
  <2>1. /\ exec.pc \in Operating /\ exec.pc # "closing"
    BY <1>12a DEF Operate, ExecAt, Operating
  <2>2. SameWork(ExecPc) /\ exec' \in ExecState
    BY <1>1, <1>12a DEF Operate, ExecGoes, ExecState, SameWork, ExecPc
  <2> QED BY <1>d, <1>e, <1>f, <1>12a, <2>1, <2>2 DEF Operate, Operating
<1>12b. ASSUME NEW a \in ApprovalId, SelectRecord(a) PROVE IInv'
  <2>1. StoreInv' /\ ReceiptsAreOver'
    BY <1>0, <1>12b, BindKeepsTables DEF SelectRecord
  <2> QED BY <1>0, <1>b, <1>12b, <2>1 DEF SelectRecord
<1>13. CASE Handler
  <2>1. CASE Finishes("stopped") BY <1>0, <1>c, <1>13, <2>1 DEF Handler
  <2>2. CASE ExecGoes("closing") /\ UNCHANGED planner
    <3>1. SameWork(ExecPc) /\ exec' \in ExecState /\ exec'.pc = "closing"
      BY <1>1, <2>2 DEF ExecGoes, ExecState, SameWork, ExecPc
    <3> QED BY <1>d, <1>e, <1>f, <1>13, <2>2, <3>1 DEF Handler, Operating
  <2> QED BY <1>13, <2>1, <2>2 DEF Handler
\* finish_action
<1>g. ASSUME NEW cache \in BOOLEAN, FinishAction(exec.inv, exec.approval, cache),
             exec.pc \in {"finishing", "closing"}
      PROVE  StoreInv' /\ ReceiptsAreOver'
  <2>1. exec.inv \in Job \X Op /\ exec.approval \in ApprovalId
    BY <1>2, <1>f, <1>g DEF Operating
  <2> QED BY <1>0, <1>g, <2>1, FinishKeepsStoreInv, FinishKeepsReceipts
<1>14. CASE FileResult
  BY <1>0, <1>b, <1>g, <1>14 DEF FileResult, ExecAt
<1>15. CASE FileResultRefused
  <2>1. SameWork(ExecPc) /\ exec' \in ExecState /\ exec'.pc = "closing"
    BY <1>0, <1>1, <1>15 DEF FileResultRefused, ExecState, SameWork, ExecPc
  <2> QED BY <1>d, <1>e, <1>f, <1>15, <2>1 DEF FileResultRefused, ExecAt, Operating
<1>16. CASE FileError
  <2>1. exec.answer \in Answer BY <1>1 DEF ExecState
  <2>2. CASE UNCHANGED storeVars /\ Finishes("stopped")
    BY <1>0, <1>c, <1>16, <2>2 DEF FileError
  <2>3. CASE FinishAction(exec.inv, exec.approval, FALSE) /\ Finishes(exec.answer)
    BY <1>b, <1>g, <1>16, <2>1, <2>3 DEF FileError, ExecAt
  <2> QED BY <1>16, <2>2, <2>3 DEF FileError
<1> QED
  BY <1>3, <1>4, <1>5, <1>6, <1>7, <1>8, <1>9, <1>10, <1>11, <1>12, <1>12a, <1>12b, <1>13, <1>14,
     <1>15, <1>16 DEF ExecNext

LEMMA FaultKeepsIInv ==
    ASSUME IInv, FaultNext
    PROVE  IInv'
<1> USE RefusalType
<1>0. /\ StoreInv /\ EdgeInv /\ EdgeTypeOK /\ PlannerOK /\ ConsoleOK /\ ExecInv
      /\ exec \in ExecState
      /\ {"recovery", "stopped"} \subseteq Answer
      /\ {"down", "failing"} \subseteq PlannerPc
      /\ planner.pc \in PlannerPc
  BY DEF IInv, EdgeInv, EdgeTypeOK, Answer, PlannerPc, PlannerOK, PlannerState
<1>1. ASSUME NEW kind, Fault(kind) PROVE spent' \in [faults: Nat, handoffs: Nat]
  BY <1>0, <1>1 DEF Fault, EdgeTypeOK
<1>2. exec.pc # "idle" =>
        /\ exec.inv \in Job \X Op /\ exec.inv[1] \in Job
        /\ exec.owner \in Controller /\ exec.epoch \in Nat
  BY <1>0 DEF ExecInv, ExecBound, ExecState, Controller
<1>f. exec.pc \in {"granted", "finishing", "closing"} => exec.approval \in ApprovalId
  BY <1>0 DEF ExecInv, ExecApproval, Operating
<1>a. ASSUME StoreInv', ExecInv', exec' \in ExecState, PlannerOK', requests' \subseteq Command,
             spent' \in [faults: Nat, handoffs: Nat], UNCHANGED console
      PROVE  IInv'
  <2>1. EdgeTypeOK' BY <1>0, <1>a DEF EdgeTypeOK, PlannerOK
  <2>2. EdgeInv' BY <1>0, <1>a, <2>1 DEF EdgeInv, ConsoleOK
  <2> QED BY <1>a, <2>2 DEF IInv
<1>b. ASSUME StoreInv', ReceiptsAreOver', Finishes("stopped"), UNCHANGED <<requests, console>>,
             spent' \in [faults: Nat, handoffs: Nat]
      PROVE  IInv'
  <2>1. exec' \in ExecState /\ PlannerOK' BY <1>0, <1>b, FinishesOK
  <2>2. ExecInv' BY <1>b, IdleKeepsExecInv DEF Finishes
  <2> QED BY <1>0, <1>a, <1>b, <2>1, <2>2 DEF EdgeTypeOK
<1>c. ASSUME UNCHANGED storeVars PROVE StoreInv' /\ Frame /\ ReceiptsAreOver'
  BY <1>0, <1>c, IdleKeepsStoreInv, IdleFrames, FrameKeepsReceipts DEF storeVars
<1>3. CASE PlannerCrash
  <2>1. PlannerOK' BY <1>0, <1>3, PlannerGoesOK DEF PlannerCrash
  <2>2. /\ requests' \subseteq Command /\ exec' \in ExecState /\ SameWork({exec.pc})
    BY <1>0, <1>3, ForgetType DEF PlannerCrash
  <2>3. StoreInv' /\ Frame /\ UNCHANGED console BY <1>c, <1>3 DEF PlannerCrash
  <2>4. EdgeTypeOK' BY <1>0, <1>1, <1>3, <2>1, <2>2 DEF PlannerCrash, EdgeTypeOK, PlannerOK
  <2>5. EdgeInv' BY <1>0, <2>1, <2>3, <2>4 DEF EdgeInv, ConsoleOK
  <2> QED BY <2>2, <2>3, <2>5, OthersKeepIInv
<1>4. CASE ExecutorCrash
  <2>1. PlannerOK' BY <1>0, <1>4, PlannerGoesOK DEF ExecutorCrash, PlannerAt
  <2>2. StoreInv' /\ ExecInv' BY <1>c, <1>4, IdleKeepsExecInv DEF ExecutorCrash
  <2> QED BY <1>1, <1>a, <1>4, <2>1, <2>2, IdleType DEF ExecutorCrash
<1>5. CASE BeginResponseLost
  <2>1. /\ exec.pc = "granted" /\ exec.inv \in Job \X Op /\ exec.approval \in ApprovalId
        /\ BeginAction(exec.inv[1], exec.owner, exec.epoch, exec.inv, exec.approval)
    BY <1>2, <1>f, <1>5 DEF BeginResponseLost, ExecAt
  <2>2. StoreInv' BY <1>0, <1>2, <2>1, BeginKeepsStoreInv
  <2>3. /\ approvals' = [approvals EXCEPT ![exec.approval].status = "executing"]
        /\ receipts' = receipts
    BY <2>1 DEF BeginAction
  <2>4. \A b \in ApprovalId : approvals'[b].inv = approvals[b].inv
    BY <1>0, <2>1, <2>3 DEF StoreInv, StoreTypeOK, Approval
  <2>5. ReceiptsAreOver' BY <1>0, <2>3, <2>4 DEF ExecInv, ReceiptsAreOver, Standing
  <2> QED BY <1>1, <1>b, <1>5, <2>2, <2>5 DEF BeginResponseLost
<1>6. CASE ReceiptLost
  <2>0. exec.pc \in {"finishing", "closing"} BY <1>6 DEF ReceiptLost
  <2>1. StoreInv' /\ ReceiptsAreOver'
    <3>1. CASE UNCHANGED storeVars BY <1>c, <3>1
    <3>2. CASE FinishAction(exec.inv, exec.approval, ExecAt("finishing"))
      <4>1. exec.inv \in Job \X Op /\ exec.approval \in ApprovalId /\ ExecAt("finishing") \in BOOLEAN
        BY <1>2, <1>f, <2>0 DEF ExecAt
      <4> QED BY <1>0, <3>2, <4>1, FinishKeepsStoreInv, FinishKeepsReceipts
    <3> QED BY <1>6, <3>1, <3>2 DEF ReceiptLost
  <2>2. CASE Finishes("stopped")
    BY <1>1, <1>b, <1>6, <2>1, <2>2 DEF ReceiptLost
  <2>3. CASE exec' = [exec EXCEPT !.pc = "closing", !.answer = "recovery"] /\ UNCHANGED planner
    <3>1. /\ exec' \in ExecState /\ exec'.pc = "closing" /\ exec'.approval = exec.approval
          /\ exec'.inv = exec.inv /\ exec'.owner = exec.owner /\ exec'.epoch = exec.epoch
      BY <1>0, <2>3 DEF ExecState, ExecPc
    <3>2. lease'.epoch = lease.epoch /\ lease'.job = lease.job /\ lease'.owner = lease.owner
      BY <1>0, <1>6 DEF ReceiptLost, FinishAction, storeVars, StoreInv, StoreTypeOK, Lease
    <3>3. ExecInv'
      BY <1>0, <1>f, <2>0, <2>1, <3>1, <3>2 DEF ExecInv, ExecBound, ExecApproval, ExecHolds,
          NothingRepeated, Operating
    <3>4. PlannerOK' BY <1>0, <2>3 DEF PlannerOK
    <3> QED BY <1>0, <1>1, <1>a, <1>6, <2>1, <3>1, <3>3, <3>4 DEF ReceiptLost, EdgeTypeOK
  <2> QED BY <1>6, <2>2, <2>3 DEF ReceiptLost
<1>7. CASE WindowReceiptLost
  <2>1. exec.inv[1] \in Job BY <1>2, <1>7 DEF WindowReceiptLost, ExecAt
  <2>2. StoreInv' /\ ReceiptsAreOver'
    <3>1. CASE UNCHANGED storeVars BY <1>c, <3>1
    <3>2. CASE FinishWindowRecovery(exec.inv[1])
      BY <1>0, <2>1, <3>2, WindowKeepsStoreInv, WindowFrames, FrameKeepsReceipts
    <3> QED BY <1>7, <3>1, <3>2 DEF WindowReceiptLost
  <2> QED BY <1>1, <1>b, <1>7, <2>2 DEF WindowReceiptLost
<1>8. CASE SelectionResponseLost
  <2>0. exec.pc = "operating" BY <1>8 DEF SelectionResponseLost, ExecAt
  <2>1. PICK a \in ApprovalId : BindRecord(exec.inv[1], a)
    BY <1>8 DEF SelectionResponseLost
  <2>2. StoreInv' /\ ReceiptsAreOver' BY <2>1, BindKeepsTables
  <2>3. /\ exec' \in ExecState /\ exec'.pc = "closing" /\ exec'.approval = exec.approval
        /\ exec'.inv = exec.inv /\ exec'.owner = exec.owner /\ exec'.epoch = exec.epoch
    BY <1>0, <1>8 DEF SelectionResponseLost, ExecState, ExecPc
  <2>4. lease'.epoch = lease.epoch /\ lease'.job = lease.job /\ lease'.owner = lease.owner
    BY <1>0, <2>1 DEF BindRecord, FinishAction, StoreInv, StoreTypeOK, Lease
  <2>5. exec.approval \in ApprovalId BY <1>0, <2>0 DEF ExecInv, ExecApproval, Operating
  <2>6. ExecInv'
    BY <1>0, <2>0, <2>2, <2>3, <2>4, <2>5 DEF ExecInv, ExecBound, ExecApproval, ExecHolds,
        NothingRepeated, Operating
  <2>7. PlannerOK' BY <1>0, <1>8 DEF SelectionResponseLost, PlannerOK
  <2> QED BY <1>0, <1>1, <1>a, <1>8, <2>2, <2>3, <2>6, <2>7 DEF SelectionResponseLost, EdgeTypeOK
<1> QED BY <1>3, <1>4, <1>5, <1>6, <1>7, <1>8 DEF FaultNext

LEMMA InitEstablishesIInv ==
    ASSUME Init
    PROVE  IInv
<1> USE DEF Init, StoreInit
<1>1. StoreTypeOK
  BY DEF StoreTypeOK, Status, Lease, Approval, Closed
<1>2. StoreInv
  <2>1. \A a \in ApprovalId : approvals[a] = Closed OBVIOUS
  <2>2. lease.job \notin Job BY NoneAssumption
  <2> QED
    BY <1>1, <2>1, <2>2, ApprovalFacts DEF StoreInv, ApprovalShape, LeaseServesClaimed,
        AuthorityIsCurrent, OneStandingApproval, CurrentIsInFlight
<1>3. EdgeInv
  BY IdleType DEF EdgeInv, EdgeTypeOK, PlannerOK, ConsoleOK, PlannerState, PlannerPc,
      Polling, Verdict, ConsoleState, Command
<1>4. ExecInv
  BY DEF Idle, ExecInv, ExecBound, ExecApproval, ExecHolds, ReceiptsAreOver,
      NothingRepeated, Operating
<1> QED BY <1>2, <1>3, <1>4 DEF IInv

LEMMA StutterKeepsIInv ==
    ASSUME IInv, UNCHANGED vars
    PROVE  IInv'
<1>0. StoreInv /\ EdgeInv BY DEF IInv
<1>1. StoreInv' /\ Frame
  BY <1>0, IdleKeepsStoreInv, IdleFrames DEF vars, storeVars
<1>2. SameWork({exec.pc}) BY DEF SameWork, vars, edgeVars
<1>3. EdgeInv'
  BY <1>0 DEF EdgeInv, EdgeTypeOK, PlannerOK, ConsoleOK, vars, edgeVars
<1> QED BY <1>1, <1>2, <1>3, OthersKeepIInv

-----------------------------------------------------------------------------
(* The theorems *)

(* The inductive invariant: IInv holds in every reachable state.             *)
THEOREM InductiveInvariant == Spec => []IInv
<1>1. Init => IInv BY InitEstablishesIInv
<1>2. IInv /\ [Next]_vars => IInv'
  <2> SUFFICES ASSUME IInv, [Next]_vars PROVE IInv'
    OBVIOUS
  <2> QED
    BY PlannerKeepsIInv, ExecKeepsIInv, StaffKeepsIInv, FaultKeepsIInv, StutterKeepsIInv
    DEF Next, Poll
<1> QED BY <1>1, <1>2, PTL DEF Spec

(* Every row of the tables and every local variable keeps its type.          *)
THEOREM TypeCorrect == Spec => []TypeOK
<1>1. IInv => TypeOK BY DEF IInv, StoreInv, EdgeInv, TypeOK
<1> QED BY <1>1, InductiveInvariant, PTL

(* However handoffs, restarts, messages and lifecycle changes interleave     *)
(* with authorize_operation, an approval that may still be begun belongs to  *)
(* the request, the epoch and the control that hold the desktop now.         *)
THEOREM AuthorityStaysCurrent == Spec => []AuthorityIsCurrent
<1>1. IInv => AuthorityIsCurrent BY DEF IInv, StoreInv
<1> QED BY <1>1, InductiveInvariant, PTL

(* The executor is inside an operation only while its approval is executing, *)
(* and within the epoch it began in the desktop is reserved for it.          *)
THEOREM OperationsAreFenced == Spec => []OperationFenced
<1>1. IInv => OperationFenced
  <2> SUFFICES ASSUME IInv, exec.pc \in Operating
               PROVE  /\ approvals[exec.approval].status = "executing"
                      /\ approvals[exec.approval].inv = exec.inv
                      /\ exec.owner # "staff"
                      /\ exec.epoch = lease.epoch =>
                            /\ lease.job = exec.inv[1]
                            /\ lease.owner = exec.owner
                            /\ lease.inflight = exec.inv
    BY DEF OperationFenced
  <2>1. ExecBound /\ ExecHolds /\ ExecApproval /\ CurrentIsInFlight
    BY DEF IInv, ExecInv, StoreInv
  <2>2. exec.pc # "idle" BY DEF Operating
  <2>3. exec.approval \in ApprovalId BY <2>1 DEF ExecApproval
  <2> QED BY <2>1, <2>2, <2>3 DEF ExecBound, ExecHolds, CurrentIsInFlight
<1> QED BY <1>1, InductiveInvariant, PTL

(* begin_action never lets a second operation execute within an epoch.       *)
THEOREM OneActiveOperation == Spec => []OneOperationPerEpoch
<1>1. IInv => OneOperationPerEpoch
  <2> SUFFICES ASSUME IInv, NEW a \in ApprovalId, NEW b \in ApprovalId,
                      approvals[a].status = "executing",
                      approvals[a].epoch = lease.epoch
               PROVE  /\ lease.inflight = approvals[a].inv
                      /\ approvals[b].status = "executing" /\ approvals[b].epoch = lease.epoch
                            => a = b
    BY DEF OneOperationPerEpoch
  <2>1. CurrentIsInFlight /\ OneStandingApproval BY DEF IInv, StoreInv
  <2>2. lease.inflight = approvals[a].inv BY <2>1 DEF CurrentIsInFlight
  <2>3. ASSUME approvals[b].status = "executing", approvals[b].epoch = lease.epoch
        PROVE  a = b
    BY <2>1, <2>2, <2>3, ApprovalFacts DEF CurrentIsInFlight, OneStandingApproval
  <2> QED BY <2>2, <2>3
<1> QED BY <1>1, InductiveInvariant, PTL

(* authorize_operation, repeated or interrupted, leaves an invocation with   *)
(* one approval that can act.                                                *)
THEOREM ApprovalsDoNotMultiply == Spec => []OneStandingApproval
<1>1. IInv => OneStandingApproval BY DEF IInv, StoreInv
<1> QED BY <1>1, InductiveInvariant, PTL

(* An operation with a cached receipt is neither running nor authorized: a   *)
(* repeated invocation is answered from the receipt.                         *)
THEOREM ReceiptsAreFinal == Spec => []ReceiptIsFinal
<1>1. IInv => ReceiptIsFinal
  BY DEF IInv, ExecInv, ReceiptIsFinal, ReceiptsAreOver, NothingRepeated, Operating
<1> QED BY <1>1, InductiveInvariant, PTL

-----------------------------------------------------------------------------
(* What a step may never do *)

Transaction ==
    \/ UNCHANGED storeVars
    \/ \E j \in Job :
          Resolve(j) \/ CreateJob(j) \/ Message(j) \/ PassBudget(j) \/ FinishWindowRecovery(j)
    \/ \E j \in Job, s \in Terminal : End(j, s)
    \/ \E j \in Job, w \in Nat : w = planner.nonce /\ (Reclaim(w, j) \/ ClaimNew(w, j))
    \/ \E j \in Job, o \in Controller, e \in Nat : Transfer(j, o, e)
    \/ \E j \in Job, o \in Controller \cup {None} : NoteHandoff(j, o)
    \/ \E inv \in Job \X Op, e \in Nat, a \in ApprovalId : Authorize(inv[1], inv, e, a)
    \/ \E a \in ApprovalId : StaleApproval(a)
    \/ \E inv \in Job \X Op, o \in Controller, e \in Nat, a \in ApprovalId :
          BeginAction(inv[1], o, e, inv, a)
    \/ \E inv \in Job \X Op, a \in ApprovalId, cache \in BOOLEAN : FinishAction(inv, a, cache)
    \/ \E j \in Job, o \in Controller, e \in Nat : BeginWindowRecovery(j, o, e)
    \/ \E s \in {"active", "paused"} : ChangeEmployee(s)
    \/ ScopeChanged
    \/ ExpireLease

\* Every step of the system makes at most one transaction.
LEMMA StepsAreTransactions ==
    ASSUME IInv, [Next]_vars
    PROVE  Transaction
<1>0. /\ planner.pc \notin {"idle", "down"} => planner.job \in Job
      /\ planner.nonce \in Nat /\ planner.epoch \in Nat
      /\ console.pc # "idle" => console.job \in Job
      /\ console.owner \in Controller \cup {None} /\ console.epoch \in Nat
      /\ handoff \in [Job -> Controller \cup {None}]
  BY DEF IInv, EdgeInv, PlannerOK, ConsoleOK, PlannerState, ConsoleState, StoreInv, StoreTypeOK
<1>1. /\ exec.pc # "idle" =>
            /\ exec.inv \in Job \X Op /\ exec.inv[1] \in Job
            /\ exec.owner \in Controller /\ exec.epoch \in Nat
      /\ exec.pc \in {"staling", "granted", "finishing", "closing"}
            => exec.approval \in ApprovalId
  BY DEF IInv, EdgeInv, EdgeTypeOK, ExecInv, ExecBound, ExecApproval, ExecState, Controller,
      Operating
<1>2. CASE PlannerNext
  <2>1. /\ {"script", "assistant", "staff"} \subseteq Controller
        /\ {"completed", "failed"} \subseteq Terminal
    BY DEF Controller, Terminal
  <2>2. CASE \E j \in Job : Claim(j) BY <1>0, <2>2 DEF Claim, Transaction
  <2>3. CASE AssistantTakesOver
    BY <1>0, <2>1, <2>3 DEF AssistantTakesOver, PlannerAt, Transaction
  <2>4. CASE ConcludeCommit \/ FailWrite
    BY <1>0, <2>1, <2>4 DEF ConcludeCommit, FailWrite, PlannerAt, Transaction
  <2> QED
    BY <1>2, <2>2, <2>3, <2>4 DEF PlannerNext, Look, Call, TimeOut, EndTick, ConcludeCheck,
        FailRead, Restart, Transaction
<1>3. CASE ExecNext
  <2>1. CASE PrepareWindow BY <1>1, <2>1 DEF PrepareWindow, ExecAt, Transaction
  <2>2. CASE WindowReady BY <1>1, <2>2 DEF WindowReady, ExecAt, Transaction
  <2>3. CASE \E a \in ApprovalId : ExecAuthorize(a)
    BY <1>1, <2>3 DEF ExecAuthorize, ExecAt, Transaction
  <2>4. CASE ExecStales BY <1>1, <2>4 DEF ExecStales, ExecAt, Transaction
  <2>5. CASE ExecBegin BY <1>1, <2>5 DEF ExecBegin, ExecAt, Transaction
  <2>6. CASE FileResult \/ FileError BY <1>1, <2>6 DEF FileResult, FileError, ExecAt, Transaction
  <2>7. CASE UNCHANGED storeVars BY <2>7 DEF Transaction
  <2>8. CASE \E a \in ApprovalId : SelectRecord(a)
    BY <2>8, BindKeepsTables DEF SelectRecord, Transaction
  <2> QED
    BY <1>3, <2>1, <2>2, <2>3, <2>4, <2>5, <2>6, <2>7, <2>8 DEF ExecNext, Accept, AuthorizeRefused,
        RequestGrant, BeginRefused, Fence, Operate, OperationFails, Handler, FileResultRefused
<1>4. CASE StaffNext
  <2>1. CASE \E j \in Job : Submit(j) \/ Cancel(j) \/ Guide(j)
    BY <2>1 DEF Submit, Cancel, Guide, Terminal, Transaction
  <2>2. CASE ChangeScope \/ \E s \in {"active", "paused"} : Supervise(s)
    BY <2>2 DEF Supervise, ChangeScope, Transaction
  <2>3. CASE TakeoverNote BY <1>0, <2>3 DEF TakeoverNote, Transaction
  <2>4. ASSUME NEW o \in Controller, console.job \in Job, ConsoleTransfers(o) PROVE Transaction
    BY <1>0, <2>4 DEF ConsoleTransfers, Transaction
  <2>5. CASE TakeoverCommit BY <1>0, <2>4, <2>5 DEF TakeoverCommit, Controller
  <2>6. CASE ReleaseCommit
    <3>1. console.job \in Job BY <1>0, <2>6 DEF ReleaseCommit
    <3>2. (IF handoff[console.job] = None THEN "script" ELSE handoff[console.job]) \in Controller
      BY <1>0, <3>1 DEF Controller
    <3> QED BY <2>4, <2>6, <3>1, <3>2 DEF ReleaseCommit
  <2>7. CASE UNCHANGED storeVars BY <2>7 DEF Transaction
  <2> QED
    BY <1>4, <2>1, <2>2, <2>3, <2>5, <2>6, <2>7 DEF StaffNext, TakeoverRead, ReleaseRead
<1>5. CASE \E j \in Job : Tick(j) BY <1>5 DEF Tick, Transaction
<1>6. CASE FaultNext
  <2>1. CASE BeginResponseLost BY <1>1, <2>1 DEF BeginResponseLost, ExecAt, Transaction
  <2>2. CASE ReceiptLost
    <3>1. ExecAt("finishing") \in BOOLEAN BY DEF ExecAt
    <3> QED BY <1>1, <2>2, <3>1 DEF ReceiptLost, Transaction
  <2>3. CASE WindowReceiptLost BY <1>1, <2>3 DEF WindowReceiptLost, ExecAt, Transaction
  <2>4. CASE SelectionResponseLost
    BY <2>4, BindKeepsTables DEF SelectionResponseLost, Transaction
  <2> QED
    BY <1>6, <2>1, <2>2, <2>3, <2>4 DEF FaultNext, PlannerCrash, ExecutorCrash, Transaction
<1>7. CASE Poll \/ UNCHANGED vars BY <1>7 DEF Poll, vars, Transaction
<1> QED BY <1>2, <1>3, <1>4, <1>5, <1>6, <1>7 DEF Next

LEMMA TransactionGuardsLease ==
    ASSUME StoreInv, Transaction
    PROVE  /\ lease'.epoch >= lease.epoch
           /\ <<lease'.job, lease'.owner, lease'.worker>> # <<lease.job, lease.owner, lease.worker>>
                => lease'.epoch > lease.epoch
           /\ lease'.job # lease.job => lease.inflight = None
<1>0. StoreTypeOK /\ lease \in Lease /\ lease.epoch \in Nat /\ lease.epoch >= lease.epoch
  BY DEF StoreInv, StoreTypeOK, Lease
<1>1. CASE /\ lease'.job = lease.job /\ lease'.owner = lease.owner
           /\ lease'.worker = lease.worker /\ lease'.epoch = lease.epoch
  BY <1>0, <1>1
<1>2. ASSUME NEW j \in Job, NEW w \in Nat, ClaimNew(w, j)
      PROVE  /\ lease'.epoch > lease.epoch /\ lease'.epoch >= lease.epoch
             /\ lease.inflight = None
  BY <1>0, <1>2 DEF ClaimNew, StoreInv, LeaseServesClaimed
<1>3. ASSUME NEW j \in Job, NEW w \in Nat, Reclaim(w, j)
      PROVE  /\ lease'.job = lease.job /\ lease'.owner = lease.owner
             /\ \/ lease'.worker = lease.worker /\ lease'.epoch = lease.epoch
                \/ lease'.epoch > lease.epoch /\ lease'.epoch >= lease.epoch
  <2>1. CASE lease' = [lease EXCEPT !.expired = FALSE] /\ UNCHANGED approvals
    BY <1>0, <2>1 DEF Lease
  <2>2. CASE lease' = [lease EXCEPT !.worker = w, !.epoch = @ + 1,
                                    !.expired = FALSE, !.inflight = None]
    <3>1. lease.owner \in Controller
      BY <1>3 DEF Reclaim, StoreInv, LeaseServesClaimed
    <3> QED BY <1>0, <2>2, <3>1, NewEpoch
  <2> QED BY <1>3, <2>1, <2>2 DEF Reclaim
<1>4. ASSUME NEW j \in Job, NEW o \in Controller, NEW e, Transfer(j, o, e)
      PROVE  lease'.job = lease.job /\ lease'.epoch > lease.epoch /\ lease'.epoch >= lease.epoch
  BY <1>0, <1>4, NewEpoch DEF Transfer
<1>5. CASE \/ \E inv \in Job \X Op, o \in Controller, e \in Nat, a \in ApprovalId :
                BeginAction(inv[1], o, e, inv, a)
           \/ \E inv \in Job \X Op, a \in ApprovalId, cache \in BOOLEAN :
                FinishAction(inv, a, cache)
           \/ \E j \in Job, o \in Controller, e \in Nat : BeginWindowRecovery(j, o, e)
           \/ \E j \in Job : FinishWindowRecovery(j)
           \/ ExpireLease
  BY <1>0, <1>1, <1>5 DEF BeginAction, FinishAction, BeginWindowRecovery, FinishWindowRecovery,
      ExpireLease, Lease
<1>6. CASE UNCHANGED lease BY <1>1, <1>6
<1> QED
  BY <1>1, <1>2, <1>3, <1>4, <1>5, <1>6 DEF Transaction, storeVars, Resolve, CreateJob, Message,
      PassBudget, End, NoteHandoff, Authorize, StaleApproval, ChangeEmployee, ScopeChanged

LEMMA TransactionRevivesNothing ==
    ASSUME StoreInv, Transaction, NEW i \in Job, status[i] \in Terminal
    PROVE  status'[i] = status[i]
<1>0. status \in [Job -> Status] BY DEF StoreInv, StoreTypeOK
<1>1. CASE \/ \E j \in Job : Resolve(j) \/ CreateJob(j)
           \/ \E j \in Job, s \in Terminal : End(j, s)
           \/ \E j \in Job, w \in Nat : ClaimNew(w, j)
  BY <1>0, <1>1 DEF Resolve, CreateJob, End, ClaimNew, Live, Terminal
<1>2. CASE \E s \in {"active", "paused"} : ChangeEmployee(s)
  BY <1>0, <1>2 DEF ChangeEmployee, Live, Terminal
<1>3. CASE UNCHANGED status BY <1>3
<1> QED
  BY <1>1, <1>2, <1>3 DEF Transaction, storeVars, Message, PassBudget, FinishWindowRecovery,
      Reclaim, Transfer, NoteHandoff, Authorize, StaleApproval, BeginAction, FinishAction,
      BeginWindowRecovery, ScopeChanged, ExpireLease

(* claim and transfer never give the desktop to another request, controller  *)
(* or worker without a new epoch, and no step takes an epoch back.           *)
THEOREM EpochsGuardOwnership == Spec => EpochGuardsOwnership
<1> DEFINE Guarded ==
        /\ lease'.epoch >= lease.epoch
        /\ <<lease'.job, lease'.owner, lease'.worker>> # <<lease.job, lease.owner, lease.worker>>
              => lease'.epoch > lease.epoch
<1>1. IInv /\ [Next]_vars => [Guarded]_vars
  BY StepsAreTransactions, TransactionGuardsLease DEF IInv
<1> QED BY <1>1, InductiveInvariant, PTL DEF Spec, EpochGuardsOwnership

(* No claim, stop, update_job or lifecycle change revives an ended request.  *)
THEOREM EndsAreFinal == Spec => TerminalIsFinal
<1> DEFINE Final == \A j \in Job : status[j] \in Terminal => status'[j] = status[j]
<1>1. IInv /\ [Next]_vars => [Final]_vars
  BY StepsAreTransactions, TransactionRevivesNothing DEF IInv
<1> QED BY <1>1, InductiveInvariant, PTL DEF Spec, TerminalIsFinal
=============================================================================
