# A verification development of the enterprise agent system

This directory models the enterprise agent system: how a central server, an edge planner that runs a
language-model agent, an edge executor that alone touches the application, and staff who may interrupt
at any time share one desktop; how the system learns skills from finished work; how it talks to staff over a
chat channel; and how a workflow saves a record once. Paths below are
relative to the repository (`src/…`); every definition's lines are in `PROJECT.json` under `map`.

1. [The system](#1-the-system)
2. [The plan](#2-the-plan)
3. [The models](#3-the-models)
4. [What is checked](#4-what-is-checked)
5. [What is proved](#5-what-is-proved)
6. [Divergences found](#6-divergences-found)
7. [What is not modelled](#7-what-is-not-modelled)

## 1. The system

### Components

| Component | Code | State it keeps | Operations |
|---|---|---|---|
| Server store | `src/server/eas_server/store.py` | SQLite tables jobs, approvals, invocations (receipts), desktop_leases, kv, events | create, claim, check, transfer, authorize, begin, finish, stale, conclude, stop; each `with self.db()` is one transaction |
| Worker API | `worker_api.py` | assignments; no cache | authenticates a service call, checks that the request is still the desktop's, calls the store |
| Execution grants | `execution_grants.py` | issued grants, consumed flag | issue, consume inside `begin_action` |
| Staff console API | `backend.py` | none | chat, cancel, takeover, release, accept |
| Conversation | `conversation.py` | questions, message events | message (guidance, answers), ask, read |
| Employees | `employees.py` | employees row: state, revision, scope | change, sync, guard, resolve, demonstrations |
| Learning queue | `learning.py` | maintenance items | queue, claim (120 s, three attempts), finish |
| Packages | `packages.py` | published skill versions | publish, access |
| Channel | `channels.py`, `discord_bridge.py` | bindings, deliveries | receive, pending, delivered |
| Access | `security.py`, `access.py`, `accounts.py` | registry, sessions | authenticate, authorize |
| Planner process | `edge-harness/eas_harness/worker.py`, `coordinator.py`, `assistance.py` | process nonce, current request, agent checkpoints | poll, claim, tick, tool calls, conclude, report failure |
| Executor process | `executor.py`, `execution.py`, `remote.py` | one lock, the running operation, its epoch | dispatch: authorize, begin, operate, file the receipt |
| Skill library and runtime | `skill_library.py`, `skill_runtime.py` | versions, active pointers, changes; workflow index | admit, change, get; run, resume |
| Session context | `session_context.py`, `context_broker.py` | history, windows | archive, manage, window |
| Maintenance and learner | `maintenance.py`, `candidate_checks.py`, `learner_process.py`, `learner_queue.py` | processed items, request and response files | maintain, propose, serve |
| Shadow observer | `shadow.py` | the previous observation | capture |
| Adapters, integrations | `adapters/*.py`, `integrations/**` | application session | observe, operate, prepare window, reconcile a save |

### How they interact

Planner and executor call the server by HTTP; the planner calls the executor by HTTP and waits up to
60 seconds; the executor serialises its commands with one lock. Nothing is pushed: the planner polls
`claim`, which also renews the 30-second lease. Authority is a chain. A request is *live*; a lease gives
the desktop to one request, one controller (script, assistant, staff), one planner process and one
*epoch*; an approval authorizes one invocation under one epoch; `begin_action` consumes it and writes
the invocation into `lease.inflight`; `finish_action` files the receipt and clears it. Everything that
changes who is in charge raises the epoch and makes authorizations not yet begun stale.

### What is hard

- Each remote call is one transaction, but the protocols above them (claim, tick, `_run`, takeover,
  conclude) are many: anything may happen between two of them.
- Planner and executor fail independently. A restarted planner reclaims the lease while the executor
  may still perform the old planner's operation.
- Responses are lost: of `begin_action`, of the receipt, of the executor's answer.
- The lease expires under long operations; budgets pass while staff hold the desktop.
- Staff, supervisors and guidance arrive at any point, and error handlers make calls that may be
  refused themselves.

### What makes each component correct

- *Store and executor:* no authority of the past is usable; one operation at a time; receipts are
  final; new work and handoffs wait for receipts; requests end and stay ended.
- *Conversation and channel:* a message has one effect however often it is delivered; one request and
  one question are open at a time; an answer stays; what the employee says is posted, in order.
- *Employee lifecycle and demonstrations:* nothing of an old authority goes on under a new one; nothing
  is recorded after a demonstration's outcome; what the mentor says is heard.
- *Learning queue, maintenance, library:* an episode activates at most one version however often the
  work is claimed, retried or acknowledged; the outcomes of queue and ledger agree; only what was
  accepted or admitted is distributed.
- *Learner processes:* a response belongs to the request that waits for it.
- *Skill runtime and execution layer:* a save is made once although its outcome may be uncertain;
  outcomes mean what they say; a resumed workflow repeats and skips nothing.
- *Session context:* a reset without progress is not repeated; nothing archived is lost.

The hazards, each at its line, with the properties that would catch it, are in `PROJECT.json` under
`hazards`; section 7 names the ones no property covers.

## 2. The plan

The order followed what would hurt most if it were wrong.

1. **Desktop control**: `ServerStore`, `Desktop`, the abstract `DesktopControl` and `DesktopTenure`,
   `DesktopRefinement`, `DesktopProofs`, `ControlProofs`. Done.
2. **Learning** (queue, library, maintenance pass, learner files): `LearningQueue`, `SkillLibrary`,
   `Learning`, `LearningProofs`, the abstract `Lessons` with `LessonsRefinement`, `LessonsProofs`. Done.
3. **Conversation, channel, demonstrations**: `Workforce`, `Conversation`, `Channel`, `ChannelProofs`,
   `DeliveryProofs`. Done.
4. **Workflows and the save**: `Workflow`, `WorkflowProofs`, the abstract `Saving` with `SavingRefinement`,
   `SavingProofs`. Done, in place of the two modules ExecutionLayer and SkillRuntime first planned: the hazards lie between them.
5. Left: `SessionContext` (single transactions on text), and pure algorithms (`conclude`'s classification,
   `complete_exchanges`, specification validation) against reference definitions over bounded inputs.
   Twelve runs exist, each for a question of its own; new modules would join one of them.

Every safety invariant, action property and refinement that a passing run checks is also proved;
what is left to TLC alone is liveness.

## 3. The models

| Module | Models |
|---|---|
| `ServerStore` | the server's tables for one desktop; every operator that primes a variable is one transaction |
| `Desktop` | the planner, executor, console, supervisor, clock and faults that call those transactions; the properties |
| `DesktopControl` | what control of a desktop promises, without epochs, leases or processes |
| `DesktopTenure` | the same when the planner may die: a successor takes the desktop back, which begins a new tenure |
| `DesktopRefinement` | the mappings from `Desktop` to `DesktopControl` and `DesktopTenure` |
| `LearningQueue` | acceptance, assessments and the maintenance table of the server, claims, publication |
| `SkillLibrary` | the edge's registry: versions, active pointers, qualification, the processed ledger |
| `Learning` | the maintenance pass between queue, library and the learner's files; staff, crashes, upgrades |
| `Lessons` | what learning from finished work promises, without claims, ledgers, files or crashes |
| `LessonsRefinement` | the mapping from `Learning` to `Lessons` |
| `Workforce` | an employee's state, its jobs, the lease, the event log; demonstrations and their observation |
| `Conversation` | requests, guidance and questions of one conversation |
| `Channel` | the Discord bridge, the console, the planner's turns and the observer, acting on `Conversation` |
| `Workflow` | tool calls that start and resume workflows, the executor's operations, the application's save |
| `Saving` | what a request promises about its save, without calls, operations, checkpoints or copies |
| `SavingRefinement` | the mapping from `Workflow` to `Saving` |
| `DesktopProofs`, `ControlProofs`, `LearningProofs`, `LessonsProofs`, `ChannelProofs`, `DeliveryProofs`, `WorkflowProofs`, `SavingProofs` | the inductive invariants and the theorems |
| `MCDesktop`, `MCRefinement`, `MCLearning`, `MCWorkflow` | symmetry and constants for TLC |

The four families are separate on purpose: each keeps of the others only what its own hazards need.
`Workforce` has its own small lease and jobs because channel and demonstrations turn on events and
states, not on epochs; `Workflow` lets an operation fail wherever `Desktop` shows that authority, deadline or
crash can stop it.

### Desktop: state

| Variable | Code |
|---|---|
| `status` | `jobs.status`. `resolved` is a request between `workforce.resolve` and `create_job`, two transactions of `send_chat`; the terminal statuses denied and rejected are treated as failed |
| `overdue` | requests for which `time.time() - started_at > timeout` |
| `lease` | the `desktop_leases` row; `expires` becomes the fact that it has passed |
| `approvals` | the approvals that can still act, in `MaxApprovals` slots. An executed or stale row refuses every use, so that its slot is free again (`Closed`) |
| `receipts` | ids in `invocations` |
| `handoff` | `kv` entries `handoff:<job>` |
| `employee` | state and revision. States other than active behave as paused; demonstrations are in `Workforce` |
| `planner` | the worker process: where it is, its random worker id (`nonce`), its request, the epoch it last read |
| `requests`, `exec` | commands waiting for the executor's lock; the command holding it with the values `_run` keeps in local variables |
| `console` | a takeover or release between its transactions |
| `spent` | the bounds on faults and handoffs |

### Desktop: steps

A remote call is one step: request, transaction and response. What separates *response lost* from
*call refused* is in `FaultNext`. Consecutive reads whose result matters only at the last of them are
one step (`Accept`, `Look`). `claim` and the assignment it records are one step.

- **Planner** (`run_worker`, `Coordinator.tick`): `Poll`, `Claim`, `Look`, `AssistantTakesOver`, `Call`,
  `TimeOut`, `EndTick`, `ConcludeCheck`, `ConcludeCommit`, and the handlers `FailRead`, `FailWrite`,
  which can end the process; `Restart` is the service manager. What the agent calls, and when it
  stops, is free. Tool calls run concurrently: the planner waits until each is answered, and of several
  failures any may be the one that surfaces (`Surfaces`). A command it gave up on stays behind as an orphan.
- **Executor** (`dispatch`, `_run`): `Accept` (authorize, receipt lookup, boundary, lease, check),
  window recovery, `ExecAuthorize` or `AuthorizeRefused`, `ExecStales` for a standing approval of an earlier run,
  `RequestGrant`, `ExecBegin`, two fences around `Operate`, `FileResult`; the operation may fail
  (`OperationFails`) into a handler that makes no call (`closing`), a read (`reading`) or an update
  (`updating`) before the error receipt (`FileError`).
- **Staff, supervisor**: submit, cancel, guidance, takeover in three transactions, release in two,
  employee changes, scope change.
- **Clock**: the lease expires, a budget passes. **Faults**: either process dies, a response is lost.

### Learning

| Variable | Code |
|---|---|
| `work` | a job's status, `accepted`, its latest assessment (`learning.py`, `evaluation.py`) |
| `items` | the `maintenance` table; `rowid` is `row`, the 120 seconds are `expired`, `claim_id` the attempt's number |
| `commands`, `packages` | lifecycle commands; rows of `skill_packages` |
| `versions`, `active`, `qualified`, `processed` | the library's tables; `qualified` are the versions bound to today's code digest |
| `edge` | where `maintain` is, with its local variables |
| `requests`, `responses`, `learner` | the files of `LearnerQueue` and the service working on one |
| `late` | acknowledgements of a process that died after sending them |
| `publication` | the rows of evidence the publication under way has found in order; the version being requalified; history of what was revoked meanwhile |
| `taught` | history: what each item has activated |

A pass is `StartPass` (claim and ledger lookup) or `IdlePass`; `ApplyChange` for a lifecycle command;
`GatherEpisode`, `GatherDemonstration`, `GatherChat` for evidence; `ReadResponse` or `LearnerTimesOut`;
`Dismiss`, `Recheck`, `Admit`; `RecordResult`, `Finish`; and the publication, which looks at the evidence of each version in
a transaction of its own (`CheckEvidence`) and inserts the packages in a later one (`Publish`): `publication` holds what was
looked at and, as history, the acceptances revoked meanwhile. The learner is untrusted: it answers
anything its evidence allows (`Teaches`, `Fits` are what admission accepts) or something that is
refused ("bad"). It takes a request, works, and writes its response after looking whether the request is
still there, so that it may write a response nobody waits for. `EdgeCrash` may leave an acknowledgement
under way; `UpgradeCode` unbinds every version, `Requalify` is the operator's `migrate.py`.

### Channel

| Variable | Code |
|---|---|
| `employee`, `jobs`, `lease`, `log` | the employee's row, requests and demonstrations in order of creation, the desktop's lease, the events |
| `questions` | the questions table |
| `bridge` | the handler that holds `discord_bridge`'s lock, with its local variables |
| `posts`, `recorded` | what the channel shows; `channel_deliveries` |
| `planner`, `observer` | a turn of the agent, a pass of `ShadowObserver` |

`receive` is `Arrives`, `Search`, then `TeachInChannel` or `ResolveEmployee`, `Create`, `FindOpen`, `FindQuestion`,
`GuideInChannel`: one transaction each, a crash or anything else between them. `pending` reads the list of requests (`Gather`) and
then the events of one request after the other (`GatherJob`), so that later requests are read at a later moment. What it found is
posted (`Post`) and recorded (`RecordDelivery`); `Hold` is a refused destination, and `PostUnanswered` a POST that took effect
although its answer was an error or lost. Discord may drop a repetition or show it (`Shows`). The planner's turn is `TakeTurn`
(the budget of model calls), `Reply`, `Propose`, `Begin`, `AskStaff`, `EndTurn`, as in `coordinator.py`; the observer's pass `Poll`, `CaptureScreen`
or `CaptureFails`, `Look`, `ReserveReview`, `Infer`. `Registered` says whether desktops are registered; the single lease
of a store without them is what the repository's tests of questions build.

### Workflow

| Variable | Code |
|---|---|
| `mutation` | `job.mutation`, what the request knows of its save |
| `runs` | `job.skill_runs`, read and written as a whole (`seen` is the copy a call has read) |
| `checkpoint`, `receipts` | the state of each workflow's graph: its index, and whether its record was once missing, which nothing clears; cached results of its steps |
| `calls` | tool calls under way: `run_skill`, `resume_skill`, `save_draft` |
| `op` | the operation under the executor's lock and where it is |
| `orphans` | commands that wait for the lock although their planner gave up on them |
| `concluding` | a completion has passed `conclude`'s checks and is yet to be committed |
| `app` | clicks the application has yet to process, drafts it has, the last rejection |

A batch of calls (`Turn`) runs concurrently; each waits for the executor with one command (`Command`). The executor takes any
command in its queue (`Queued`), also one that nobody waits for. It may refuse an operation before anything is marked
(`Declines`) or not find the record (`NotFound`). A save is marked (`PerformSave`), fenced (`FenceSave`) and
clicked (`ClickSave`) in three steps: between the last two the request may end and the click still comes. An operation fails at
any point (`OperationFails`), the client gives up on the operation (`TimeOut`) or on a command in the queue
(`Abandon`), the planner restarts and repeats what its checkpoint holds (`Restart`); commands left behind stay in the
queue. A request ends (`Finish`) by `Cancel`, `GiveUp` or, when `CheckCompletion` has found nothing outstanding, by
`Conclude` a transaction later: its calls and the commands in the queue come to nothing from then on, the operation under the lock goes on
to where it next asks the server. `PerformSave` and `Reconcile` may fail to see a draft that is there, since the
accessibility adapter shows drafts only while their record is open. The application answers when it
gets to it (`Commit`, `RejectSave`) and would take a second click: nothing relies on its idempotence. "prepare" stands
for the operations before a save, which look and fill in.

## 4. What is checked

### Runs

| Run | Question | Result |
|---|---|---|
| `safety` | Under every kind of fault, two invocations called concurrently: types, current authority, fencing, one operation per epoch, one standing approval, final receipts, epochs guard ownership; the whole implements `DesktopTenure` | pass, 4.8 million states |
| `control` | Concurrent tool calls, handoffs, an employee change, executor and network faults, no planner crash: implements `DesktopControl`, completed is quiet | pass, 1.9 million states |
| `ends` | Under fairness: a running request ends; what is in flight is settled | pass, 0.3 million states |
| `served` | Two requests, every kind of failure handler and one fault of executor or network: under fairness each is served unless a reservation is left for ever; ended stays ended, the change of requests implements `DesktopControl` | pass, 0.4 million states |
| `admission` | A request and a demonstration, claims that expire, a lifecycle command, crashes, upgrades, assessments: what work teaches is learned once, recorded, acknowledged and distributed consistently; items settle; the whole implements `Lessons` | pass, 0.3 million states |
| `conversation` | Messages of channel and console, repeated deliveries, crashes of the bridge, lost answers to its posts, lifecycle changes, a demonstration, the planner's turns: effects are single, nothing is resumed, what is said is posted in order and heard | pass, 0.8 million states |
| `workflow` | Batches of calls that start, resume and bypass workflows, failures anywhere, client timeouts and the commands they leave, restarts, ends at any moment, a late application: one draft, true outcomes, steps in order; the whole implements `Saving` | pass, 3.5 million states |
| `release`, `handoff`, `inflight`, `relearn`, `asking` | statements of the documents that the code does not keep | violated, see section 6 |

`PROJECT.json` gives one mutant for each property of a passing run: a change such as forgetting to
invalidate, keeping the epoch on a reclaim, or letting an error keep its reservation, which that run
must detect. The mutated operators stand beside the originals in the modules.

### Properties worth reading first

- `OperationFenced` relates the executor's local variables to the server's tables: whoever is inside an
  operation still owns an executing approval, and as long as the epoch has not moved the desktop is
  reserved for it. It fails if a reclaim does not raise the epoch.
- `CompletedIsQuiet` shows what `conclude`'s two transactions rest on. It holds with one planner process
  because a timed-out planner fails the request instead of continuing; it does **not** hold with planner
  crashes, because an orphaned command may begin between check and commit. `control` excludes them.
- `ImplementsControl` excludes planner crashes for the same reason as `HandoffWaits` fails: a reclaim
  clears the reservation under a running operation.
- `ImplementsTenure` says what is left under every fault. `DesktopTenure` counts the changes of hands: within its tenure an
  operation runs alone on a desktop reserved for it; the one step that breaks a reservation before the receipt is
  `TakeBack`, by a new process of the same request; an operation that outlives its tenure can only end, and no
  second one begins beside it.
- `ImplementsLessons` says that the retries, crashes, late acknowledgements and timeouts of learning do not show: an
  item is scheduled, teaches while it is open, is settled once with a truthful outcome or given up, and only what
  was taught is distributed. Only an episode's own item is promised to teach at most once and to report what it taught; that
  reviews are excepted is divergence 4.
- `SavedOnce` and `OutcomesAreTrue` relate the application to what the request says of its save, although the
  click, its effect and its report are three moments and any of them may fail. They rest on the mark made
  *before* the click and on looking before clicking again.
- `RequestsAreServed` has two exceptions. A pause of the employee stops all work on purpose. And a reservation may be left by a
  request that ended (`LeftReserved`): its failure handler was refused before the receipt, its executor died or an answer was lost,
  and then no later request gets the desktop (divergence 3, `docs/security.md:31`). The property says that nothing else keeps a request waiting.
- `ImplementsSaving` puts the same together with the rest of the workflow: whether the save may be made is settled while the request
  runs, under an uncertain outcome and with nothing made or to come (`Dare`); the click that follows may find the request
  ended; success and failure are claimed when they are known; the steps that rest on the save wait until it is
  confirmed. It does **not** say that an ended request does nothing more: one fenced click may still come, and steps already performed
  still file their receipts. It fails if completion looks at the draft only.
- `LedgersAgree` relates the queue on the server to the ledger on the edge, which no transaction spans:
  an item is answered with what the ledger says, whichever claim answers it.
- `AnswerIsFresh` is about the learner's file names: a response written after its requester gave up is never
  taken for the answer to a later request.
- `NeverResumed` and `NothingAfterOutcome` are about a lifecycle change between two transactions of a handler
  that began under the old authority.
- `PostedInOrder`, `EventsArePosted`: a batch gathered request by request, a refused destination, a crash between post and
  record and a lost answer neither lose an event nor let one overtake another, with one exception (`Overtaken`): a reply filed
  for a request that has ended may come after what is said for a later one, because its request was read before it was
  filed. A repetition needs a crash or a lost answer (`losses`).
- `DistributionFollowsAdmission` holds at the moment of the insert except for acceptances revoked while that publication was under
  way: `publish` looks first and inserts later (`packages.py:64-119`), and this gap is all that the exception covers.

### Bounds

**Desktop.** Two invocations of one request meet everything one request can do to itself: concurrent calls, a repeated
call, an orphan beside a new call. Two requests are needed where the desktop changes hands between them
(`served`). `MaxRequests` counts the commands waiting for the lock, beside the one that holds it: 1 gives two
at a time, 2 in `control` adds an orphan. `MaxApprovals` is 2, one for each invocation; an action that finds no free
slot is not taken, which can only happen when a dead run left its approval executing and both invocations are
used up. `MaxFaults` is 1 per run: the properties are about one fault at an awkward moment, and the theorems of
section 5 have no such bound. `MaxHandoffs` 2 allows a takeover and a release, `MaxRevision` 2 one change of the
employee. `MaxHandoffs` 0 in `served` keeps the liveness check within minutes; two requests with handoffs and two invocations
beside the fault and the failure handlers exceed what TLC finishes. Epoch, nonce and revision are otherwise unbounded
naturals that these bounds keep finite.

**Learning.** `MaxEvents` counts everything that happens to the pass from outside: ends of work, assessments, lifecycle
commands, crashes and upgrades. Two of them and one request meet each pair of them at every point of a pass, with
two claims of an item (the code permits three); the properties need one item that is interrupted, retried or assessed
again, and one that competes with it (the demonstration). With one request and no capability gap the related
review is the one of an incorrect assessment. Larger instances take longer than a run should; the theorems have no such bound.

**Channel.** `MaxEvents` counts deliveries, acts of console and supervisor, crashes and lost answers; three of them let a message be
delivered, delivered again, and overtaken by another or by a change. `Registered` is FALSE in `conversation`, because with registered
desktops no question is ever asked (section 6), and TRUE in `asking`.

**Workflow.** Two calls in a batch are what the server's table of workflows permits without loss; the state space is finite
without a bound on faults: what is left in the queue is a set, in which alike commands are one that may start again and again.
`MaxOrphans` is 1: one command nobody waits for, beside the operation under the lock (which may be an orphan, too) and the
two calls of the batch. `MaxRecoveries` is 1 (the code has 4): the second recovery repeats the first. With three
calls in a batch a stale copy of the table can make two workflows of one request resumable, contrary to
`docs/architecture.md:19`; the save is still made once, and the steps stay in order.

Deadlock checking stays on for `Desktop`, where `Poll` always is enabled: an idle planner polls. `Learning`, `Channel` and `Workflow`
may stop: their bounded work ends, and their runs say `CHECK_DEADLOCK FALSE`.

### Fairness

`Desktop` assumes weak fairness of: the planner's loop (`while True` with a sleep), except its client
timeout; the executor's lock and threads; the remaining transactions of a staff request already being
served; `create_job` after `resolve`; expiry of a lease and passing of a budget, which are clocks.
Nothing is assumed of staff, supervisors, faults or of the choice an agent makes. `RequestsEnd` follows from the
budget check of `Look`, not from the agent stopping. It, like `RequestsAreServed`, is stated up to a pause of
the employee, which stops all work on purpose.

With an executor crash or a lost receipt `InFlightSettles` is false: the planner that survives renews its
lease, so that nothing ever clears the reservation until that process restarts. `docs/security.md:31`
accepts this ("Do not clear a stuck lease"). The run `ends` therefore has planner crashes, after which the
reclaim settles it, and failing operations, and uses one error kind; the handlers that may lose the receipt are in
`inflight` and, with what they leave as a named exception, in `served`.

`Learning` assumes weak fairness of the maintenance thread, which loops every five seconds, strong fairness of the begin of its
passes, which an operator's migration (`Requalify`) holds up while it runs, and weak fairness of the 120
seconds of a claim. Nothing is assumed of the learner: a request times out, and `ItemsSettle` rests on the three
attempts of an item.

`Channel` assumes weak fairness of the bridge's loop, of each request it reads and of its handlers, and of the observer's, and strong fairness of
`Post` and `CaptureScreen`, which are retried after each refusal: the destination and the screen are assumed to work
again from time to time. The poll of an observer that comes after the end of its demonstration is not assumed to happen.

`Workflow` has no liveness property: that a request ends is `RequestsEnd` of `Desktop`.

## 5. What is proved

Each `*Proofs` module proves theorems for any constants that satisfy the named `ASSUME`s of the modules it
extends (sentinels are not elements, bounds are naturals, the sets of jobs of `Learning` are finite), which TLC evaluates in every run;
they hold for any bounds and any faults, with three exceptions. `PlannersOwnTheirCommands`, `CompletedStaysQuiet` and `DesktopImplementsControl`
also assume `NoPlannerCrash` (`"planner" \notin FaultKinds`), without which they are false (section 4); executor crashes, lost
responses and expired leases remain.

| Module | Theorem | Property |
|---|---|---|
| `DesktopProofs` | `InductiveInvariant` | `IInv` |
| | `TypeCorrect` | `TypeOK` |
| | `AuthorityStaysCurrent` | `AuthorityIsCurrent` |
| | `OperationsAreFenced` | `OperationFenced` |
| | `OneActiveOperation` | `OneOperationPerEpoch` |
| | `ApprovalsDoNotMultiply` | `OneStandingApproval` |
| | `ReceiptsAreFinal` | `ReceiptIsFinal` |
| | `EpochsGuardOwnership` | `EpochGuardsOwnership` |
| | `EndsAreFinal` | `TerminalIsFinal` |
| `ControlProofs` | `PlannersOwnTheirCommands` | `QInv` |
| | `CompletedStaysQuiet` | `CompletedIsQuiet` |
| | `DesktopImplementsControl` | `ImplementsControl` |
| | `DesktopImplementsTenure` | `ImplementsTenure` |
| `LearningProofs` | `LearningInvariant` | `LInv` |
| | `LearningTypes` | `TypeOK` |
| | `EpisodesLearnOnce` | `LearnsOnce` |
| | `LedgersStayEqual` | `LedgersAgree` |
| | `AnswersStayFresh` | `AnswerIsFresh` |
| | `OutcomesAreFinal` | `OutcomeIsFinal` |
| | `DistributionIsEarned` | `DistributionFollowsAdmission` |
| `LessonsProofs` | `ResultsAreHonest` | `RInv` |
| | `LearningImplementsLessons` | `ImplementsLessons` |
| `ChannelProofs` | `ChannelInvariant` | `CInv` |
| | `OneRequestIsOpen` | `OneOpenRequest` |
| | `OldRequestsAreGone` | `NeverResumed` |
| | `OutcomesAreLast` | `NothingAfterOutcome` |
| | `MessagesCountOnce` | `MessageOnce` |
| | `AnswersStand` | `AnsweredOnce` |
| `DeliveryProofs` | `DeliveryInvariant` | `DInv` |
| | `PostsStayInOrder` | `PostedInOrder` |
| | `ChannelTypes` | `TypeOK` |
| `WorkflowProofs` | `WorkflowInvariant` | `WInv` |
| | `WorkflowTypes` | `TypeOK` |
| | `SavesOnce` | `SavedOnce` |
| | `OutcomesHold` | `OutcomesAreTrue` |
| | `PerformsInOrder` | `StepsInOrder` |
| `SavingProofs` | `OutcomesAreCertain` | `SInv` |
| | `WorkflowImplementsSaving` | `ImplementsSaving` |

**Desktop.** `IInv` is `StoreInv /\ EdgeInv /\ ExecInv`. `StoreInv` speaks of the tables alone: approvals
have the shape their status requires, an authorized one is of the current epoch and request, an executing one
of the current epoch is what is in flight, an invocation has one standing approval and none beside a
receipt. It is proved transaction by transaction, independently of the callers. `EdgeInv` says what planner
and console may hold in local variables. `ExecInv` connects the executor to the tables: in every phase after
`authorize_operation` the approval it remembers is either its own or closed, and while it operates the approval is
executing. None of the safety properties is inductive alone: `OperationFenced`, for instance, needs that nobody
else can close the approval, hence that no two invocations share one and that only the executor, under its lock,
files receipts. Preservation is proved action by action (`PlannerKeepsIInv`, `ExecKeepsIInv`, `StaffKeepsIInv`,
`FaultKeepsIInv`). Many actions only move a program counter; two frame lemmas treat them together. The two
action properties come from `StepsAreTransactions`, that every step changes the tables by at most one store
transaction, and from what each transaction does to the lease and to ended requests.

**Control.** `QInv` says whose commands are out: only its own process claims the desktop of a live request again (`Owned`); a
command that was sent has a waiting planner (`Callers`) or belongs to a request that is failing, ended or paused (`Orphans`);
nothing is sent or executing for a request that is being concluded (`Concluding`). The last part gives `CompletedIsQuiet`.

For the refinements every step is shown to be a step of `DesktopTenure` or a stutter, from `IInv` alone (`StepsAreTenureSteps`):
`begin_action` checks the epoch it was given, so that what it starts runs in the tenure of that moment, and the executor is one process,
so that it starts nothing before the last operation is over. `DesktopImplementsControl` follows in two steps. A step of
`DesktopTenure` is one of `DesktopControl` unless it takes back a reserved desktop (`TenureIsControl`), and by `Owned` none
does (`ReservedKeepsEpoch`): the only process that reclaims a live request is its own, and that keeps epoch and reservation.

**Learning.** `LInv` adds to the properties what the pass may hold in its local variables (`EdgeOK`: the phase and the item it
belongs to), what an acknowledgement carries, the one of the pass as well as one left under way by a dead process (`LedgerOK`:
it says what the ledger says), which versions an item can have activated (`TaughtOK`), and how requests and responses
are numbered (`FilesOK`). `LedgersAgree` needs `LedgerOK` because an acknowledgement is applied after any number of
other steps.

**Lessons.** The promise is about outcomes, which are sent before they are recorded and recorded after they are true. `RInv`
therefore adds to `LInv` that every result is honest wherever it is (`HonestOK`: in the ledger, with the pass, under
way from a dead one): it names only what was activated and, for an episode's own item, all of it. A late acknowledgement may
settle an item that was claimed again; it settles it truthfully because it carries what the ledger says (`LedgersAgree`), and an item
that teaches is still open because the claim of the pass is the newest (`ClaimsOK`). Each action of
`Learning` is then `Schedule`, `Teach`, `Settle`, `Abandon`, `Distribute` or invisible.

**Channel.** `CInv` holds the shape of tables and log, what bridge, planner and observer may remember of jobs that meanwhile ended
(`BridgeOK`, `ActorsOK`), that a job's kind and its events fit (`KindsOK`, `EndedOK`), and that a message of the channel occurs
in at most one effect, counting the handler that is about to make it (`MessagesOK`).

**Delivery.** The bridge reads what is unsent job by job, each at a moment of its own, and takes one batch at a time, so that posts in the
order of the log are far from obvious. `DInv` says how far they are: the employee's desktop is leased to one job after the other
(`Lane`) and everything public is said by the job that holds it (`SaidInLane`), so that the order by job is the order of the log.
While the bridge reads, what it may have missed of the jobs it has read is late replies of ended ones only (`Read` in `InHand`): a job that is
followed by another has ended. Hence whatever is public before an event of the batch has been recorded or is in it, and
before a posted one has been recorded, unless it is such a reply (`Closed`, `Delivery`). A repeated post is counted against
the crashes and lost answers (`Repeats`).

**Workflow.** `WInv` relates calls, the table of workflows with the stale copies of it (`CallsOK`, `RunsOK`), the operation
under way and the commands left in the queue (`OpOK`, `OrphanSet`: each follows steps that have their receipts), checkpoints with receipts (`Chain`) and the application with the mark of the request (`SaveOK`: while the request
says "not attempted", no click is on its way).

**Saving.** An operation looks first and files its receipt later, so that the receipt needs what was true in between. `SInv` adds to
`WInv` that an operation other than a preparation that has come to its receipt leaves the save confirmed (`Certain`: nobody
takes the mark back while the executor is busy, whether the request still runs or not). Each step of `Workflow` is
then `Attempt`, `Dare`, `Save`, `Withdraw`, `Answer`, `Claim`, `Perform`, `Count`, `End` or invisible; `Count` covers the copies of the table that
calls write: by `RunsOK` and `CallsOK` even an old copy counts as completed only what has all its receipts.

**Only model-checked:** the liveness properties (`RequestsEnd`, `RequestsAreServed`, `InFlightSettles`, `ItemsSettle`,
`EventsArePosted`, `MentorIsHeard`), which are beyond the prover, like fairness and ENABLED. No theorem needs induction over data, and no module has a recursive operator.

## 6. Divergences found

1. `release` / `ReleaseGivesBack` (bug). `takeover` notes the current controller before it transfers
   (`backend.py:455-459`). A second takeover notes `staff`; `release` then gives the desktop to staff again,
   and `README.md:94`'s "Use **Release control** to resume automation" does not hold until another controller is noted.
2. `handoff` / `HandoffWaits`. `docs/architecture.md:35`: "handoff cannot interrupt an in-flight effect". It can
   after the planner restarted: its reclaim clears `inflight` (`store.py:363`) while the executor, which did not
   restart, still operates. The fence after the operation refuses its success, but the effect is made while staff
   hold the desktop.
3. `inflight` / `NothingLeftInFlight`. `docs/plans/digital-employees.md:9` promises that effects in flight
   "retain their receipt/reconciliation requirements" over a pause. The handlers of a failed operation read or
   update the job before `finish_action` (`execution.py:213-254`); refused by a pause or cancellation, they leave
   without a receipt, and `claim` returns nothing for this desktop from then on (`store.py:337-341`).
4. `relearn` / `RetryTeachesOnce` (bug). `admit` files the ledger entry of an activation under the job's id
   (`maintenance.py:373`), while a retry looks under the item's id, which for conversation and demonstration reviews is
   another. When the process dies between activation and record, the retry asks the learner again and can activate a second
   version, although `docs/architecture.md:51` says that "an acknowledgement retry does not generate another version".
5. `asking` / `QuestionIsPublished`. `ask` checks the lease row of the retired single desktop
   (`conversation.py:134`), while a registered desktop keeps its own: every question is refused although its call is
   executing. `docs/original-prompt-audit.md:35`: "Approved questions wait durably for deduplicated answers".

## 7. What is not modelled

- **Desktop.** Contents: operation arguments, observations, contracts, permissions of principals. Their checks refuse a call
  in the same way as the checks modelled; a permission that changes while a desktop works appears only as
  the employee's revision. A grant's signature, single use and 30 seconds: each grant is requested and used by one
  call, and its expiry is `BeginRefused`. The retired approval policy (`proposal`, `decide`, modes): no path of the
  current policy creates a pending approval. Several desktops: their rows share no state that the modelled transactions
  read, so one is enough. The refusal of `claim`'s first calls between lease and assignment.
- **Learning.** What a candidate says: whether it passes the content checks is a free verdict. Exports, the status page, files
  of packages and their fetch by planners.
- **Channel.** Membership and permissions of viewers, screenshots and their shares, the splitting of long texts, the
  window of the last twenty events a planner reads, a network that fails between a capture and its reservation. Discord's
  own deduplication by nonce is external and not relied on. Planner crashes, lease expiry and staff takeover belong to `Desktop`.
- **Workflow.** The classification of results, the retry allowances for temporary failures, the marketing role, a
  request that ends with a report only. A missing record is reported only while nothing was attempted. A planner that dies
  between the check and the commit of a completion may leave the commit under way; it ends the request like `Cancel`. That
  `save_draft` is repeated is always allowed, a superset of what its receipts allow.
- **Session context** is one process under one lock; its transactions are single and what matters in them is text. Accounts and
  access policy are constants while a desktop works; administration and migration are offline; judgment, streaming, web
  console, the other synthetic applications, installers and tools carry none of the program's own protocol.

Hazards that no property covers:

- A pause and a new activation between `resolve` and `create_job`: the request counts as one of the new activation (`channels.py:150`).
- The table of workflows is read, changed and written back as a whole; the later of two calls undoes what the other changed
  (`skill_runtime.py:138`). The save and the order of the steps survive it (section 4, bounds).
- A save marked but never clicked leaves the mark (`execution.py:169`): the request cannot save any more, which is the safe side.
- A retried chat message: the idempotence check, `create_job` and the fallback to guidance are separate transactions
  (`backend.py:293`).
- `claim` reads the employee, commits the lease and records the assignment in three transactions (`worker_api.py:311`,
  `329`).
- The executor dies during a window recovery: the reservation has no approval that a later run could settle
  (`windows_adapter.py:91`).
- A message that requested work and is delivered again while a demonstration runs becomes the mentor's teaching
  (`channels.py:126`).
- An exception other than `OSError` and `ValueError` ends the delivery loop for good (`discord_bridge.py:133`).
- Guidance that arrives after the last turn is not looked at by `conclude` (`coordinator.py:317`).
- A shadow review is charged before its inference, which may fail (`shadow.py:181`).
- An older lifecycle command applied again undoes a newer one (`maintenance.py:405`).
- One version the server does not support blocks every later publication (`packages.py:80`).
- Two resets of a session without progress between them (`session_context.py:105`).
- `conclude` takes the verified outcome from an earlier `complete`, even if an uncertain mutation follows it
  (`coordinator.py:752`; `docs/architecture.md:17` says that verification is not borrowed).
- A rejected save can be repeated by resuming the workflow, which `tests/test_browser.py` expects and
  `docs/original-prompt-audit.md:38` describes as possible only through an individually approved tool.
- A suspended skill becomes active again through a later lesson (`skill_library.py`, `install`).
