--------------------------------- MODULE Workforce ---------------------------------
(***************************************************************************)
(* One digital employee as the server keeps it: its state, the requests    *)
(* and demonstrations it was given, the lease of its desktop and the event *)
(* log.  Each operator that primes a variable is one transaction.          *)
(*                                                                         *)
(* A job is numbered in the order of creation and an event by its place in *)
(* the log, as the sequence number the code returns to its clients.        *)
(***************************************************************************)
EXTENDS Naturals, Sequences, FiniteSets

CONSTANTS
    Spoken, Written,   \* messages sent in the channel and in the console, each with its identity
    None,              \* no message
    MaxDemonstrations, \* bound: demonstrations
    MaxChanges,        \* bound: changes of the employee
    MaxCalls,          \* model calls of one request (max_model_calls)
    MaxFrames,         \* samples of one demonstration (180)
    MaxReviews         \* model calls of one demonstration (12)

Message == Spoken \cup Written

ASSUME WorkforceAssumption ==
    /\ None \notin Message /\ Spoken \cap Written = {} /\ IsFiniteSet(Spoken)
    /\ {MaxDemonstrations, MaxChanges, MaxCalls, MaxFrames, MaxReviews} \subseteq Nat

VARIABLES
    employee, \* its state and, for the properties, how often the state has changed
    jobs,     \* what it was given; "absent" beyond the last one
    lease,    \* the job its desktop is leased to, 0 for none
    log       \* the events

workforceVars == <<employee, jobs, lease, log>>

MaxJobs  == Cardinality(Spoken) + MaxDemonstrations
Id       == 1..MaxJobs
States   == {"shadowing", "active", "paused"}
Terminal == {"completed", "failed", "cancelled"}
NoJob    == [kind |-> "request", status |-> "absent", source |-> None, era |-> 0, calls |-> 0,
             approval |-> "none", frames |-> 0, reviews |-> 0, reviewed |-> 0, pending |-> 0,
             unavailable |-> FALSE]
Job      == [kind: {"request", "demonstration"},
             status: {"absent", "queued", "running", "shadowing"} \cup Terminal,
             source: Message \cup {None},  \* the request_id
             era: 0..MaxChanges,           \* the employee's when it was created (history)
             calls: 0..MaxCalls,           \* model_calls
             approval: {"none", "authorized", "executing"},
             frames: 0..MaxFrames, reviews: 0..MaxReviews,
             reviewed: Nat,                \* shadow_review_seq
             pending: Nat,                 \* shadow_pending_review, 0 for none
             unavailable: BOOLEAN]         \* observation_error
Event    == [job: Id, kind: {"staff_message", "mentor_message", "assistant_message",
                             "assistant_question", "shadow_started", "shadow_observation",
                             "shadow_notes", "shadow_unavailable", "mentor_outcome"},
             message: Message \cup {None}]

WorkforceTypeOK ==
    /\ employee \in [state: States, revision: 1..MaxChanges + 1, era: 0..MaxChanges]
    /\ jobs \in [Id -> Job]
    /\ lease \in 0..MaxJobs
    /\ log \in Seq(Event)

WorkforceInit ==
    /\ employee \in [state: {"shadowing", "active"}, revision: {1}, era: {0}]
    /\ jobs = [j \in Id |-> NoJob]
    /\ lease = 0
    /\ log = <<>>

Exists(j)  == jobs[j].status # "absent"
Open(j)    == Exists(j) /\ jobs[j].status \notin Terminal
Free(j)    == ~Exists(j) /\ \A i \in 1..(j - 1) : Exists(i)
Happened(j, kinds) == {n \in DOMAIN log : log[n].job = j /\ log[n].kind \in kinds}
Latest(S)  == CHOOSE n \in S \cup {0} : \A i \in S : i <= n

Logs(j, kind, m) ==
    log' = Append(log, [job |-> j, kind |-> kind, message |-> m])

-----------------------------------------------------------------------------
(* The supervisor, and the registry of the desktop's applications *)

\* _invalidate: what is executing stays.
Invalid(job) == [job EXCEPT !.approval = IF @ = "authorized" THEN "none" ELSE @]
Cancelled(job) == [Invalid(job) EXCEPT !.status = "cancelled"]

InFlight   == lease # 0 /\ jobs[lease].approval = "executing"
Unoccupied == ~InFlight /\ (lease # 0 => ~Open(lease))

Becomes(state) ==
    /\ employee.revision <= MaxChanges
    /\ employee' = [state |-> state, revision |-> employee.revision + 1,
                    era |-> IF state = employee.state THEN employee.era ELSE employee.era + 1]

\* Mutant: a request nobody has taken up survives the change.
ChangeKeepsQueued(state) ==
    /\ state # "paused" => ~InFlight
    /\ Becomes(state)
    /\ jobs' = IF state = employee.state THEN jobs
               ELSE [j \in Id |-> IF Open(j) /\ jobs[j].status # "queued"
                                  THEN Cancelled(jobs[j]) ELSE jobs[j]]
    /\ UNCHANGED <<lease, log>>

\* A change of state cancels everything that is open; only a pause does not wait for the
\* operation in flight.
Change(state) ==
    /\ state # "paused" => ~InFlight
    /\ Becomes(state)
    /\ jobs' = IF state = employee.state THEN jobs
               ELSE [j \in Id |-> IF Open(j) THEN Cancelled(jobs[j]) ELSE jobs[j]]
    /\ UNCHANGED <<lease, log>>

\* sync: another scope is registered.  What is open stays open.
ScopeChanged == Becomes("paused") /\ UNCHANGED <<jobs, lease, log>>

\* The demonstration and the reservation of the desktop are one transaction.
StartDemonstration(j) ==
    /\ employee.state = "shadowing" /\ Unoccupied /\ Free(j)
    /\ Cardinality({i \in Id : jobs[i].kind = "demonstration"}) < MaxDemonstrations
    /\ jobs' = [jobs EXCEPT ![j] = [NoJob EXCEPT !.kind = "demonstration", !.status = "shadowing",
                                                 !.era = employee.era]]
    /\ lease' = j
    /\ Logs(j, "shadow_started", None)
    /\ UNCHANGED employee

Shown(j) == jobs[j].status = "shadowing"

\* What the mentor says in the console carries no identity: m is None.
Teach(j, m) ==
    /\ Shown(j)
    /\ Logs(j, "mentor_message", m)
    /\ UNCHANGED <<employee, jobs, lease>>

FinishDemonstration(j) ==
    /\ Shown(j) /\ jobs[j].frames > 0
    /\ jobs' = [jobs EXCEPT ![j].status = "completed"]
    /\ Logs(j, "mentor_outcome", None)
    /\ UNCHANGED <<employee, lease>>

-----------------------------------------------------------------------------
(* The observation service.  Each call finds the demonstration anew. *)

Observed(j) == employee.state = "shadowing" /\ lease = j /\ Shown(j)

\* A poll after the half hour of the demonstration ends it; a report that finds it over is
\* refused, which undoes that.
TimeLimit(j) ==
    /\ Observed(j)
    /\ jobs' = [jobs EXCEPT ![j].status = "cancelled"]
    /\ UNCHANGED <<employee, lease, log>>

Sampled(job) == [job EXCEPT !.frames = @ + 1, !.unavailable = FALSE]
Capture(j) ==
    /\ Observed(j) /\ jobs[j].frames < MaxFrames
    /\ jobs' = [jobs EXCEPT ![j] = Sampled(@)]
    /\ Logs(j, "shadow_observation", None)
    /\ UNCHANGED <<employee, lease>>

\* Logged once until the next sample.
ReportError(j) ==
    /\ Observed(j)
    /\ jobs' = [jobs EXCEPT ![j].unavailable = TRUE]
    /\ IF jobs[j].unavailable THEN UNCHANGED log ELSE Logs(j, "shadow_unavailable", None)
    /\ UNCHANGED <<employee, lease>>

Sources(j) == Happened(j, {"mentor_message", "shadow_observation", "shadow_started"})

\* A model call is charged before it is made.
MayReserve(j, seq) ==
    /\ Observed(j) /\ jobs[j].reviews < MaxReviews
    /\ seq > jobs[j].reviewed /\ seq \in Sources(j)
Reviewed(job, seq) == [job EXCEPT !.reviews = @ + 1, !.reviewed = seq, !.pending = seq]
Reserve(j, seq) ==
    /\ MayReserve(j, seq)
    /\ jobs' = [jobs EXCEPT ![j] = Reviewed(@, seq)]
    /\ UNCHANGED <<employee, lease, log>>

MayNote(j, seq) == Observed(j) /\ seq = jobs[j].pending
Notes(j, seq) ==
    /\ MayNote(j, seq)
    /\ jobs' = [jobs EXCEPT ![j].pending = 0]
    /\ Logs(j, "shadow_notes", None)
    /\ UNCHANGED <<employee, lease>>
=============================================================================
