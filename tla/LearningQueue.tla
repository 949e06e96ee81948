------------------------------ MODULE LearningQueue ------------------------------
(***************************************************************************)
(* The server's side of learning: the acceptance of finished work, the     *)
(* maintenance table that schedules reviews of it for one worker, and the  *)
(* package rows from which skills are distributed.                         *)
(*                                                                         *)
(* Every operator that primes a variable is one transaction.  rowid order  *)
(* is the field row, a claim's 120 seconds are the field expired, and its  *)
(* random claim_id is the number of the attempt, which is as unique.       *)
(*                                                                         *)
(* A package version is the content it is hashed from: its skill, the jobs *)
(* it cites, whether it has executable steps, its field labels (a growing  *)
(* set, by its size) and its wording.                                      *)
(***************************************************************************)
EXTENDS Naturals, FiniteSets

CONSTANTS
    Job,           \* requests and demonstrations
    Demonstration, \* those that are demonstrations by a mentor
    Workflow,      \* those whose verified trace can become executable steps
    Gap,           \* those whose assistant reported a capability gap
    Skill, Text,   \* skill identities, wordings
    None,          \* no version, no result
    MaxLabels,     \* bound: field labels beyond the first
    MaxAttempts,   \* claims of one maintenance item (3 in the code)
    MaxCommands    \* bound: lifecycle commands of staff

ASSUME LearningAssumption ==
    /\ IsFiniteSet(Job) /\ Demonstration \subseteq Job /\ Workflow \subseteq Job \ Demonstration /\ Gap \subseteq Job
    /\ MaxLabels \in Nat /\ MaxAttempts \in Nat /\ MaxCommands \in Nat

VARIABLES
    work,     \* for each job its status, accepted flag and latest assessment
    items,    \* the maintenance table
    commands, \* what each lifecycle command asks for
    packages  \* versions in skill_packages, the ones that are distributed

queueVars == <<work, items, commands, packages>>

Steps(j) == IF j \in Workflow THEN "workflow" ELSE "none"
Version  == [skill: Skill, evidence: SUBSET Job, steps: {"workflow", "none"},
             labels: 0..MaxLabels, text: Text]
ASSUME NoneIsNoVersion == None \notin Version

Learn(j)  == <<"learn", j>>          \* its id is the job's own id
Chat(j)   == <<"chat_review", j>>    \* "chat-<job>"
Shadow(j) == <<"shadow_review", j>>  \* "shadow-<job>"
Change(n) == <<"skill_change", n>>
Trigger   == {"incorrect_assessment", "repeated_failure", "capability_gap"}
Review(j, trigger) == <<"review", j, trigger>>   \* "review-<hash of job and trigger>"
ItemId    == ({"learn", "chat_review", "shadow_review"} \X Job)
             \cup ({"review"} \X Job \X Trigger) \cup ({"skill_change"} \X (1..MaxCommands))
Kind(id)  == id[1]

\* A result names the review that produced it, as its provenance does.
Result   == [status: {"changed", "activated", "no_change", "reviewed", "rejected"},
             version: Version \cup {None}, origin: ItemId]
ASSUME NoneIsNoResult == None \notin Result

Item     == [status: {"absent", "queued", "running", "completed", "failed"}, row: Nat,
             attempts: 0..MaxAttempts, expired: BOOLEAN, result: Result \cup {None}]
NoItem   == [status |-> "absent", row |-> 0, attempts |-> 0, expired |-> FALSE, result |-> None]

QueueTypeOK ==
    /\ work \in [Job -> [status: {"open", "failed", "completed"}, accepted: BOOLEAN,
                         assessed: {"none", "correct", "incorrect"}]]
    /\ items \in [ItemId -> Item]
    /\ commands \in [1..MaxCommands -> [skill: Skill, version: Version \cup {None}]]
    /\ packages \subseteq Version

Rows == Cardinality({id \in ItemId : items[id].status # "absent"})

\* INSERT OR IGNORE: an identity that was ever queued stays as it is.
Queue(ids) ==
    items' = [id \in ItemId |->
        IF id \in ids /\ items[id].status = "absent"
        THEN [NoItem EXCEPT !.status = "queued", !.row = Rows + 1] ELSE items[id]]

-----------------------------------------------------------------------------
(* Work ends, is accepted and is assessed.  All jobs here are one family and leave the executed   *)
(* verification that acceptance turns into a lesson; a cancelled one ends as a first failure does. *)

\* A request ends: learning_terminal schedules one review of its conversation, one of a failure
\* that is not the first of its family and one of a reported gap.
EndWork(j, outcome) ==
    /\ j \notin Demonstration /\ work[j].status = "open"
    /\ work' = [work EXCEPT ![j].status = outcome]
    /\ Queue({Chat(j)}
             \cup {Review(j, "repeated_failure") : other \in
                      {o \in Job \ {j} : outcome = "failed" /\ work[o].status = "failed"}}
             \cup {Review(g, "capability_gap") : g \in Gap \cap {j}})
    /\ UNCHANGED <<commands, packages>>

\* The mentor finishes a demonstration, which accepts it.
FinishDemonstration(j) ==
    /\ j \in Demonstration /\ work[j].status = "open"
    /\ work' = [work EXCEPT ![j].status = "completed", ![j].accepted = TRUE]
    /\ Queue({Shadow(j)})
    /\ UNCHANGED <<commands, packages>>

Accept(j) ==
    /\ j \notin Demonstration /\ work[j].status = "completed" /\ work[j].assessed # "incorrect"
    /\ work' = [work EXCEPT ![j].accepted = TRUE]
    /\ Queue({Learn(j)})
    /\ UNCHANGED <<commands, packages>>

\* Staff assess an operation of a finished job: an incorrect one revokes acceptance.
AssessAction(j, outcome) ==
    /\ work[j].status # "open" /\ j \notin Demonstration /\ work[j].assessed # outcome
    /\ work' = [work EXCEPT ![j].assessed = outcome,
                            ![j].accepted = @ /\ outcome = "correct"]
    /\ Queue(IF outcome = "incorrect" THEN {Review(j, "incorrect_assessment")} ELSE {})
    /\ UNCHANGED <<commands, packages>>

\* Staff suspend a skill (version None) or roll it back to a distributed version.
SkillCommand(n, skill, version) ==
    /\ items[Change(n)].status = "absent" /\ \A m \in 1..(n - 1) : items[Change(m)].status # "absent"
    /\ \E v \in packages : v.skill = skill /\ version \in {v, None}
    /\ commands' = [commands EXCEPT ![n] = [skill |-> skill, version |-> version]]
    /\ Queue({Change(n)})
    /\ UNCHANGED <<work, packages>>

-----------------------------------------------------------------------------
(* Claims *)

\* Mutant: what a dead worker claimed is never offered again.
ClaimableOnce(id) == items[id].status = "queued"
Claimable(id) == items[id].status = "queued" \/ (items[id].status = "running" /\ items[id].expired)
Exhausted(id) == Claimable(id) /\ items[id].attempts >= MaxAttempts
Open(id)      == Claimable(id) /\ ~Exhausted(id)
Earlier(a, b) == items[a].row < items[b].row

\* The scan in rowid order gives up what was tried too often and takes the first other row.
LearningClaim(id) ==
    /\ Open(id) /\ \A other \in ItemId : Open(other) => ~Earlier(other, id)
    /\ items' = [i \in ItemId |->
            IF i = id THEN [items[i] EXCEPT !.status = "running", !.attempts = @ + 1, !.expired = FALSE]
            ELSE IF Exhausted(i) /\ Earlier(i, id) THEN [items[i] EXCEPT !.status = "failed"]
            ELSE items[i]]
    /\ UNCHANGED <<work, commands, packages>>

\* Nothing to claim: only the exhausted rows change.
NothingToClaim ==
    /\ \A id \in ItemId : ~Open(id)
    /\ items' = [i \in ItemId |-> IF Exhausted(i) THEN [items[i] EXCEPT !.status = "failed"]
                                  ELSE items[i]]
    /\ UNCHANGED <<work, commands, packages>>

Claimed(id, claim) == items[id].status = "running" /\ items[id].attempts = claim
\* What an admission service must have to read a job: any current claim of an item about it.
Assigned(j) == \E id \in ItemId : Kind(id) # "skill_change" /\ id[2] = j
                                  /\ items[id].status = "running" /\ ~items[id].expired
MayFinish(id, claim) == Claimed(id, claim) /\ ~items[id].expired

\* Mutant: the acknowledgement of any claim is taken.
FinishUnclaimed(id, claim, result) ==
    /\ items' = [items EXCEPT ![id].status = "completed", ![id].result = result]
    /\ UNCHANGED <<work, commands, packages>>

LearningFinish(id, claim, result) ==
    /\ MayFinish(id, claim)
    /\ items' = [items EXCEPT ![id].status = "completed", ![id].result = result]
    /\ UNCHANGED <<work, commands, packages>>

Expire(id) ==
    /\ items[id].status = "running" /\ ~items[id].expired
    /\ items' = [items EXCEPT ![id].expired = TRUE]
    /\ UNCHANGED <<work, commands, packages>>

-----------------------------------------------------------------------------
(* Publication *)

\* The completed review of this job activated a package with these bindings.
AdmittedBy(id, j, v) ==
    /\ items[id].status = "completed" /\ items[id].result.status = "activated"
    /\ LET c == items[id].result.version IN
         /\ c # None
         /\ j \in c.evidence /\ <<c.skill, c.steps, c.labels>> = <<v.skill, v.steps, v.labels>>

\* Mutant: acceptance is not looked at again.
SupportedOnce(v, j) == AdmittedBy(Chat(j), j, v) \/ AdmittedBy(Shadow(j), j, v) \/ j \notin Demonstration

Supported(v, j) ==
    \/ AdmittedBy(Chat(j), j, v)
    \/ /\ j \in Demonstration /\ v.steps = "none" /\ work[j].accepted
       /\ AdmittedBy(Shadow(j), j, v)
    \/ j \notin Demonstration /\ work[j].accepted

\* The rows of a publication whose evidence was looked at, each in a transaction of its own.
SkillsPublish(versions) ==
    /\ packages' = packages \cup versions
    /\ UNCHANGED <<work, items, commands>>
=============================================================================
