--------------------------------- MODULE Learning ---------------------------------
(***************************************************************************)
(* Learning from finished work: the maintenance pass of one edge (maintain)*)
(* between the server's queue (LearningQueue), its own registry            *)
(* (SkillLibrary) and the isolated learner, which exchanges files with it. *)
(*                                                                         *)
(* A pass claims an item, gathers evidence, asks the learner, admits what  *)
(* it proposes, records the result, acknowledges the item and publishes.   *)
(* The process may die between any two of these, its last request may      *)
(* arrive late, staff accept, revoke and roll back meanwhile.  The learner *)
(* is untrusted: what fails admission is a "bad" answer here, whatever it  *)
(* says.                                                                   *)
(***************************************************************************)
EXTENDS SkillLibrary

CONSTANTS
    MaxStray,  \* bound: responses written after their request was removed
    MaxEvents  \* bound: ends of work, assessments, commands, crashes and upgrades, together

ASSUME EventAssumption == MaxEvents \in Nat /\ MaxStray \in Nat

VARIABLES
    edge,      \* the maintenance pass and its local variables
    requests,  \* files <name>.request: the evidence of a claim
    responses, \* files <name>.response: the evidence that was answered
    learner,   \* the learner process: the request it works on, or None
    late,      \* acknowledgements sent by a process that died
    taught,    \* history: versions each item has activated
    publication, \* of skills_publish, while it runs: the evidence it has found in order, the
                 \* version the operator requalifies; history: acceptances revoked meanwhile
    events     \* how many of these events there were

edgeVars == <<edge, requests, responses, learner>>
vars == <<queueVars, libraryVars, edgeVars, late, taught, publication, events>>

Claim   == [item: ItemId, claim: 1..MaxAttempts, seen: SUBSET Version]
NoClaim == [item |-> None, claim |-> 0, seen |-> {}]
\* A proposal: a candidate with the version it revises, no candidate, or one admission refuses.
Answer  == [says: {"teaches", "nothing", "bad"}, previous: Version \cup {None},
            candidate: Version \cup {None}]
NoCandidate(says) == [says |-> says, previous |-> None, candidate |-> None]
ASSUME NoneIsNoAnswer == None \notin ItemId /\ None \notin Answer

EdgePc  == {"idle", "claimed", "waiting", "judging", "admitting", "recording", "finishing", "publishing"}
Edge    == [pc: EdgePc, work: Claim \cup {NoClaim}, accepted: BOOLEAN,
            answer: Answer \cup {None}, result: Result \cup {None}]
Resting == [pc |-> "idle", work |-> NoClaim, accepted |-> FALSE, answer |-> None, result |-> None]

\* uuid4: no two requests share a name.
\* Mutant: the file is named for the item alone.
RequestNameByItem(asking) == <<asking.item, 1>>
RequestName(asking) == <<asking.item, asking.claim>>
NoPublication == [checked |-> {}, requalifies |-> None, revoked |-> {}]
Publication   == [checked: SUBSET (Version \X Job), requalifies: Version \cup {None}, revoked: SUBSET Job]
File == [name: ItemId \X (1..MaxAttempts), work: Claim]

TypeOK ==
    /\ QueueTypeOK /\ LibraryTypeOK
    /\ edge \in Edge
    /\ requests \subseteq File /\ responses \subseteq File
    /\ learner \in File \cup {None}
    /\ late \subseteq [item: ItemId, claim: 1..MaxAttempts, result: Result]
    /\ taught \in [ItemId -> SUBSET Version]
    /\ publication \in Publication
    /\ events \in 0..MaxEvents

Init ==
    /\ work = [j \in Job |-> [status |-> "open", accepted |-> FALSE, assessed |-> "none"]]
    /\ items = [id \in ItemId |-> NoItem]
    /\ commands = [n \in 1..MaxCommands |-> [skill |-> Seed.skill, version |-> None]]
    /\ packages = {Seed}
    /\ LibraryInit
    /\ edge = Resting
    /\ requests = {} /\ responses = {}
    /\ learner = None
    /\ late = {}
    /\ taught = [id \in ItemId |-> {}]
    /\ publication = NoPublication
    /\ events = 0

-----------------------------------------------------------------------------
(* The maintenance pass *)

item == edge.work.item
Goes(pc) == edge' = [edge EXCEPT !.pc = pc]
Decides(status, version) ==
    edge' = [edge EXCEPT !.pc = "recording",
                !.result = [status |-> status, version |-> version, origin |-> item]]
ServerOnly  == UNCHANGED <<libraryVars, edgeVars, late, taught, publication, events>>
EdgeOnly    == UNCHANGED <<queueVars, libraryVars, late, taught, publication, events>>
NoFiles     == UNCHANGED <<requests, responses, learner>>

\* Mutant: a result that an earlier pass has recorded is not used.
StartPassAfresh(id) ==
    /\ edge.pc = "idle"
    /\ LearningClaim(id)
    /\ LET claimed == [item |-> id, claim |-> items[id].attempts + 1, seen |-> {}] IN
       edge' = [Resting EXCEPT !.work = claimed, !.pc = "claimed",
                    !.accepted = Kind(id) # "skill_change" /\ work[id[2]].accepted]
    /\ NoFiles /\ UNCHANGED <<libraryVars, late, taught, publication, events>>

\* The claim and the look into the ledger, which nobody else writes: a result that is already
\* recorded is acknowledged without learning again.
StartPass(id) ==
    /\ edge.pc = "idle"
    /\ LearningClaim(id)
    /\ LET claimed == [item |-> id, claim |-> items[id].attempts + 1, seen |-> {}] IN
       edge' = [Resting EXCEPT !.work = claimed,
                    !.pc = IF processed[id] = None THEN "claimed" ELSE "finishing",
                    !.result = processed[id],
                    !.accepted = Kind(id) # "skill_change" /\ work[id[2]].accepted]
    /\ NoFiles /\ UNCHANGED <<libraryVars, late, taught, publication, events>>

IdlePass ==
    /\ edge.pc = "idle"
    /\ NothingToClaim
    /\ Goes("publishing")
    /\ NoFiles /\ UNCHANGED <<libraryVars, late, taught, publication, events>>

\* A lifecycle command of staff; what change raises is recorded as a rejection.
ApplyChange ==
    /\ edge.pc = "claimed" /\ Kind(item) = "skill_change"
    /\ LET c == commands[item[2]] IN
       \/ ChangeActive(c.skill, c.version) /\ Decides("changed", c.version)
       \/ ~MayChange(c.skill, c.version) /\ Decides("rejected", None) /\ UNCHANGED libraryVars
    /\ NoFiles /\ UNCHANGED <<queueVars, late, taught, publication, events>>

\* The evidence goes to the learner as a file; the catalog shows what the server lets this claim see.
Asks ==
    LET asked == [edge.work EXCEPT !.seen = Catalog(Assigned(item[2]))] IN
    /\ edge' = [edge EXCEPT !.pc = "waiting", !.work = asked]
    /\ requests' = requests \cup {[name |-> RequestName(asked), work |-> asked]}

\* The snapshot taken by the claim decides whether the work may teach.
Gathers(kinds, mayTeach) ==
    /\ edge.pc = "claimed" /\ Kind(item) \in kinds
    /\ \/ mayTeach /\ Asks
       \/ ~mayTeach /\ Decides("rejected", None) /\ UNCHANGED requests
    /\ UNCHANGED <<responses, learner>> /\ EdgeOnly

GatherEpisode       == Gathers({"learn", "review"}, Kind(item) = "review" \/ edge.accepted)
GatherDemonstration == Gathers({"shadow_review"}, edge.accepted)
GatherChat          == Gathers({"chat_review"}, TRUE)

\* propose removes its files when it returns, whatever happened.
Forgotten(name) ==
    /\ requests' = {f \in requests : f.name # name}
    /\ responses' = {f \in responses : f.name # name}

\* What a candidate for this job may revise, and what admission lets it be.
Related(j, kind, seen) ==
    {None} \cup {v \in seen : kind \in {"learn", "shadow_review"} => v.steps = Steps(j)}

\* A review of failed or assessed work may propose no candidate.
Teaches(kind, j, previous, c) ==
    LET old == IF previous = None THEN {} ELSE previous.evidence
        floor == IF previous = None THEN 0 ELSE previous.labels IN
    /\ kind # "review"
    /\ previous # None => c.skill = previous.skill
    /\ j \in c.evidence /\ c.evidence \subseteq old \cup {j}
    /\ CASE kind = "chat_review" ->
              /\ old \subseteq c.evidence
              /\ c.steps = IF previous = None THEN "none" ELSE previous.steps
              /\ c.labels = floor
         [] OTHER -> /\ c.steps = Steps(j)
                     /\ c.labels >= floor
                     /\ c.steps = "none" => c.labels = floor

\* Chat may not overwrite a skill its reviewer was shown.
Fits(kind, seen, answer) ==
    kind = "chat_review" =>
        answer.previous = (IF \E v \in seen : v.skill = answer.candidate.skill
                           THEN CHOOSE v \in seen : v.skill = answer.candidate.skill ELSE None)

\* Everything the model may say of this evidence that admission does not refuse, or one that it does.
Proposals(asked) ==
    {NoCandidate("nothing"), NoCandidate("bad")} \cup
    {p \in [says: {"teaches"}, previous: Related(asked.item[2], Kind(asked.item), asked.seen),
            candidate: Version] :
        Teaches(Kind(asked.item), asked.item[2], p.previous, p.candidate)
        /\ Fits(Kind(asked.item), asked.seen, p)}

\* What the model said depends only on the evidence and is first seen here.
ReadResponse ==
    /\ edge.pc = "waiting"
    /\ \E f \in responses : \E answer \in Proposals(f.work) :
         /\ f.name = RequestName(edge.work)
         /\ edge' = [edge EXCEPT !.pc = "judging", !.answer = answer]
    /\ Forgotten(RequestName(edge.work))
    /\ UNCHANGED learner /\ EdgeOnly

\* After 45 seconds without a response.
LearnerTimesOut ==
    /\ edge.pc = "waiting"
    /\ Decides("rejected", None)
    /\ Forgotten(RequestName(edge.work))
    /\ UNCHANGED learner /\ EdgeOnly

Unchanged(previous, c) ==
    previous # None /\ <<c.steps, c.labels, c.text>> = <<previous.steps, previous.labels, previous.text>>

\* No candidate, and nothing changed by one: nothing to admit.  A refused answer is recorded too.
Dismiss ==
    /\ edge.pc = "judging"
    /\ \/ edge.answer.says = "bad" /\ Decides("rejected", None)
       \/ /\ edge.answer.says = "nothing"
          /\ Decides(IF Kind(item) = "review" THEN "reviewed" ELSE "no_change", None)
    /\ NoFiles /\ EdgeOnly

\* The job is read again before a candidate is admitted; the read itself needs a current claim.
Recheck ==
    /\ edge.pc = "judging" /\ edge.answer.says = "teaches"
    /\ IF Assigned(item[2]) /\ (Kind(item) = "chat_review" \/ work[item[2]].accepted)
       THEN Goes("admitting") ELSE Decides("rejected", None)
    /\ NoFiles /\ EdgeOnly

Admitted(answer) == [status |-> "activated", version |-> answer.candidate, origin |-> item]

\* The ledger entry is filed under the job, as admit passes its episode_id.
AdmissionKey(id) == Learn(id[2])

Admit ==
    /\ edge.pc = "admitting"
    /\ LET a == edge.answer  result == Admitted(a) IN
       \/ /\ Unchanged(a.previous, a.candidate)
          /\ Decides("no_change", None) /\ UNCHANGED <<libraryVars, taught>>
       \/ /\ ~Unchanged(a.previous, a.candidate) /\ MayInstall(a.candidate, a.previous)
          /\ Install(a.candidate, AdmissionKey(item), result)
          /\ edge' = [edge EXCEPT !.pc = "recording", !.result = result]
          /\ taught' = [taught EXCEPT ![item] = @ \cup {a.candidate}]
       \/ /\ ~Unchanged(a.previous, a.candidate) /\ ~MayInstall(a.candidate, a.previous)
          /\ Decides("rejected", None) /\ UNCHANGED <<libraryVars, taught>>
    /\ NoFiles /\ UNCHANGED <<queueVars, late, publication, events>>

RecordResult ==
    /\ edge.pc = "recording"
    /\ Record(item, edge.result)
    /\ Goes("finishing")
    /\ NoFiles /\ UNCHANGED <<queueVars, late, taught, publication, events>>

\* An acknowledgement that is refused ends the pass before it publishes.
Finish ==
    /\ edge.pc = "finishing"
    /\ \/ LearningFinish(item, edge.work.claim, edge.result) /\ Goes("publishing")
       \/ ~MayFinish(item, edge.work.claim) /\ edge' = Resting /\ UNCHANGED queueVars
    /\ NoFiles /\ UNCHANGED <<libraryVars, late, taught, publication, events>>

EndsPublication == edge' = Resting /\ publication' = NoPublication
Cited == {p \in versions \X Job : p[2] \in p[1].evidence}

\* publish reads the jobs its versions cite one after the other; the first that does not support
\* its version ends the publication, and the pass.
CheckEvidence(p) ==
    /\ edge.pc = "publishing" /\ p \in Cited \ publication.checked
    /\ \/ /\ Supported(p[1], p[2])
          /\ publication' = [publication EXCEPT !.checked = @ \cup {p}]
          /\ UNCHANGED edge
       \/ ~Supported(p[1], p[2]) /\ EndsPublication
    /\ NoFiles /\ UNCHANGED <<queueVars, libraryVars, late, taught, events>>

\* Every version the edge has, or none.  A version that is requalified is bound to today's code
\* once the server has taken it.
Publish ==
    /\ edge.pc = "publishing" /\ Cited \subseteq publication.checked
    /\ SkillsPublish(versions)
    /\ qualified' = qualified \cup ({publication.requalifies} \cap versions)
    /\ EndsPublication
    /\ NoFiles /\ UNCHANGED <<versions, active, processed, late, taught, events>>

PassBegins == IdlePass \/ \E id \in ItemId : StartPass(id)
EdgeNext ==
    \/ PassBegins \/ ApplyChange \/ GatherEpisode \/ GatherDemonstration \/ GatherChat
    \/ ReadResponse \/ LearnerTimesOut
    \/ Dismiss \/ Recheck \/ Admit \/ RecordResult \/ Finish \/ Publish
    \/ \E p \in Cited : CheckEvidence(p)

-----------------------------------------------------------------------------
(* The learner process *)

Pending == {f \in requests : \A r \in responses : r.name # f.name}

TakeRequest ==
    /\ learner = None
    /\ learner' \in Pending
    /\ UNCHANGED <<edge, requests, responses>> /\ EdgeOnly

\* It looks whether the request is still there and then writes: the requester may remove it between
\* the two.
WriteResponse ==
    /\ learner # None
    /\ \/ /\ learner \in requests \/ Cardinality(responses) < MaxStray
          /\ responses' = responses \cup {learner}
       \/ learner \notin requests /\ UNCHANGED responses
    /\ learner' = None
    /\ UNCHANGED <<edge, requests>> /\ EdgeOnly

LearnerNext == TakeRequest \/ WriteResponse

-----------------------------------------------------------------------------
(* Staff, the clock and events *)

Event == events < MaxEvents /\ events' = events + 1

\* Acceptances that are revoked while a publication runs.
NotesRevoked ==
    publication' = [publication EXCEPT !.revoked = @ \cup
        {j \in Job : edge.pc = "publishing" /\ work[j].accepted /\ ~work'[j].accepted}]

StaffNext ==
    \/ (\E j \in Job : Accept(j)) /\ ServerOnly
    \/ /\ \/ /\ \/ \E j \in Job : FinishDemonstration(j)
                \/ \E j \in Job, outcome \in {"completed", "failed"} : EndWork(j, outcome)
                \/ \E n \in 1..MaxCommands, s \in Skill, v \in packages \cup {None} : SkillCommand(n, s, v)
             /\ UNCHANGED publication
          \/ /\ \E j \in Job, outcome \in {"correct", "incorrect"} : AssessAction(j, outcome)
             /\ NotesRevoked
       /\ Event
       /\ UNCHANGED <<libraryVars, edgeVars, late, taught>>

ClaimExpires == (\E id \in ItemId : Expire(id)) /\ ServerOnly

\* The edge process dies; its files stay, an acknowledgement it has sent may still arrive.
EdgeCrash ==
    /\ Event /\ edge.pc # "idle"
    /\ EndsPublication
    /\ \/ UNCHANGED late
       \/ /\ edge.pc = "finishing"
          /\ late' = late \cup {[item |-> item, claim |-> edge.work.claim, result |-> edge.result]}
    /\ NoFiles /\ UNCHANGED <<queueVars, libraryVars, taught>>

LateFinish ==
    \E m \in late :
        /\ late' = late \ {m}
        /\ \/ LearningFinish(m.item, m.claim, m.result)
           \/ ~MayFinish(m.item, m.claim) /\ UNCHANGED queueVars
        /\ UNCHANGED <<libraryVars, edgeVars, taught, publication, events>>

\* New trusted code is installed on the drained edge, and each package requalified by the
\* operator, if the server still supports it.
UpgradeCode ==
    /\ Event /\ edge.pc = "idle" /\ Upgrade
    /\ UNCHANGED <<queueVars, edgeVars, late, taught, publication>>

Requalify(v) ==
    /\ edge.pc = "idle" /\ active[v.skill] = v /\ v \notin qualified
    /\ Goes("publishing")
    /\ publication' = [publication EXCEPT !.requalifies = v]
    /\ NoFiles /\ UNCHANGED <<queueVars, libraryVars, late, taught, events>>

FaultNext == EdgeCrash \/ LateFinish \/ UpgradeCode \/ \E v \in versions : Requalify(v)

Next == EdgeNext \/ LearnerNext \/ StaffNext \/ ClaimExpires \/ FaultNext

Spec == Init /\ [][Next]_vars

\* The maintenance thread loops every five seconds whatever a pass raised, an operator who migrates
\* the edge lets it run again, and claims expire.
Fairness == WF_vars(EdgeNext) /\ SF_vars(PassBegins) /\ \A id \in ItemId : WF_vars(Expire(id) /\ ServerOnly)
FairSpec == Spec /\ Fairness

-----------------------------------------------------------------------------
(* Properties *)

\* An accepted episode activates at most one version, however often its item is claimed, its pass
\* dies or its acknowledgement is lost: install commits the ledger entry with the activation.
LearnsOnce == \A j \in Job : \A v, w \in taught[Learn(j)] : v = w

\* What an item is completed with at the server is what the edge's ledger holds for it: no late
\* acknowledgement, retry or other item replaces the outcome.  (Only the job's own item shares its
\* key with other admissions, see RetryTeachesOnce.)
LedgersAgree ==
    \A id \in ItemId : items[id].status = "completed" /\ Kind(id) # "learn"
                        => items[id].result = processed[id]

\* The response a pass will read was made from the evidence of its own claim, although requests and
\* responses of dead or impatient passes stay in the folders and the learner answers them too.
AnswerIsFresh ==
    \A f \in responses : edge.pc = "waiting" /\ f.name = RequestName(edge.work) => f.work = edge.work

\* A learned version is distributed only on evidence that is accepted, or completed an admission,
\* at that moment, but for acceptances revoked while this very publication was under way (it
\* looks first and inserts later); and what was distributed stays available for those pinned to it.
DistributionFollowsAdmission ==
    [][/\ packages \subseteq packages'
       /\ \A v \in packages' \ packages : \A j \in v.evidence :
            \/ work[j].accepted \/ j \in publication.revoked
            \/ items[Chat(j)].status = "completed" /\ j \in items[Chat(j)].result.version.evidence
       ]_vars

\* An item that was completed or given up stays as it is: the acknowledgement of a pass that died
\* arrives after the retry and closes nothing.
OutcomeIsFinal ==
    [][\A id \in ItemId : items[id].status \in {"completed", "failed"} => items'[id] = items[id]]_vars

\* Every scheduled item is completed or given up: a dead pass, an expired claim or a silent learner
\* does not keep it forever.
ItemsSettle == []<>(\A id \in ItemId : items[id].status \in {"absent", "completed", "failed"})

\* docs/architecture.md: "Activation and its processed-episode record commit together, so an
\* acknowledgement retry does not generate another version."
RetryTeachesOnce == \A id \in ItemId : \A v, w \in taught[id] : v = w
=============================================================================
