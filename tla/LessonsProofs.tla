------------------------------- MODULE LessonsProofs -------------------------------
(* The maintenance pass implements Lessons, for any jobs, skills and bounds. *)
EXTENDS LearningProofs, LessonsRefinement

-----------------------------------------------------------------------------
(* The invariant *)

\* What is filed, acknowledged or about to be is true of what was taught, and names no more than it
\* and, for an episode's own item, no less.
Honest(id, result) ==
    /\ Activates(result) => result.origin \in ReportsFor(id) /\ result.version \in taught[result.origin]
    /\ Kind(id) = "learn" /\ taught[id] # {} => Activates(result)
HonestOK ==
    /\ \A id \in ItemId : processed[id] # None => Honest(id, processed[id])
    /\ edge.pc \in {"recording", "finishing"} => Honest(item, edge.result)
    /\ \A m \in late : processed[m.item] # None /\ Honest(m.item, m.result)

\* The claim a pass works under is the newest of its item, and older than it is all that is late.
Working == edge.pc \notin {"idle", "publishing"}
ClaimsOK ==
    /\ Working => items[item].status = "running" /\ items[item].attempts = edge.work.claim
    /\ \A m \in late : /\ m.claim <= items[m.item].attempts
                       /\ Working /\ m.item = item => m.claim < edge.work.claim

\* Only work is learned from, and every version the edge has was taught by it.
SourcesOK ==
    /\ edge.pc \in {"waiting", "judging", "admitting"} => Kind(item) # "skill_change"
    /\ versions \subseteq {Seed} \cup UNION {taught[id] : id \in ItemId}

RInv == LInv /\ HonestOK /\ ClaimsOK /\ SourcesOK

-----------------------------------------------------------------------------
(* Frames *)

LEMMA RestingTypes == Resting.pc = "idle" BY DEF Resting

LEMMA LateTypes ==
    ASSUME LInv
    PROVE  \A m \in late : m.item \in ItemId /\ m.claim \in Nat /\ m.result \in Result
BY LearningAssumption DEF LInv, TypeOK

\* An open item of the job's own has taught nothing while its ledger entry is empty.
LEMMA Untaught ==
    ASSUME LInv, NEW id \in ItemId, Kind(id) = "learn", processed[id] = None
    PROVE  taught[id] = {}
<1>1. id[2] \in Job /\ id = Learn(id[2]) BY LearnIdentity
<1> QED BY <1>1 DEF LInv, TaughtOK

\* Nothing is filed or taught, and what the pass holds it held or decided.
LEMMA HonestStays ==
    ASSUME RInv, UNCHANGED <<processed, taught>>, late' \subseteq late,
           edge'.pc \in {"recording", "finishing"} => Honest(item', edge'.result)
    PROVE  HonestOK'
BY DEF RInv, HonestOK, Honest, ReportsFor

\* The pass keeps its claim or has none.
LEMMA ClaimsStay ==
    ASSUME RInv, ItemsKept, late' \subseteq late,
           Working' => /\ Working /\ item' = item /\ edge'.work.claim = edge.work.claim
                       /\ items'[item].status = "running"
                       /\ items'[item].attempts = items[item].attempts,
           \A id \in ItemId : items'[id].attempts \in Nat
    PROVE  ClaimsOK'
<1>1. \A m \in late : m.claim <= items'[m.item].attempts
  BY LateTypes, FilesTypes DEF RInv, ClaimsOK, ItemsKept
<1> QED BY <1>1 DEF RInv, ClaimsOK

LEMMA SourcesStay ==
    ASSUME RInv, UNCHANGED <<versions, taught>>,
           edge'.pc \in {"waiting", "judging", "admitting"} =>
               item' = item /\ (edge.pc \in {"waiting", "judging"} \/ Kind(item) # "skill_change")
    PROVE  SourcesOK'
BY DEF RInv, SourcesOK

LEMMA AttemptsType ==
    ASSUME QueueTypeOK'
    PROVE  \A id \in ItemId : items'[id].attempts \in Nat
BY LearningAssumption DEF QueueTypeOK, Item

-----------------------------------------------------------------------------
(* Transactions of the server beside the pass *)

\* What is claimed stays claimed while nobody claims or acknowledges it.
LEMMA ClaimedStays ==
    ASSUME LInv, NEW id \in ItemId, items[id].status = "running",
           \/ UNCHANGED items
           \/ \E ids : Queue(ids)
           \/ \E i \in ItemId : Expire(i)
           \/ \E i \in ItemId : \E claim, result :
                 LearningFinish(i, claim, result) /\ (i = id => claim # items[id].attempts)
    PROVE  items'[id].status = "running" /\ items'[id].attempts = items[id].attempts
<1>0. items \in [ItemId -> Item] BY DEF LInv, TypeOK, QueueTypeOK
<1>1. ASSUME NEW ids, Queue(ids) PROVE items'[id] = items[id] BY <1>1 DEF Queue
<1>2. ASSUME NEW i \in ItemId, Expire(i)
      PROVE  items'[id].status = "running" /\ items'[id].attempts = items[id].attempts
  <2>1. items' = [items EXCEPT ![i].expired = TRUE] BY <1>2 DEF Expire
  <2> QED BY <1>0, <2>1 DEF Item
<1>3. ASSUME NEW i \in ItemId, NEW claim, NEW result, LearningFinish(i, claim, result),
             i = id => claim # items[id].attempts
      PROVE  items'[id] = items[id]
  <2>1. i # id BY <1>3 DEF LearningFinish, MayFinish, Claimed
  <2> QED BY <1>0, <1>3, <2>1 DEF LearningFinish
<1> QED BY <1>1, <1>2, <1>3

\* A transaction beside the pass.
LEMMA BesideKeeps ==
    ASSUME RInv, LInv', ItemsKept, UNCHANGED <<versions, processed, edge, taught>>, late' \subseteq late,
           \/ UNCHANGED items
           \/ \E ids : Queue(ids)
           \/ \E i \in ItemId : Expire(i)
           \/ \E m \in late : LearningFinish(m.item, m.claim, m.result)
    PROVE  RInv'
<1>0. LInv BY DEF RInv
<1>1. item' = item BY DEF item
<1>2. HonestOK' BY <1>1, HonestStays DEF RInv, HonestOK
<1>3. SourcesOK' BY <1>1, SourcesStay DEF RInv, SourcesOK
<1>4. \A id \in ItemId : items'[id].attempts \in Nat BY AttemptsType DEF LInv, TypeOK
<1>5. ASSUME Working
      PROVE  items'[item].status = "running" /\ items'[item].attempts = items[item].attempts
  <2>1. item \in ItemId /\ edge.work.claim \in Nat BY <1>0, <1>5, EdgeTypes DEF Working
  <2>2. items[item].status = "running" /\ items[item].attempts = edge.work.claim
    BY <1>5 DEF RInv, ClaimsOK
  <2>3. ASSUME NEW m \in late, LearningFinish(m.item, m.claim, m.result)
        PROVE  m.item \in ItemId /\ (m.item = item => m.claim # items[item].attempts)
    <3>1. m.item \in ItemId /\ m.claim \in Nat BY <1>0, LateTypes
    <3>2. m.item = item => m.claim < edge.work.claim BY <1>5 DEF RInv, ClaimsOK
    <3> QED BY <2>1, <2>2, <3>1, <3>2
  <2> QED BY <1>0, <2>1, <2>2, <2>3, ClaimedStays
<1>6. Working' = Working BY DEF Working
<1>7. ClaimsOK' BY <1>1, <1>4, <1>5, <1>6, ClaimsStay
<1> QED BY <1>2, <1>3, <1>7 DEF RInv

LEMMA StaffKeepsRInv == ASSUME RInv, StaffNext \/ ClaimExpires PROVE RInv'
<1>0. LInv BY DEF RInv
<1>1. LInv' BY <1>0, StaffKeepsLInv
<1>2. UNCHANGED <<libraryVars, edgeVars, late, taught>> BY DEF StaffNext, ClaimExpires, ServerOnly
<1>3. UNCHANGED <<versions, processed, edge>> BY <1>2 DEF libraryVars, edgeVars
<1>4. QueueTypeOK' /\ ItemsKept
  BY <1>0, WorkKeeps, CommandKeeps, ExpireKeeps DEF StaffNext, ClaimExpires
<1>5. (\E ids : Queue(ids)) \/ \E i \in ItemId : Expire(i)
  BY DEF StaffNext, ClaimExpires, Accept, FinishDemonstration, EndWork, AssessAction, SkillCommand
<1> QED BY <1>1, <1>2, <1>3, <1>4, <1>5, BesideKeeps

LEMMA LateKeepsRInv == ASSUME RInv, LateFinish PROVE RInv'
<1>0. LInv BY DEF RInv
<1>1. LInv' BY <1>0, LateKeeps
<1>2. PICK m \in late :
        /\ late' = late \ {m}
        /\ LearningFinish(m.item, m.claim, m.result) \/ UNCHANGED queueVars
        /\ UNCHANGED <<libraryVars, edgeVars, taught>>
  BY DEF LateFinish
<1>3. UNCHANGED <<versions, processed, edge, taught>> BY <1>2 DEF libraryVars, edgeVars
<1>4. /\ m.item \in ItemId /\ m.result \in Result
      /\ Kind(m.item) # "learn" => m.result = processed[m.item]
  BY <1>0 DEF LInv, TypeOK, LedgerOK
<1>5. ItemsKept BY <1>0, <1>2, <1>4, FinishItemKeeps, NothingMoved
<1>6. UNCHANGED items \/ \E n \in late : LearningFinish(n.item, n.claim, n.result)
  BY <1>2 DEF queueVars
<1> QED BY <1>1, <1>2, <1>3, <1>5, <1>6, BesideKeeps

LEMMA OperatorKeepsRInv ==
    ASSUME RInv, UpgradeCode \/ LearnerNext
    PROVE  RInv'
<1>0. LInv BY DEF RInv
<1>1. LInv' BY <1>0, UpgradeKeeps, LearnerKeepsLInv
<1>2. UNCHANGED <<versions, processed, edge, taught, late, items>>
  BY DEF UpgradeCode, Upgrade, LearnerNext, TakeRequest, WriteResponse,
         EdgeOnly, edgeVars, queueVars, libraryVars
<1>3. \A id \in ItemId : items[id].attempts \in Nat BY <1>0, FilesTypes
<1>4. ItemsKept BY <1>0, <1>2, <1>3 DEF ItemsKept, LInv, FilesOK
<1> QED BY <1>1, <1>2, <1>4, BesideKeeps

-----------------------------------------------------------------------------
(* The pass *)

LEMMA StartKeepsRInv == ASSUME RInv, NEW id \in ItemId, StartPass(id) PROVE RInv'
<1>0. LInv BY DEF RInv
<1>1. LInv' BY <1>0, StartKeeps
<1>2. /\ edge.pc = "idle"
      /\ LearningClaim(id)
      /\ UNCHANGED <<versions, processed, taught, late>>
  BY DEF StartPass, libraryVars
<1>3. /\ edge'.pc = IF processed[id] = None THEN "claimed" ELSE "finishing"
      /\ edge'.result = processed[id] /\ item' = id
      /\ edge'.work.claim = items[id].attempts + 1
  BY DEF StartPass, Resting, item
<1>4. HonestOK' BY <1>2, <1>3, HonestStays DEF RInv, HonestOK, Honest
<1>5. SourcesOK' BY <1>2, <1>3, SourcesStay
<1>6. items'[id].attempts = items[id].attempts + 1 /\ ItemsKept BY <1>0, <1>2, ClaimKeeps
<1>7. items'[id].status = "running"
  <2>1. items[id] \in Item BY <1>0 DEF LInv, TypeOK, QueueTypeOK
  <2>2. items'[id] = [items[id] EXCEPT !.status = "running", !.attempts = @ + 1, !.expired = FALSE]
    BY <1>2 DEF LearningClaim
  <2> QED BY <2>1, <2>2 DEF Item
<1>8. ClaimsOK'
  <2>1. \A i \in ItemId : items[i].attempts \in Nat BY <1>0, FilesTypes
  <2>2. \A i \in ItemId : items'[i].attempts \in Nat BY <1>1, AttemptsType DEF LInv, TypeOK
  <2>3. \A m \in late : /\ m.claim <= items'[m.item].attempts
                        /\ m.item = id => m.claim < items[id].attempts + 1
    BY <1>0, <1>6, <2>1, <2>2, LateTypes DEF RInv, ClaimsOK, ItemsKept
  <2> QED BY <1>2, <1>3, <1>6, <1>7, <2>3 DEF ClaimsOK
<1> QED BY <1>1, <1>4, <1>5, <1>8 DEF RInv

\* A pass ends, or goes on to publish.
LEMMA RestKeepsRInv ==
    ASSUME RInv, LInv', ItemsKept, UNCHANGED <<versions, processed, taught>>, late' \subseteq late,
           edge'.pc \in {"idle", "publishing"}
    PROVE  RInv'
<1>1. \A id \in ItemId : items'[id].attempts \in Nat BY AttemptsType DEF LInv, TypeOK
<1>2. ~Working' BY DEF Working
<1>3. HonestOK' BY HonestStays
<1>4. SourcesOK' BY SourcesStay
<1>5. ClaimsOK' BY <1>1, <1>2, ClaimsStay
<1> QED BY <1>3, <1>4, <1>5 DEF RInv

LEMMA IdleKeepsRInv ==
    ASSUME RInv, \/ IdlePass \/ Finish \/ Publish
                 \/ (\E p \in Cited : CheckEvidence(p)) \/ (\E v \in versions : Requalify(v))
    PROVE  RInv'
<1>0. LInv BY DEF RInv
<1>1. LInv' BY <1>0, IdleKeeps, FinishKeeps, CheckKeeps, PublishKeeps, RequalifyKeeps
<1>2. UNCHANGED <<versions, processed, taught, late>>
  BY DEF IdlePass, Finish, Publish, CheckEvidence, Requalify, libraryVars
<1>3. edge' = Resting \/ edge' = [edge EXCEPT !.pc = "publishing"] \/ (edge' = edge /\ edge.pc = "publishing")
  BY DEF IdlePass, Finish, Publish, CheckEvidence, Requalify, EndsPublication, Goes
<1>4. edge'.pc \in {"idle", "publishing"} BY <1>0, <1>3, EdgeTypes DEF Resting, Edge
<1>5. ItemsKept
  <2>1. CASE IdlePass BY <1>0, <2>1, NothingKeeps DEF IdlePass
  <2>2. CASE Publish BY <1>0, <2>2, PublishSkills DEF Publish
  <2>3. CASE Finish
    <3>1. edge.result \in Result /\ item \in ItemId /\ edge.result = processed[item]
      BY <1>0, <2>3, EdgeTypes DEF Finish, LInv, EdgeOK, LedgerOK, PassOK
    <3>2. LearningFinish(item, edge.work.claim, edge.result) \/ UNCHANGED queueVars
      BY <2>3 DEF Finish
    <3> QED BY <1>0, <3>1, <3>2, FinishItemKeeps, NothingMoved
  <2>4. CASE (\E p \in Cited : CheckEvidence(p)) \/ (\E v \in versions : Requalify(v))
    BY <1>0, <2>4, NothingMoved DEF CheckEvidence, Requalify
  <2> QED BY <2>1, <2>2, <2>3, <2>4
<1> QED BY <1>1, <1>2, <1>4, <1>5, RestKeepsRInv

LEMMA CrashKeepsRInv == ASSUME RInv, EdgeCrash PROVE RInv'
<1>0. LInv BY DEF RInv
<1>1. LInv' BY <1>0, CrashKeeps
<1>2. UNCHANGED <<items, versions, processed, taught>> /\ edge' = Resting
  BY DEF EdgeCrash, EndsPublication, queueVars, libraryVars
<1>3. edge'.pc = "idle" BY <1>2 DEF Resting
<1>4. ItemsKept
  <2>1. \A id \in ItemId : items[id].attempts \in Nat BY <1>0, FilesTypes
  <2> QED BY <1>0, <1>2, <2>1 DEF ItemsKept, LInv, FilesOK
<1>5. CASE UNCHANGED late BY <1>1, <1>2, <1>3, <1>4, <1>5, RestKeepsRInv
<1>6. CASE /\ edge.pc = "finishing"
           /\ late' = late \cup {[item |-> item, claim |-> edge.work.claim, result |-> edge.result]}
  <2> DEFINE m == [item |-> item, claim |-> edge.work.claim, result |-> edge.result]
  <2>1. m.item = item /\ m.claim = edge.work.claim /\ m.result = edge.result OBVIOUS
  <2>2. \A n \in late' : n \in late \/ n = m BY <1>6
  <2> HIDE DEF m
  <2>3. processed[item] # None /\ Honest(item, edge.result) /\ item \in ItemId
    <3>1. edge.result \in Result /\ edge.result = processed[item] /\ item \in ItemId
      BY <1>0, <1>6, EdgeTypes DEF LInv, EdgeOK, LedgerOK, PassOK
    <3> QED BY <1>6, <3>1, NoneIsNoResult DEF RInv, HonestOK
  <2>4. items[item].attempts = edge.work.claim /\ edge.work.claim \in Nat
    BY <1>0, <1>6, EdgeTypes DEF RInv, ClaimsOK, Working
  <2>5. HonestOK'
    BY <1>2, <1>3, <2>1, <2>2, <2>3 DEF RInv, HonestOK, Honest, ReportsFor
  <2>6. ClaimsOK'
    BY <1>2, <1>3, <2>1, <2>2, <2>4 DEF RInv, ClaimsOK, Working
  <2>7. SourcesOK' BY <1>2, <1>3, SourcesStay
  <2> QED BY <1>1, <2>5, <2>6, <2>7 DEF RInv
<1> QED BY <1>5, <1>6 DEF EdgeCrash

\* A step of a pass that goes on with its item, and neither files nor teaches.
LEMMA PassKeepsRInv ==
    ASSUME RInv, LInv', Working, UNCHANGED <<items, versions, processed, taught, late, item>>,
           edge'.work.claim = edge.work.claim,
           edge'.pc \in {"recording", "finishing"} => Honest(item, edge'.result),
           edge'.pc \in {"waiting", "judging", "admitting"} =>
               edge.pc \in {"waiting", "judging"} \/ Kind(item) # "skill_change"
    PROVE  RInv'
<1>0. LInv BY DEF RInv
<1>1. \A id \in ItemId : items[id].attempts \in Nat BY <1>0, FilesTypes
<1>2. ItemsKept BY <1>0, <1>1 DEF ItemsKept, LInv, FilesOK
<1>3. HonestOK' BY HonestStays DEF Honest
<1>4. SourcesOK' BY SourcesStay
<1>5. items[item].status = "running" BY DEF RInv, ClaimsOK
<1>6. ClaimsOK' BY <1>1, <1>2, <1>5, ClaimsStay
<1> QED BY <1>3, <1>4, <1>6 DEF RInv

LEMMA DecisionHonest ==
    ASSUME LInv, edge.pc \in {"claimed", "waiting", "judging", "admitting"},
           NEW status, NEW version, status # "activated", Decides(status, version)
    PROVE  /\ edge'.pc = "recording" /\ item' = item /\ edge'.work.claim = edge.work.claim
           /\ Honest(item, edge'.result)
<1>1. edge \in Edge /\ item \in ItemId /\ processed[item] = None
  BY EdgeTypes DEF LInv, LedgerOK, PassOK
<1>2. edge' = [edge EXCEPT !.pc = "recording",
                  !.result = [status |-> status, version |-> version, origin |-> item]]
  BY DEF Decides
<1>3. /\ edge'.pc = "recording" /\ edge'.work = edge.work
      /\ edge'.result = [status |-> status, version |-> version, origin |-> item]
  BY <1>1, <1>2 DEF Edge
<1>4. ~Activates(edge'.result) BY <1>3 DEF Activates
<1>5. Kind(item) = "learn" => taught[item] = {} BY <1>1, Untaught
<1> QED BY <1>3, <1>4, <1>5 DEF Honest, item

\* A step of a pass that decides against teaching.
LEMMA DecisionKeepsRInv ==
    ASSUME RInv, LInv', edge.pc \in {"claimed", "waiting", "judging", "admitting"},
           NEW status, NEW version, status # "activated", Decides(status, version),
           UNCHANGED <<items, versions, processed, taught, late>>
    PROVE  RInv'
<1>1. /\ edge'.pc = "recording" /\ item' = item /\ edge'.work.claim = edge.work.claim
      /\ Honest(item, edge'.result)
  BY DecisionHonest DEF RInv
<1>2. Working BY DEF Working
<1> QED BY <1>1, <1>2, PassKeepsRInv

LEMMA GatherKeepsRInv ==
    ASSUME RInv, GatherEpisode \/ GatherDemonstration \/ GatherChat
    PROVE  RInv'
<1>0. LInv BY DEF RInv
<1>1. LInv' BY <1>0, GatherKeeps
<1>2. PICK kinds, mayTeach : kinds \subseteq {"learn", "review", "shadow_review", "chat_review"}
                             /\ Gathers(kinds, mayTeach)
  BY DEF GatherEpisode, GatherDemonstration, GatherChat
<1>3. /\ edge.pc = "claimed" /\ Kind(item) # "skill_change"
      /\ UNCHANGED <<items, versions, processed, taught, late>>
  BY <1>2 DEF Gathers, EdgeOnly, queueVars, libraryVars
<1>4. CASE Decides("rejected", None) BY <1>1, <1>3, <1>4, DecisionKeepsRInv
<1>5. CASE Asks
  <2>1. edge \in Edge /\ edge.work \in Claim BY <1>0, <1>3, EdgeTypes
  <2>2. edge' = [edge EXCEPT !.pc = "waiting",
                    !.work = [edge.work EXCEPT !.seen = Catalog(Assigned(item[2]))]]
    BY <1>5 DEF Asks
  <2>3. edge'.pc = "waiting" /\ item' = item /\ edge'.work.claim = edge.work.claim
    BY <2>1, <2>2 DEF Edge, Claim, item
  <2>4. Working BY <1>3 DEF Working
  <2> QED BY <1>1, <1>3, <2>3, <2>4, PassKeepsRInv
<1> QED BY <1>2, <1>4, <1>5 DEF Gathers

LEMMA JudgeKeepsRInv ==
    ASSUME RInv, ApplyChange \/ ReadResponse \/ LearnerTimesOut \/ Dismiss \/ Recheck
    PROVE  RInv'
<1>0. LInv /\ edge \in Edge BY EdgeTypes DEF RInv
<1>1. LInv' BY <1>0, ChangeKeeps, ReadKeeps, JudgeKeeps
<1>2. /\ edge.pc \in {"claimed", "waiting", "judging"}
      /\ UNCHANGED <<items, versions, processed, taught, late>>
  BY DEF ApplyChange, ChangeActive, ReadResponse, LearnerTimesOut, Dismiss, Recheck, EdgeOnly,
         queueVars, libraryVars
<1>3. ASSUME NEW status, NEW version, status # "activated", Decides(status, version)
      PROVE  RInv'
  BY <1>1, <1>2, <1>3, DecisionKeepsRInv
<1>4. ASSUME edge.pc \in {"waiting", "judging"},
             NEW pc \in {"judging", "admitting"}, edge'.pc = pc, edge'.work = edge.work
      PROVE  RInv'
  <2>1. item' = item /\ Working BY <1>4 DEF item, Working
  <2> QED BY <1>1, <1>2, <1>4, <2>1, PassKeepsRInv
<1>5. CASE ApplyChange BY <1>3, <1>5 DEF ApplyChange
<1>6. CASE LearnerTimesOut BY <1>3, <1>6 DEF LearnerTimesOut
<1>7. CASE Dismiss BY <1>3, <1>7 DEF Dismiss
<1>8. CASE ReadResponse
  <2>1. PICK answer : edge' = [edge EXCEPT !.pc = "judging", !.answer = answer]
    BY <1>8 DEF ReadResponse
  <2>2. edge'.pc = "judging" /\ edge'.work = edge.work BY <1>0, <2>1 DEF Edge
  <2> QED BY <1>4, <1>8, <2>2 DEF ReadResponse
<1>9. CASE Recheck
  <2>1. Goes("admitting") \/ Decides("rejected", None) BY <1>9 DEF Recheck
  <2>2. Goes("admitting") => edge'.pc = "admitting" /\ edge'.work = edge.work
    BY <1>0 DEF Goes, Edge
  <2> QED BY <1>3, <1>4, <1>9, <2>1, <2>2 DEF Recheck
<1> QED BY <1>5, <1>6, <1>7, <1>8, <1>9

LEMMA RecordKeepsRInv == ASSUME RInv, RecordResult PROVE RInv'
<1>0. LInv BY DEF RInv
<1>1. LInv' BY <1>0, RecordKeeps
<1>2. /\ edge.pc = "recording" /\ UNCHANGED <<items, late, taught, versions>>
      /\ processed' = [processed EXCEPT ![item] = edge.result]
      /\ edge' = [edge EXCEPT !.pc = "finishing"]
  BY DEF RecordResult, Record, Goes, queueVars
<1>3. /\ edge.result \in Result /\ edge.result # None /\ item \in ItemId /\ edge \in Edge
      /\ processed \in [ItemId -> Result \cup {None}]
  BY <1>0, <1>2, EdgeTypes, NoneIsNoResult DEF LInv, EdgeOK
<1>4. edge'.pc = "finishing" /\ edge'.work = edge.work /\ edge'.result = edge.result
  BY <1>2, <1>3 DEF Edge
<1>5. item' = item /\ Working BY <1>2, <1>4 DEF item, Working
<1>6. Honest(item, edge.result) BY <1>2 DEF RInv, HonestOK
<1>7. \A m \in late : m.item \in ItemId BY <1>0, LateTypes
<1>8. HonestOK'
  <2>1. \A id \in ItemId : processed'[id] = IF id = item THEN edge.result ELSE processed[id]
    BY <1>2, <1>3
  <2>2. \A id \in ItemId : processed'[id] # None => Honest(id, processed'[id])
    BY <1>6, <2>1 DEF RInv, HonestOK
  <2>3. \A m \in late : processed'[m.item] # None /\ Honest(m.item, m.result)
    BY <1>3, <1>7, <2>1 DEF RInv, HonestOK
  <2> QED BY <1>2, <1>4, <1>5, <1>6, <2>2, <2>3 DEF HonestOK, Honest, ReportsFor
<1>9. SourcesOK' BY <1>2, <1>4 DEF RInv, SourcesOK
<1>10. ClaimsOK'
  <2>1. \A id \in ItemId : items[id].attempts \in Nat BY <1>0, FilesTypes
  <2> QED BY <1>2, <1>4, <1>5, <2>1 DEF RInv, ClaimsOK, Working
<1> QED BY <1>1, <1>8, <1>9, <1>10 DEF RInv

LEMMA InstallKeepsRInv ==
    ASSUME RInv, LInv', edge.pc = "admitting", NEW c, NEW key, NEW result,
           c = edge.answer.candidate, key = AdmissionKey(item), result = Admitted(edge.answer),
           Install(c, key, result),
           edge' = [edge EXCEPT !.pc = "recording", !.result = result],
           taught' = [taught EXCEPT ![item] = @ \cup {c}],
           UNCHANGED <<items, late>>
    PROVE  RInv'
<1>0. LInv BY DEF RInv
<1>1. /\ c \in Version /\ item \in ItemId /\ processed[item] = None /\ item[2] \in Job
      /\ key \in ItemId /\ item \in ReportsFor(key) /\ (Kind(item) = "learn" => key = item)
      /\ result # None /\ result.version = c /\ result.origin = item /\ Activates(result)
      /\ versions' = versions \cup {c}
      /\ \A id \in ItemId : processed'[id] = IF id = key THEN result ELSE processed[id]
      /\ \A id \in ItemId : taught'[id] = IF id = item THEN taught[item] \cup {c} ELSE taught[id]
      /\ edge'.pc = "recording" /\ edge'.work = edge.work /\ edge'.result = result
  <2>1. c \in Version /\ item \in ItemId /\ edge \in Edge /\ processed[item] = None
    BY <1>0, EdgeTypes DEF LInv, EdgeOK, LedgerOK, PassOK
  <2>2. item[2] \in Job /\ Kind(item) # "skill_change"
    <3>1. Kind(item) # "skill_change" BY DEF RInv, SourcesOK
    <3> QED BY <2>1, <3>1 DEF ItemId, Kind
  <2>3. key = Learn(item[2]) BY DEF AdmissionKey
  <2>4. key \in ItemId /\ Kind(key) = "learn" /\ key[2] = item[2] BY <2>2, <2>3, LearnIdentity DEF Learn
  <2>5. item \in ReportsFor(key) BY <2>1, <2>2, <2>4 DEF ReportsFor, SameJob
  <2>6. Kind(item) = "learn" => key = item BY <2>1, <2>3, LearnIdentity
  <2>7. result.status = "activated" /\ result.version = c /\ result.origin = item /\ result \in Result
    BY <2>1 DEF Admitted, Result
  <2>8. result # None /\ Activates(result) BY <2>7, NoneIsNoResult DEF Activates
  <2>9. processed \in [ItemId -> Result \cup {None}] /\ taught \in [ItemId -> SUBSET Version]
    BY <1>0, EdgeTypes DEF LInv, TypeOK
  <2>10. versions' = versions \cup {c} /\ processed' = [processed EXCEPT ![key] = result]
    BY DEF Install
  <2>11. edge'.pc = "recording" /\ edge'.work = edge.work /\ edge'.result = result
    BY <2>1 DEF Edge
  <2> QED BY <2>1, <2>2, <2>4, <2>5, <2>6, <2>7, <2>8, <2>9, <2>10, <2>11
<1>2. item' = item /\ Working BY <1>1 DEF item, Working
<1>3. ASSUME NEW id \in ItemId, NEW r \in Result, Honest(id, r), Kind(id) = "learn" => id # item
      PROVE  Honest(id, r)'
  <2>1. Activates(r) => r.origin \in ItemId BY <1>3 DEF Result
  <2>2. Activates(r) => r.origin \in ReportsFor(id) /\ r.version \in taught'[r.origin]
    BY <1>1, <1>3, <2>1 DEF Honest
  <2>3. Kind(id) = "learn" /\ taught'[id] # {} => Activates(r) BY <1>1, <1>3 DEF Honest
  <2> QED BY <2>2, <2>3 DEF Honest, ReportsFor
<1>4. ASSUME NEW id \in ItemId, item \in ReportsFor(id) PROVE Honest(id, result)'
  BY <1>1, <1>4 DEF Honest, ReportsFor
<1>5. \A id \in ItemId : processed[id] \in Result \cup {None} BY <1>0, EdgeTypes
<1>6. ASSUME NEW id \in ItemId, NEW r, r = processed'[id], r # None PROVE Honest(id, r)'
  <2>1. CASE id = key
    <3>1. r = result BY <1>1, <1>6, <2>1
    <3>2. item \in ReportsFor(id) BY <1>1, <2>1
    <3> QED BY <1>4, <3>1, <3>2
  <2>2. CASE id # key
    <3>1. r = processed[id] BY <1>1, <1>6, <2>2
    <3>2. Honest(id, r) /\ r \in Result BY <1>5, <1>6, <3>1 DEF RInv, HonestOK
    <3>3. Kind(id) = "learn" => id # item BY <1>1, <2>2
    <3> QED BY <1>3, <3>2, <3>3
  <2> QED BY <2>1, <2>2
<1>7. ASSUME NEW m \in late PROVE processed'[m.item] # None /\ Honest(m.item, m.result)'
  <2>1. /\ m.item \in ItemId /\ m.result \in Result
        /\ processed[m.item] # None /\ Honest(m.item, m.result)
    BY <1>0, <1>7, LateTypes DEF RInv, HonestOK
  <2>2. m.item # item BY <1>1, <2>1
  <2>3. Honest(m.item, m.result)' BY <1>3, <2>1, <2>2
  <2> QED BY <1>1, <2>1, <2>3
<1>8. \A id \in ItemId : id = item => Honest(id, result)'
  <2>1. item \in ReportsFor(item) BY <1>1 DEF ReportsFor, SameJob
  <2> QED BY <1>4, <2>1
<1>9. HonestOK'
  <2>1. \A id \in ItemId : processed'[id] # None => Honest(id, processed[id])'
    BY <1>6 DEF Honest, ReportsFor
  <2>2. Honest(item, edge.result)' BY <1>1, <1>2, <1>8 DEF Honest, ReportsFor
  <2> QED BY <1>7, <2>1, <2>2 DEF HonestOK, Honest, ReportsFor
<1>10. ClaimsOK'
  <2>1. \A id \in ItemId : items[id].attempts \in Nat BY <1>0, FilesTypes
  <2> QED BY <1>1, <1>2, <2>1 DEF RInv, ClaimsOK, Working
<1>11. SourcesOK'
  <2>1. (UNION {taught[id] : id \in ItemId}) \cup {c} \subseteq UNION {taught'[id] : id \in ItemId}
    BY <1>1
  <2> QED BY <1>1, <2>1 DEF RInv, SourcesOK
<1> QED BY <1>9, <1>10, <1>11 DEF RInv

LEMMA AdmitKeepsRInv == ASSUME RInv, Admit PROVE RInv'
<1>0. LInv BY DEF RInv
<1>1. LInv' BY <1>0, AdmitKeeps
<1>2. edge.pc = "admitting" /\ UNCHANGED <<items, late>> BY DEF Admit, queueVars
<1>3. CASE UNCHANGED <<libraryVars, taught>> /\ (Decides("no_change", None) \/ Decides("rejected", None))
  <2>1. UNCHANGED <<versions, processed>> BY <1>3 DEF libraryVars
  <2> QED BY <1>1, <1>2, <1>3, <2>1, DecisionKeepsRInv
<1>4. CASE LET result == Admitted(edge.answer) IN
           /\ Install(edge.answer.candidate, AdmissionKey(item), result)
           /\ edge' = [edge EXCEPT !.pc = "recording", !.result = result]
           /\ taught' = [taught EXCEPT ![item] = @ \cup {edge.answer.candidate}]
  BY <1>1, <1>2, <1>4, InstallKeepsRInv
<1> QED BY <1>3, <1>4 DEF Admit

-----------------------------------------------------------------------------
(* The inductive invariant *)

LEMMA InitRInv == Init => RInv
<1> SUFFICES ASSUME Init PROVE RInv OBVIOUS
<1>1. LInv BY InitLInv
<1>2. edge.pc = "idle" /\ late = {} /\ versions = {Seed} /\ \A id \in ItemId : processed[id] = None
  BY DEF Init, LibraryInit, Resting
<1> QED BY <1>1, <1>2 DEF RInv, HonestOK, ClaimsOK, SourcesOK, Working

LEMMA NextRInv == RInv /\ [Next]_vars => RInv'
<1> SUFFICES ASSUME RInv, [Next]_vars PROVE RInv' OBVIOUS
<1>1. CASE UNCHANGED vars
  <2>1. LInv' BY <1>1, NextLInv DEF RInv
  <2>2. UNCHANGED <<queueVars, items, versions, processed, edge, taught, late>>
    BY <1>1 DEF vars, queueVars, libraryVars, edgeVars
  <2>3. ItemsKept BY <2>2, NothingMoved DEF RInv
  <2> QED BY <2>1, <2>2, <2>3, BesideKeeps
<1>2. CASE EdgeNext
  BY <1>2, StartKeepsRInv, IdleKeepsRInv, GatherKeepsRInv, JudgeKeepsRInv, AdmitKeepsRInv,
     RecordKeepsRInv DEF EdgeNext, PassBegins
<1>3. CASE FaultNext
  BY <1>3, CrashKeepsRInv, LateKeepsRInv, IdleKeepsRInv, OperatorKeepsRInv DEF FaultNext
<1> QED BY <1>1, <1>2, <1>3, StaffKeepsRInv, OperatorKeepsRInv DEF Next

\* What is filed and acknowledged is true of what was taught, and a pass works under the newest claim
\* of its item whatever is late (maintain, admit, learning_claim, learning_finish).
THEOREM ResultsAreHonest == Spec => []RInv
<1>1. Init => RInv BY InitRInv
<1>2. RInv /\ [Next]_vars => RInv' BY NextRInv
<1> QED BY <1>1, <1>2, PTL DEF Spec

-----------------------------------------------------------------------------
(* Steps of the promise *)

LessonStep == [Promise!Next]_(Promise!lessonVars)

LEMMA LessonStutters ==
    ASSUME UNCHANGED <<taught, packages>>,
           \A id \in ItemId : /\ StatusOf(items'[id]) = StatusOf(items[id])
                              /\ ReportOf(items'[id]) = ReportOf(items[id])
    PROVE  LessonStep
BY DEF LessonStep, Promise!lessonVars

LEMMA LessonMoves ==
    ASSUME NEW from, NEW to, <<from, to>> \in {<<"absent", "open">>, <<"open", "abandoned">>},
           UNCHANGED <<taught, packages>>,
           \A id \in ItemId :
              /\ ReportOf(items'[id]) = ReportOf(items[id])
              /\ \/ StatusOf(items'[id]) = StatusOf(items[id])
                 \/ StatusOf(items[id]) = from /\ StatusOf(items'[id]) = to
    PROVE  LessonStep
<1>1. Promise!Moves(Promise!Moved, from, to) BY DEF Promise!Moves, Promise!Moved
<1>2. UNCHANGED [id \in ItemId |-> ReportOf(items[id])] OBVIOUS
<1>3. Promise!Schedule \/ Promise!Abandon
  BY <1>1, <1>2 DEF Promise!Schedule, Promise!Abandon
<1> QED BY <1>3 DEF LessonStep, Promise!Next

LEMMA LessonDistributes ==
    ASSUME RInv, UNCHANGED <<items, taught>>, SkillsPublish(versions)
    PROVE  LessonStep
<1>1. packages' = packages \cup versions BY DEF SkillsPublish
<1>2. versions \subseteq Promise!Known BY DEF RInv, SourcesOK, Promise!Known
<1>3. Promise!Distribute BY <1>1, <1>2 DEF Promise!Distribute
<1> QED BY <1>3 DEF LessonStep, Promise!Next

LEMMA LessonSettles ==
    ASSUME RInv, NEW id \in ItemId, NEW claim, NEW result \in Result, Honest(id, result),
           LearningFinish(id, claim, result), UNCHANGED <<taught, packages>>
    PROVE  LessonStep
<1> DEFINE report == IF Activates(result)
                     THEN [item |-> result.origin, lesson |-> result.version] ELSE None
<1>1. items \in [ItemId -> Item] /\ taught \in [ItemId -> SUBSET Version]
  BY DEF RInv, LInv, TypeOK, QueueTypeOK
<1>2. items[id].status = "running" BY DEF LearningFinish, MayFinish, Claimed
<1>3. items'[id].status = "completed" /\ items'[id].result = result
      /\ \A i \in ItemId : i # id => items'[i] = items[i]
  BY <1>1 DEF LearningFinish, Item
<1>4. StatusOf(items[id]) = "open" /\ StatusOf(items'[id]) = "settled" BY <1>2, <1>3 DEF StatusOf
<1>5. ReportOf(items'[id]) = report BY <1>3 DEF ReportOf
<1>6. Promise!Moves({id}, "open", "settled") BY <1>3, <1>4 DEF Promise!Moves
<1>7. report \in Promise!Report \cup {None} /\ Promise!Truthful(id, report)
  <2>1. CASE Activates(result)
    <3>1. result.origin \in ReportsFor(id) /\ result.version \in taught[result.origin]
      BY <2>1 DEF Honest
    <3>2. result.origin \in ItemId BY DEF Result
    <3>3. result.version \in Version BY <1>1, <3>1, <3>2
    <3>4. report = [item |-> result.origin, lesson |-> result.version] BY <2>1
    <3>5. report \in Promise!Report BY <3>2, <3>3, <3>4 DEF Promise!Report
    <3>6. report.item = result.origin /\ report.lesson = result.version BY <3>4
    <3>7. report # None BY <3>5, NoneIsNoReport DEF Promise!Report
    <3> QED BY <3>1, <3>5, <3>6, <3>7 DEF Promise!Truthful
  <2>2. CASE ~Activates(result)
    <3>1. report = None BY <2>2
    <3>2. Kind(id) = "learn" => taught[id] = {} BY <2>2 DEF Honest
    <3> QED BY <3>1, <3>2 DEF Promise!Truthful
  <2> QED BY <2>1, <2>2
<1>8. [i \in ItemId |-> ReportOf(items'[i])]
        = [[i \in ItemId |-> ReportOf(items[i])] EXCEPT ![id] = report]
  BY <1>3, <1>5
<1>9. Promise!Settle(id) BY <1>6, <1>7, <1>8 DEF Promise!Settle
<1> QED BY <1>9 DEF LessonStep, Promise!Next

-----------------------------------------------------------------------------
(* Steps of the system *)

LEMMA QueueSchedules ==
    ASSUME NEW ids, Queue(ids), UNCHANGED <<taught, packages>>
    PROVE  LessonStep
<1>1. ASSUME NEW id \in ItemId
      PROVE  /\ ReportOf(items'[id]) = ReportOf(items[id])
             /\ \/ StatusOf(items'[id]) = StatusOf(items[id])
                \/ StatusOf(items[id]) = "absent" /\ StatusOf(items'[id]) = "open"
  <2>1. CASE id \in ids /\ items[id].status = "absent"
    <3>1. items'[id] = [NoItem EXCEPT !.status = "queued", !.row = Rows + 1] BY <2>1 DEF Queue
    <3>2. items'[id].status = "queued" BY <3>1 DEF NoItem
    <3> QED BY <2>1, <3>2 DEF StatusOf, ReportOf
  <2>2. CASE ~(id \in ids /\ items[id].status = "absent")
    <3>1. items'[id] = items[id] BY <2>2 DEF Queue
    <3> QED BY <3>1
  <2> QED BY <2>1, <2>2
<1> QED BY <1>1, LessonMoves

LEMMA ExpireStutters ==
    ASSUME LInv, NEW i \in ItemId, Expire(i), UNCHANGED <<taught, packages>>
    PROVE  LessonStep
<1>1. items \in [ItemId -> Item] /\ items' = [items EXCEPT ![i].expired = TRUE]
  BY DEF LInv, TypeOK, QueueTypeOK, Expire
<1>2. \A id \in ItemId : items'[id].status = items[id].status /\ items'[id].result = items[id].result
  BY <1>1 DEF Item
<1> QED BY <1>2, LessonStutters DEF StatusOf, ReportOf, Activates

\* The claim of an item abandons those that were tried too often.
LEMMA ClaimAbandons ==
    ASSUME LInv, (\E i \in ItemId : LearningClaim(i)) \/ NothingToClaim,
           UNCHANGED <<taught, packages>>
    PROVE  LessonStep
<1>1. ASSUME NEW id \in ItemId
      PROVE  \/ items'[id] = items[id]
             \/ /\ items[id].status \in {"queued", "running"}
                /\ items'[id].status \in {"running", "failed"}
  <2>1. items[id] \in Item BY DEF LInv, TypeOK, QueueTypeOK
  <2>2. CASE NothingToClaim BY <2>1, <2>2 DEF NothingToClaim, Exhausted, Claimable, Item
  <2>3. ASSUME NEW i \in ItemId, LearningClaim(i)
        PROVE  \/ items'[id] = items[id]
               \/ /\ items[id].status \in {"queued", "running"}
                  /\ items'[id].status \in {"running", "failed"}
    <3>1. CASE i = id
      <4>1. items'[id] = [items[id] EXCEPT !.status = "running", !.attempts = @ + 1, !.expired = FALSE]
        BY <2>3, <3>1 DEF LearningClaim
      <4>2. items'[id].status = "running" BY <2>1, <4>1 DEF Item
      <4> QED BY <2>3, <3>1, <4>2 DEF LearningClaim, Open, Claimable
    <3>2. CASE i # id /\ Exhausted(id) /\ Earlier(id, i)
      <4>1. items'[id] = [items[id] EXCEPT !.status = "failed"] BY <2>3, <3>2 DEF LearningClaim
      <4>2. items'[id].status = "failed" BY <2>1, <4>1 DEF Item
      <4> QED BY <3>2, <4>2 DEF Exhausted, Claimable
    <3>3. CASE i # id /\ ~(Exhausted(id) /\ Earlier(id, i))
      BY <2>3, <3>3 DEF LearningClaim
    <3> QED BY <3>1, <3>2, <3>3
  <2> QED BY <2>2, <2>3
<1>2. ASSUME NEW id \in ItemId
      PROVE  /\ ReportOf(items'[id]) = ReportOf(items[id])
             /\ \/ StatusOf(items'[id]) = StatusOf(items[id])
                \/ StatusOf(items[id]) = "open" /\ StatusOf(items'[id]) = "abandoned"
  BY <1>1 DEF StatusOf, ReportOf
<1> QED BY <1>2, LessonMoves

LEMMA ServerTeaches ==
    ASSUME RInv, StaffNext \/ ClaimExpires \/ LateFinish \/ UpgradeCode
                 \/ (\E v \in versions : Requalify(v)) \/ LearnerNext
    PROVE  LessonStep
<1>0. LInv BY DEF RInv
<1>1. CASE StaffNext \/ ClaimExpires
  <2>1. UNCHANGED <<taught, packages>>
    BY <1>1 DEF StaffNext, ClaimExpires, ServerOnly, Accept, FinishDemonstration, EndWork, AssessAction,
                SkillCommand, Expire
  <2>2. (\E ids : Queue(ids)) \/ \E i \in ItemId : Expire(i)
    BY <1>1 DEF StaffNext, ClaimExpires, Accept, FinishDemonstration, EndWork, AssessAction,
                SkillCommand
  <2> QED BY <1>0, <2>1, <2>2, QueueSchedules, ExpireStutters
<1>2. CASE LateFinish
  <2>1. PICK m \in late : /\ LearningFinish(m.item, m.claim, m.result) \/ UNCHANGED queueVars
                          /\ UNCHANGED taught
    BY <1>2 DEF LateFinish
  <2>2. m.item \in ItemId /\ m.result \in Result /\ Honest(m.item, m.result)
    BY <1>0, LateTypes DEF RInv, HonestOK
  <2>3. LearningFinish(m.item, m.claim, m.result) => LessonStep
    BY <2>1, <2>2, LessonSettles DEF LearningFinish
  <2>4. UNCHANGED queueVars => LessonStep BY <2>1, LessonStutters DEF queueVars
  <2> QED BY <2>1, <2>3, <2>4
<1>3. CASE UpgradeCode \/ LearnerNext
  BY <1>3, LessonStutters DEF UpgradeCode, LearnerNext, TakeRequest, WriteResponse, EdgeOnly, queueVars
<1>4. CASE \E v \in versions : Requalify(v)
  BY <1>4, LessonStutters DEF Requalify, queueVars
<1> QED BY <1>1, <1>2, <1>3, <1>4

LEMMA PassTeaches == ASSUME RInv, EdgeNext \/ EdgeCrash PROVE LessonStep
<1>0. LInv BY DEF RInv
<1>1. CASE (\E id \in ItemId : StartPass(id)) \/ IdlePass
  BY <1>0, <1>1, ClaimAbandons DEF StartPass, IdlePass, LearningClaim, NothingToClaim
<1>2. CASE \/ ApplyChange \/ GatherEpisode \/ GatherDemonstration \/ GatherChat \/ ReadResponse
           \/ LearnerTimesOut \/ Dismiss \/ Recheck \/ RecordResult \/ EdgeCrash
           \/ \E p \in Cited : CheckEvidence(p)
  <2>1. UNCHANGED <<queueVars, taught>>
    BY <1>2 DEF ApplyChange, GatherEpisode, GatherDemonstration, GatherChat, Gathers, ReadResponse,
                LearnerTimesOut, Dismiss, Recheck, RecordResult, EdgeCrash, CheckEvidence, EdgeOnly
  <2> QED BY <2>1, LessonStutters DEF queueVars
<1>3. CASE Finish
  <2>1. edge.pc = "finishing" /\ UNCHANGED taught BY <1>3 DEF Finish
  <2>2. item \in ItemId /\ edge.result \in Result /\ Honest(item, edge.result)
    BY <1>0, <2>1, EdgeTypes DEF RInv, HonestOK, LInv, EdgeOK
  <2>3. LearningFinish(item, edge.work.claim, edge.result) => LessonStep
    BY <2>1, <2>2, LessonSettles DEF LearningFinish
  <2>4. UNCHANGED queueVars => LessonStep BY <2>1, LessonStutters DEF queueVars
  <2> QED BY <1>3, <2>3, <2>4 DEF Finish
<1>4. CASE Publish
  <2>1. UNCHANGED taught /\ SkillsPublish(versions) BY <1>4 DEF Publish
  <2> QED BY <2>1, LessonDistributes DEF SkillsPublish
<1>5. CASE Admit
  <2>1. edge.pc = "admitting" /\ UNCHANGED <<items, packages>> BY <1>5 DEF Admit, queueVars
  <2>2. CASE UNCHANGED taught BY <2>1, <2>2, LessonStutters
  <2>3. CASE taught' = [taught EXCEPT ![item] = @ \cup {edge.answer.candidate}]
    <3>1. item \in ItemId /\ edge.answer.candidate \in Version /\ processed[item] = None
      BY <1>0, <2>1, EdgeTypes DEF LInv, EdgeOK, LedgerOK, PassOK
    <3>2. items[item].status = "running" BY <2>1 DEF RInv, ClaimsOK, Working
    <3>3. Kind(item) = "learn" => taught[item] = {} BY <1>0, <3>1, Untaught
    <3>4. StatusOf(items[item]) = "open" BY <3>2 DEF StatusOf
    <3>5. Promise!Teach(item, edge.answer.candidate)
      BY <2>1, <2>3, <3>1, <3>3, <3>4 DEF Promise!Teach
    <3> QED BY <3>1, <3>5 DEF LessonStep, Promise!Next
  <2> QED BY <1>5, <2>2, <2>3 DEF Admit
<1> QED BY <1>1, <1>2, <1>3, <1>4, <1>5 DEF EdgeNext, PassBegins

(* The maintenance pass, its ledger and the queue implement Lessons: each    *)
(* item is settled once, with a lesson that was taught by it or about its    *)
(* job; an episode's own item teaches once and reports it; only what was     *)
(* taught is distributed (maintain, admit, install, learning_claim,          *)
(* learning_finish, skills_publish).                                         *)
THEOREM LearningImplementsLessons == Spec => ImplementsLessons
<1>1. Init => Promise!Init
  BY DEF Init, NoItem, StatusOf, ReportOf, Promise!Init
<1>2. RInv /\ [Next]_vars => LessonStep
  <2> SUFFICES ASSUME RInv, [Next]_vars PROVE LessonStep OBVIOUS
  <2>1. CASE UNCHANGED vars
    BY <2>1, LessonStutters DEF vars, queueVars
  <2> QED BY <2>1, ServerTeaches, PassTeaches DEF Next, FaultNext
<1> QED
  BY <1>1, <1>2, ResultsAreHonest, PTL DEF Spec, ImplementsLessons, Promise!Spec, LessonStep
=============================================================================
