------------------------------- MODULE LearningProofs -------------------------------
(* Theorems about Learning, for any jobs, skills, wordings and bounds. *)
EXTENDS Learning, FiniteSetTheorems, TLAPS

-----------------------------------------------------------------------------
(* The invariant *)

\* What a pass holds in its local variables once it holds it.
EdgeOK ==
    /\ edge.pc \notin {"idle", "publishing"} => edge.work \in Claim
    /\ edge.pc \in {"judging", "admitting"} =>
          edge.answer \in Answer /\ (edge.answer.says = "teaches" => edge.answer.candidate \in Version)
    /\ edge.pc = "admitting" => edge.answer.says = "teaches"
    /\ edge.pc \in {"recording", "finishing"} => edge.result \in Result

\* A pass works without a ledger entry until it makes one, and acknowledges the one it made.
PassOK ==
    /\ edge.pc \in {"claimed", "waiting", "judging", "admitting"} => processed[item] = None
    /\ edge.pc = "recording" /\ Kind(item) # "learn" => processed[item] = None
    /\ edge.pc = "finishing" => processed[item] = edge.result
LedgerOK ==
    /\ PassOK
    /\ \A m \in late : Kind(m.item) # "learn" => processed[m.item] = m.result
    /\ \A id \in ItemId : items[id].status = "completed" => items[id].result \in Result

\* What the job's own item has activated is in the ledger.
TaughtOK == \A j \in Job : taught[Learn(j)] # {} => processed[Learn(j)] # None

\* Files are named for the claim they were made under, and a new claim meets none of its name.
Files == requests \cup responses \cup ({learner} \ {None})
FilesOK ==
    /\ \A id \in ItemId : items[id].status = "absent" => items[id] = NoItem
    /\ \A f \in Files : /\ f.name = RequestName(f.work)
                        /\ f.work.claim <= items[f.work.item].attempts
    /\ edge.pc \in {"claimed", "waiting"} => edge.work.claim <= items[item].attempts
    /\ edge.pc = "claimed" => \A f \in Files : f.name # RequestName(edge.work)
    /\ edge.pc = "waiting" => \A f \in Files : f.name = RequestName(edge.work) => f.work = edge.work

LInv == TypeOK /\ EdgeOK /\ LedgerOK /\ LedgersAgree /\ TaughtOK /\ LearnsOnce /\ FilesOK

-----------------------------------------------------------------------------
(* Identities *)

LEMMA ItemIdFinite == IsFiniteSet(ItemId)
<1>1. IsFiniteSet(Job) BY LearningAssumption
<1>2. IsFiniteSet({"learn", "chat_review", "shadow_review"})
  <2>1. IsFiniteSet({"learn"}) BY FS_Singleton
  <2>2. IsFiniteSet({"learn"} \cup {"chat_review"}) BY <2>1, FS_AddElement
  <2>3. IsFiniteSet(({"learn"} \cup {"chat_review"}) \cup {"shadow_review"}) BY <2>2, FS_AddElement
  <2>4. ({"learn"} \cup {"chat_review"}) \cup {"shadow_review"} = {"learn", "chat_review", "shadow_review"}
    OBVIOUS
  <2> QED BY <2>3, <2>4
<1>3. IsFiniteSet(Trigger)
  <2>1. IsFiniteSet({"incorrect_assessment"}) BY FS_Singleton
  <2>2. IsFiniteSet({"incorrect_assessment"} \cup {"repeated_failure"}) BY <2>1, FS_AddElement
  <2>3. IsFiniteSet(({"incorrect_assessment"} \cup {"repeated_failure"}) \cup {"capability_gap"})
    BY <2>2, FS_AddElement
  <2>4. ({"incorrect_assessment"} \cup {"repeated_failure"}) \cup {"capability_gap"} = Trigger
    BY DEF Trigger
  <2> QED BY <2>3, <2>4
<1>4. IsFiniteSet({"learn", "chat_review", "shadow_review"} \X Job) BY <1>1, <1>2, FS_Product
<1>5. IsFiniteSet({"review"} \X Job \X Trigger)
  <2> DEFINE Pairs == Job \X Trigger
             f == [p \in Pairs |-> <<"review", p[1], p[2]>>]
             Reviews == {"review"} \X Job \X Trigger
  <2>1. IsFiniteSet(Pairs) BY <1>1, <1>3, FS_Product
  <2>2. f \in Surjection(Pairs, Reviews)
    <3>1. f \in [Pairs -> Reviews] OBVIOUS
    <3>2. \A r \in Reviews : \E p \in Pairs : f[p] = r
      <4> TAKE r \in Reviews
      <4>1. <<r[2], r[3]>> \in Pairs /\ f[<<r[2], r[3]>>] = r OBVIOUS
      <4> QED BY <4>1
    <3> QED BY <3>1, <3>2 DEF Surjection
  <2> HIDE DEF f, Pairs, Reviews
  <2>3. IsFiniteSet(Reviews) BY <2>1, <2>2, FS_Surjection
  <2> QED BY <2>3 DEF Reviews
<1>6. IsFiniteSet({"skill_change"} \X (1..MaxCommands))
  <2>1. IsFiniteSet({"skill_change"}) BY FS_Singleton
  <2>2. IsFiniteSet(1..MaxCommands) BY LearningAssumption, FS_Interval
  <2> QED BY <2>1, <2>2, FS_Product
<1>7. IsFiniteSet(({"learn", "chat_review", "shadow_review"} \X Job) \cup ({"review"} \X Job \X Trigger))
  BY <1>4, <1>5, FS_Union
<1> QED BY <1>6, <1>7, FS_Union DEF ItemId

LEMMA RowsType == Rows \in Nat
<1>1. IsFiniteSet({id \in ItemId : items[id].status # "absent"}) BY ItemIdFinite, FS_Subset
<1> QED BY <1>1, FS_CardinalityType DEF Rows

LEMMA LearnIdentity ==
    /\ \A j \in Job : Learn(j) \in ItemId /\ Kind(Learn(j)) = "learn"
    /\ \A id \in ItemId : Kind(id) = "learn" => id[2] \in Job /\ id = Learn(id[2])
BY DEF ItemId, Learn, Kind, Trigger
-----------------------------------------------------------------------------
(* The server's transactions *)

\* What every transaction leaves of an item: attempts are counted up, and it is completed with what
\* the ledger holds.
ItemsKept ==
    \A id \in ItemId :
        /\ items[id].attempts <= items'[id].attempts
        /\ items'[id].status = "completed" =>
              \/ items'[id] = items[id]
              \/ items'[id].result \in Result /\ (Kind(id) # "learn" => items'[id].result = processed[id])
        /\ items'[id].status = "absent" => items'[id] = NoItem

LEMMA QueueKeeps ==
    ASSUME LInv, NEW ids, Queue(ids)
    PROVE  items' \in [ItemId -> Item] /\ ItemsKept
<1>1. [NoItem EXCEPT !.status = "queued", !.row = Rows + 1] \in Item
  <2>1. Rows + 1 \in Nat BY RowsType
  <2>2. 0 \in 0..MaxAttempts BY LearningAssumption
  <2>3. NoItem \in Item BY <2>2 DEF NoItem, Item
  <2> QED BY <2>1, <2>3 DEF Item
<1>2. items \in [ItemId -> Item] BY DEF LInv, TypeOK, QueueTypeOK
<1>3. items' \in [ItemId -> Item] BY <1>1, <1>2 DEF Queue
<1>4. \A id \in ItemId : items[id].status = "absent" => items[id].attempts = 0
  BY DEF LInv, FilesOK, NoItem
<1>5. ItemsKept
  <2> SUFFICES ASSUME NEW id \in ItemId
               PROVE  /\ items[id].attempts <= items'[id].attempts
                      /\ items'[id].status = "completed" => items'[id] = items[id]
                      /\ items'[id].status = "absent" => items'[id] = NoItem
    BY DEF ItemsKept
  <2>1. CASE id \in ids /\ items[id].status = "absent"
    <3>1. items'[id] = [NoItem EXCEPT !.status = "queued", !.row = Rows + 1] BY <2>1 DEF Queue
    <3>2. items'[id].status = "queued" /\ items'[id].attempts = 0 BY <3>1 DEF NoItem
    <3> QED BY <2>1, <3>2, <1>4
  <2>2. CASE ~(id \in ids /\ items[id].status = "absent")
    <3>1. items'[id] = items[id] BY <2>2 DEF Queue
    <3>2. items[id].attempts \in Nat BY <1>2, LearningAssumption DEF Item
    <3> QED BY <3>1, <3>2 DEF LInv, FilesOK
  <2> QED BY <2>1, <2>2
<1> QED BY <1>3, <1>5

LEMMA WorkKeeps ==
    ASSUME LInv,
           \/ \E j \in Job : Accept(j) \/ FinishDemonstration(j)
           \/ \E j \in Job, outcome \in {"completed", "failed"} : EndWork(j, outcome)
           \/ \E j \in Job, outcome \in {"correct", "incorrect"} : AssessAction(j, outcome)
    PROVE  QueueTypeOK' /\ ItemsKept
<1> DEFINE W == [Job -> [status: {"open", "failed", "completed"}, accepted: BOOLEAN,
                         assessed: {"none", "correct", "incorrect"}]]
<1>1. work \in W /\ commands \in [1..MaxCommands -> [skill: Skill, version: Version \cup {None}]]
      /\ packages \subseteq Version
  BY DEF LInv, TypeOK, QueueTypeOK
<1>2. (\E ids : Queue(ids)) /\ UNCHANGED <<commands, packages>>
  BY DEF Accept, FinishDemonstration, EndWork, AssessAction
<1>3. work' \in W
  <2>1. ASSUME NEW j \in Job, Accept(j) PROVE work' \in W BY <1>1, <2>1 DEF Accept
  <2>2. ASSUME NEW j \in Job, FinishDemonstration(j) PROVE work' \in W
    BY <1>1, <2>2 DEF FinishDemonstration
  <2>3. ASSUME NEW j \in Job, NEW outcome \in {"completed", "failed"}, EndWork(j, outcome)
        PROVE  work' \in W
    BY <1>1, <2>3 DEF EndWork
  <2>4. ASSUME NEW j \in Job, NEW outcome \in {"correct", "incorrect"}, AssessAction(j, outcome)
        PROVE  work' \in W
    BY <1>1, <2>4 DEF AssessAction
  <2> QED BY <2>1, <2>2, <2>3, <2>4
<1>4. PICK ids : Queue(ids) BY <1>2
<1>5. items' \in [ItemId -> Item] /\ ItemsKept BY <1>4, QueueKeeps
<1> QED BY <1>1, <1>2, <1>3, <1>5 DEF QueueTypeOK

LEMMA CommandKeeps ==
    ASSUME LInv, NEW n \in 1..MaxCommands, NEW s \in Skill, NEW v \in packages \cup {None},
           SkillCommand(n, s, v)
    PROVE  QueueTypeOK' /\ ItemsKept
<1>1. v \in Version \cup {None} BY DEF LInv, TypeOK, QueueTypeOK
<1>2. commands' \in [1..MaxCommands -> [skill: Skill, version: Version \cup {None}]]
  BY <1>1 DEF LInv, TypeOK, QueueTypeOK, SkillCommand
<1>3. items' \in [ItemId -> Item] /\ ItemsKept BY QueueKeeps DEF SkillCommand
<1> QED BY <1>2, <1>3 DEF LInv, TypeOK, QueueTypeOK, SkillCommand

LEMMA ExpireKeeps ==
    ASSUME LInv, NEW id \in ItemId, Expire(id)
    PROVE  QueueTypeOK' /\ ItemsKept
<1>1. items \in [ItemId -> Item] BY DEF LInv, TypeOK, QueueTypeOK
<1>2. items' \in [ItemId -> Item] BY <1>1 DEF Expire, Item
<1>3. ItemsKept
  <2> SUFFICES ASSUME NEW i \in ItemId
               PROVE  /\ items[i].attempts <= items'[i].attempts
                      /\ items'[i].status = "completed" => items'[i] = items[i]
                      /\ items'[i].status = "absent" => items'[i] = NoItem
    BY DEF ItemsKept
  <2>1. items[i].attempts \in Nat BY <1>1, LearningAssumption DEF Item
  <2>2. CASE i # id BY <2>1, <2>2, <1>1 DEF Expire, LInv, FilesOK
  <2>3. CASE i = id
    <3>1. items'[i].status = "running" /\ items'[i].attempts = items[i].attempts
      BY <2>3, <1>1 DEF Expire, Item
    <3> QED BY <2>1, <3>1
  <2> QED BY <2>2, <2>3
<1> QED BY <1>2, <1>3 DEF LInv, TypeOK, QueueTypeOK, Expire

\* Such a transaction keeps the invariant.
LEMMA ServerStep ==
    ASSUME LInv, QueueTypeOK', ItemsKept, UNCHANGED <<libraryVars, edgeVars, taught>>,
           late' \subseteq late, events' \in 0..MaxEvents, publication' \in Publication
    PROVE  LInv'
<1> USE DEF libraryVars, edgeVars
<1>1. TypeOK' BY DEF LInv, TypeOK, LibraryTypeOK
<1>2. EdgeOK' BY DEF LInv, EdgeOK
<1>3. LedgerOK' BY DEF LInv, LedgerOK, PassOK, ItemsKept, item
<1>4. LedgersAgree' BY DEF LInv, LedgersAgree, ItemsKept
<1>5. TaughtOK' /\ LearnsOnce' BY DEF LInv, TaughtOK, LearnsOnce
<1>6. FilesOK'
  <2>1. \A f \in Files : f.work.item \in ItemId /\ f.work.claim \in Nat
    BY DEF Files, LInv, TypeOK, File, Claim
  <2>2. \A id \in ItemId : items[id].attempts \in Nat /\ items'[id].attempts \in Nat
    BY LearningAssumption DEF LInv, TypeOK, QueueTypeOK, Item
  <2>3. Files' = Files BY DEF Files
  <2>4. edge.pc \in {"claimed", "waiting"} => item \in ItemId /\ edge.work.claim \in Nat
    BY DEF LInv, EdgeOK, Claim, item
  <2>5. \A f \in Files : f.work.claim <= items'[f.work.item].attempts
    BY <2>1, <2>2 DEF LInv, FilesOK, ItemsKept
  <2>6. edge.pc \in {"claimed", "waiting"} => edge.work.claim <= items'[item].attempts
    BY <2>4, <2>2 DEF LInv, FilesOK, ItemsKept
  <2> QED BY <2>3, <2>5, <2>6 DEF LInv, FilesOK, ItemsKept, RequestName, item
<1> QED BY <1>1, <1>2, <1>3, <1>4, <1>5, <1>6 DEF LInv

LEMMA StaffKeepsLInv == ASSUME LInv, StaffNext \/ ClaimExpires PROVE LInv'
<1>1. events \in 0..MaxEvents /\ MaxEvents \in Nat BY EventAssumption DEF LInv, TypeOK
<1>2. events' \in 0..MaxEvents BY <1>1 DEF StaffNext, ClaimExpires, ServerOnly, Event
<1>3. UNCHANGED <<libraryVars, edgeVars, late, taught>> BY DEF StaffNext, ClaimExpires, ServerOnly
<1>4. QueueTypeOK' /\ ItemsKept
  BY WorkKeeps, CommandKeeps, ExpireKeeps DEF StaffNext, ClaimExpires
<1>5. publication' \in Publication
  <2>1. publication \in Publication BY DEF LInv, TypeOK
  <2>2. NotesRevoked \/ UNCHANGED publication BY DEF StaffNext, ClaimExpires, ServerOnly
  <2> QED BY <2>1, <2>2 DEF NotesRevoked, Publication
<1> QED BY <1>2, <1>3, <1>4, <1>5, ServerStep

-----------------------------------------------------------------------------
(* The pass *)

LEMMA ClaimKeeps ==
    ASSUME LInv, NEW id \in ItemId, LearningClaim(id)
    PROVE  /\ QueueTypeOK' /\ ItemsKept
           /\ items[id].attempts + 1 \in 1..MaxAttempts
           /\ items'[id].attempts = items[id].attempts + 1
<1>1. items \in [ItemId -> Item] BY DEF LInv, TypeOK, QueueTypeOK
<1>2. \A i \in ItemId : items[i].attempts \in 0..MaxAttempts BY <1>1 DEF Item
<1>3. items[id].attempts + 1 \in 1..MaxAttempts
  <2>1. Claimable(id) /\ ~(Claimable(id) /\ items[id].attempts >= MaxAttempts)
    BY DEF LearningClaim, Open, Exhausted
  <2>2. ~(items[id].attempts >= MaxAttempts) BY <2>1
  <2>3. items[id].attempts \in 0..MaxAttempts /\ MaxAttempts \in Nat BY <1>2, LearningAssumption
  <2> QED BY <2>2, <2>3
<1>4. \A i \in ItemId :
         /\ items'[i] \in Item /\ (items'[i].status # "absent" \/ items'[i] = items[i])
         /\ items'[i].status = "completed" => items'[i] = items[i]
         /\ i # id => items'[i].attempts = items[i].attempts
         /\ i = id => items'[i].attempts = items[i].attempts + 1
  <2> SUFFICES ASSUME NEW i \in ItemId
               PROVE  /\ items'[i] \in Item /\ (items'[i].status # "absent" \/ items'[i] = items[i])
                      /\ items'[i].status = "completed" => items'[i] = items[i]
                      /\ i # id => items'[i].attempts = items[i].attempts
                      /\ i = id => items'[i].attempts = items[i].attempts + 1
    OBVIOUS
  <2>1. CASE i = id
    <3>1. items'[i] = [items[i] EXCEPT !.status = "running", !.attempts = @ + 1, !.expired = FALSE]
      BY <2>1 DEF LearningClaim
    <3>2. items[i].attempts + 1 \in 0..MaxAttempts BY <1>3, <2>1
    <3> QED BY <3>1, <3>2, <2>1, <1>1 DEF Item
  <2>2. CASE i # id /\ Exhausted(i) /\ Earlier(i, id)
    <3>1. items'[i] = [items[i] EXCEPT !.status = "failed"] BY <2>2 DEF LearningClaim
    <3> QED BY <3>1, <2>2, <1>1 DEF Item
  <2>3. CASE i # id /\ ~(Exhausted(i) /\ Earlier(i, id))
    <3>1. items'[i] = items[i] BY <2>3 DEF LearningClaim
    <3> QED BY <3>1, <2>3, <1>1
  <2> QED BY <2>1, <2>2, <2>3
<1>5. items' \in [ItemId -> Item] BY <1>1, <1>4 DEF LearningClaim
<1>6. ItemsKept BY <1>2, <1>4 DEF ItemsKept, LInv, FilesOK
<1> QED BY <1>3, <1>4, <1>5, <1>6 DEF LInv, TypeOK, QueueTypeOK, LearningClaim

LEMMA NothingKeeps == ASSUME LInv, NothingToClaim PROVE QueueTypeOK' /\ ItemsKept
<1>1. items \in [ItemId -> Item] BY DEF LInv, TypeOK, QueueTypeOK
<1>2. \A i \in ItemId : items'[i] = items[i] \/ items'[i] = [items[i] EXCEPT !.status = "failed"]
  BY DEF NothingToClaim
<1>3. items' \in [ItemId -> Item] BY <1>1, <1>2 DEF NothingToClaim, Item
<1>4. ItemsKept
  <2> SUFFICES ASSUME NEW i \in ItemId
               PROVE  /\ items[i].attempts <= items'[i].attempts
                      /\ items'[i].status = "completed" => items'[i] = items[i]
                      /\ items'[i].status = "absent" => items'[i] = NoItem
    BY DEF ItemsKept
  <2>1. items[i].attempts \in Nat BY <1>1, LearningAssumption DEF Item
  <2>2. CASE items'[i] = items[i] BY <2>1, <2>2 DEF LInv, FilesOK
  <2>3. CASE items'[i] = [items[i] EXCEPT !.status = "failed"]
    <3>1. items'[i].status = "failed" /\ items'[i].attempts = items[i].attempts BY <2>3, <1>1 DEF Item
    <3> QED BY <3>1, <2>1
  <2> QED BY <1>2, <2>2, <2>3
<1> QED BY <1>3, <1>4 DEF LInv, TypeOK, QueueTypeOK, NothingToClaim

\* What a step of the pass has to show when it leaves the ledger and the acknowledgements alone.
LEMMA PassStep ==
    ASSUME LInv, QueueTypeOK', ItemsKept, LibraryTypeOK', UNCHANGED <<processed, taught, late>>,
           edge' \in Edge, EdgeOK', PassOK', FilesOK',
           requests' \subseteq File, responses' \subseteq File, learner' \in File \cup {None},
           events' \in 0..MaxEvents, publication' \in Publication
    PROVE  LInv'
<1>1. TypeOK' BY DEF LInv, TypeOK
<1>2. LedgerOK' BY DEF LInv, LedgerOK, ItemsKept
<1>3. LedgersAgree' BY DEF LInv, LedgersAgree, ItemsKept
<1>4. TaughtOK' /\ LearnsOnce' BY DEF LInv, TaughtOK, LearnsOnce
<1> QED BY <1>1, <1>2, <1>3, <1>4 DEF LInv

LEMMA FilesTypes ==
    ASSUME LInv
    PROVE  /\ \A f \in Files : f \in File /\ f.work.item \in ItemId /\ f.work.claim \in Nat
           /\ \A id \in ItemId : items[id].attempts \in Nat
<1>1. \A f \in Files : f \in File BY DEF Files, LInv, TypeOK
<1>2. \A f \in File : f.work.item \in ItemId /\ f.work.claim \in Nat BY DEF File, Claim
<1> QED BY <1>1, <1>2, LearningAssumption DEF LInv, TypeOK, QueueTypeOK, Item

\* Files may go, and a pass that waits for none meets none.
LEMMA FewerFiles ==
    ASSUME LInv, QueueTypeOK', ItemsKept, Files' \subseteq Files,
           edge'.pc \notin {"claimed", "waiting"}
    PROVE  FilesOK'
<1>1. \A id \in ItemId : items'[id].attempts \in Nat
  BY LearningAssumption DEF QueueTypeOK, Item
<1>2. \A f \in Files : f.work.claim <= items'[f.work.item].attempts
  BY <1>1, FilesTypes DEF LInv, FilesOK, ItemsKept
<1>3. \A f \in Files : f.name = RequestName(f.work) BY DEF LInv, FilesOK
<1>4. \A id \in ItemId : items'[id].status = "absent" => items'[id] = NoItem BY DEF ItemsKept
<1> QED BY <1>2, <1>3, <1>4 DEF FilesOK, RequestName

LEMMA NothingMoved ==
    ASSUME LInv, UNCHANGED queueVars
    PROVE  QueueTypeOK' /\ ItemsKept
<1>1. \A id \in ItemId : items[id].attempts \in Nat
  BY LearningAssumption DEF LInv, TypeOK, QueueTypeOK, Item
<1> QED BY <1>1 DEF LInv, TypeOK, QueueTypeOK, queueVars, ItemsKept, FilesOK

LEMMA DecidesKeeps ==
    ASSUME LInv, edge.pc \in {"claimed", "waiting", "judging", "admitting"}, UNCHANGED processed,
           NEW status \in {"changed", "activated", "no_change", "reviewed", "rejected"},
           NEW version \in Version \cup {None}, Decides(status, version)
    PROVE  edge' \in Edge /\ EdgeOK' /\ PassOK' /\ edge'.pc = "recording"
<1> DEFINE r == [status |-> status, version |-> version, origin |-> item]
<1>1. edge \in Edge /\ edge.work \in Claim BY DEF LInv, TypeOK, EdgeOK
<1>2. item \in ItemId BY <1>1 DEF Claim, item
<1>3. r \in Result BY <1>2 DEF Result
<1>4. edge' = [edge EXCEPT !.pc = "recording", !.result = r] BY DEF Decides
<1> HIDE DEF r
<1>5. edge' \in Edge BY <1>1, <1>3, <1>4 DEF Edge, EdgePc
<1>6. edge'.pc = "recording" /\ edge'.work = edge.work /\ edge'.result = r BY <1>1, <1>4 DEF Edge
<1>7. item' = item BY <1>6 DEF item
<1> QED BY <1>1, <1>3, <1>5, <1>6, <1>7 DEF EdgeOK, PassOK, LInv, LedgerOK


-----------------------------------------------------------------------------
(* The steps of the pass *)

LEMMA LibraryStays ==
    ASSUME LInv, UNCHANGED libraryVars
    PROVE  LibraryTypeOK' /\ UNCHANGED processed
BY DEF LInv, TypeOK, LibraryTypeOK, libraryVars

LEMMA EdgeTypes ==
    ASSUME LInv
    PROVE  /\ edge \in Edge /\ events \in 0..MaxEvents /\ publication \in Publication
           /\ requests \subseteq File /\ responses \subseteq File /\ learner \in File \cup {None}
           /\ processed \in [ItemId -> Result \cup {None}]
           /\ edge.pc \notin {"idle", "publishing"} =>
                 edge.work \in Claim /\ item \in ItemId /\ edge.work.claim \in 1..MaxAttempts
<1>1. edge.work \in Claim => item \in ItemId /\ edge.work.claim \in 1..MaxAttempts BY DEF Claim, item
<1> QED BY <1>1 DEF LInv, TypeOK, LibraryTypeOK, EdgeOK

LEMMA StartKeeps == ASSUME LInv, NEW id \in ItemId, StartPass(id) PROVE LInv'
<1> DEFINE c == [item |-> id, claim |-> items[id].attempts + 1, seen |-> {}]
           a == Kind(id) # "skill_change" /\ work[id[2]].accepted
           pc == IF processed[id] = None THEN "claimed" ELSE "finishing"
<1>1. /\ QueueTypeOK' /\ ItemsKept
      /\ items[id].attempts + 1 \in 1..MaxAttempts
      /\ items'[id].attempts = items[id].attempts + 1
  BY ClaimKeeps DEF StartPass
<1>2. c \in Claim BY <1>1 DEF Claim
<1>3. edge' = [Resting EXCEPT !.work = c, !.pc = pc, !.result = processed[id], !.accepted = a]
  BY DEF StartPass
<1>4. a \in BOOLEAN /\ pc \in EdgePc /\ c.item = id /\ c.claim = items[id].attempts + 1
  BY DEF EdgePc
<1>5. processed[id] \in Result \cup {None} BY EdgeTypes
<1>6. UNCHANGED <<requests, responses, learner, processed, taught, late, publication, events>> /\ LibraryTypeOK'
  BY LibraryStays DEF StartPass, NoFiles, libraryVars
<1>7. pc \in {"claimed", "finishing"} /\ (pc = "claimed" <=> processed[id] = None) OBVIOUS
<1> HIDE DEF c, a, pc
<1>8. edge' = [pc |-> pc, work |-> c, accepted |-> a, answer |-> None, result |-> processed[id]]
  BY <1>3 DEF Resting
<1>9. edge' \in Edge BY <1>2, <1>4, <1>5, <1>8 DEF Edge
<1>10. item' = id BY <1>4, <1>8 DEF item
<1>11. EdgeOK' BY <1>2, <1>5, <1>7, <1>8 DEF EdgeOK
<1>12. PassOK' BY <1>6, <1>7, <1>8, <1>10 DEF PassOK
<1>13. FilesOK'
  <2>1. Files' = Files BY <1>6 DEF Files
  <2>2. \A i \in ItemId : items'[i].attempts \in Nat /\ items[i].attempts \in Nat
    BY <1>1, FilesTypes, LearningAssumption DEF QueueTypeOK, Item
  <2>3. \A f \in Files : /\ f.name = RequestName(f.work)
                         /\ f.work.claim <= items[f.work.item].attempts
    BY DEF LInv, FilesOK
  <2>4. \A f \in Files : f.work.claim <= items'[f.work.item].attempts
    BY <1>1, <2>2, <2>3, FilesTypes DEF ItemsKept
  <2>5. \A f \in Files : f.name # RequestName(c)
    <3> SUFFICES ASSUME NEW f \in Files, f.name = RequestName(c) PROVE FALSE OBVIOUS
    <3>1. f.work.item = id /\ f.work.claim = items[id].attempts + 1 BY <1>4, <2>3 DEF RequestName
    <3> QED BY <2>2, <2>3, <3>1
  <2>6. edge'.work.claim <= items'[id].attempts BY <1>1, <1>4, <1>8, <2>2
  <2>7. edge'.pc # "waiting" /\ edge'.work = c BY <1>7, <1>8
  <2>8. \A i \in ItemId : items'[i].status = "absent" => items'[i] = NoItem BY <1>1 DEF ItemsKept
  <2> QED BY <2>1, <2>3, <2>4, <2>5, <2>6, <2>7, <2>8, <1>10 DEF FilesOK, RequestName
<1>14. requests' \subseteq File /\ responses' \subseteq File /\ learner' \in File \cup {None}
       /\ events' \in 0..MaxEvents /\ publication' \in Publication
  BY <1>6, EdgeTypes
<1> QED BY <1>1, <1>6, <1>9, <1>11, <1>12, <1>13, <1>14, PassStep

LEMMA IdleKeeps == ASSUME LInv, IdlePass PROVE LInv'
<1>1. QueueTypeOK' /\ ItemsKept BY NothingKeeps DEF IdlePass
<1>2. UNCHANGED <<requests, responses, learner, processed, taught, late, publication, events>> /\ LibraryTypeOK'
  BY LibraryStays DEF IdlePass, NoFiles, libraryVars
<1>3. edge' = [edge EXCEPT !.pc = "publishing"] BY DEF IdlePass, Goes
<1>4. edge' \in Edge /\ edge'.pc = "publishing" BY <1>3, EdgeTypes DEF Edge, EdgePc
<1>5. EdgeOK' /\ PassOK' BY <1>4 DEF EdgeOK, PassOK
<1>6. FilesOK' BY <1>1, <1>2, <1>4, FewerFiles DEF Files
<1>7. requests' \subseteq File /\ responses' \subseteq File /\ learner' \in File \cup {None}
      /\ events' \in 0..MaxEvents /\ publication' \in Publication
  BY <1>2, EdgeTypes
<1> QED BY <1>1, <1>2, <1>4, <1>5, <1>6, <1>7, PassStep

\* A step that decides the result.
LEMMA DecisionStep ==
    ASSUME LInv, edge.pc \in {"claimed", "waiting", "judging", "admitting"},
           NEW status \in {"changed", "activated", "no_change", "reviewed", "rejected"},
           NEW version \in Version \cup {None}, Decides(status, version),
           LibraryTypeOK', UNCHANGED <<processed, queueVars, taught, late, publication, events, learner>>,
           requests' \subseteq requests, responses' \subseteq responses
    PROVE  LInv'
<1>1. QueueTypeOK' /\ ItemsKept BY NothingMoved
<1>2. edge' \in Edge /\ EdgeOK' /\ PassOK' /\ edge'.pc = "recording" BY DecidesKeeps
<1>3. FilesOK' BY <1>1, <1>2, FewerFiles DEF Files
<1>4. requests' \subseteq File /\ responses' \subseteq File /\ learner' \in File \cup {None}
      /\ events' \in 0..MaxEvents /\ publication' \in Publication
  BY EdgeTypes
<1> QED BY <1>1, <1>2, <1>3, <1>4, PassStep

LEMMA ChangeKeeps == ASSUME LInv, ApplyChange PROVE LInv'
<1> DEFINE c == commands[item[2]]
<1>1. item \in ItemId /\ item[2] \in 1..MaxCommands
  BY EdgeTypes DEF ApplyChange, Kind, ItemId, Trigger
<1>2. c \in [skill: Skill, version: Version \cup {None}]
  BY <1>1 DEF LInv, TypeOK, QueueTypeOK
<1>3. edge.pc = "claimed" /\ UNCHANGED <<queueVars, taught, late, publication, events, learner, requests, responses>>
  BY DEF ApplyChange, NoFiles
<1>4. CASE ChangeActive(c.skill, c.version) /\ Decides("changed", c.version)
  <2>1. LibraryTypeOK' /\ UNCHANGED processed
    BY <1>2, <1>4 DEF LInv, TypeOK, LibraryTypeOK, ChangeActive
  <2> QED BY <1>2, <1>3, <1>4, <2>1, DecisionStep
<1>5. CASE Decides("rejected", None) /\ UNCHANGED libraryVars
  BY <1>3, <1>5, LibraryStays, DecisionStep
<1> QED BY <1>4, <1>5 DEF ApplyChange

LEMMA GatherKeeps ==
    ASSUME LInv, GatherEpisode \/ GatherDemonstration \/ GatherChat
    PROVE  LInv'
<1>1. PICK kinds, mayTeach : Gathers(kinds, mayTeach)
  BY DEF GatherEpisode, GatherDemonstration, GatherChat
<1>2. edge.pc = "claimed" /\ UNCHANGED <<queueVars, libraryVars, late, taught, publication, events, responses, learner>>
  BY <1>1 DEF Gathers, EdgeOnly
<1>3. LibraryTypeOK' /\ UNCHANGED processed BY <1>2, LibraryStays
<1>4. CASE Decides("rejected", None) /\ UNCHANGED requests BY <1>2, <1>3, <1>4, DecisionStep
<1>5. CASE Asks
  <2> DEFINE asked == [edge.work EXCEPT !.seen = Catalog(Assigned(item[2]))]
             file == [name |-> RequestName(asked), work |-> asked]
  <2>1. edge.work \in Claim /\ item \in ItemId /\ edge.work.claim \in 1..MaxAttempts /\ edge \in Edge
    BY <1>2, EdgeTypes
  <2>2. Catalog(Assigned(item[2])) \subseteq Version
    BY DEF Catalog, Actives, LInv, TypeOK, LibraryTypeOK
  <2>3. asked \in Claim /\ asked.item = item /\ asked.claim = edge.work.claim
    BY <2>1, <2>2 DEF Claim, item
  <2>4. edge' = [edge EXCEPT !.pc = "waiting", !.work = asked] /\ requests' = requests \cup {file}
    BY <1>5 DEF Asks
  <2> HIDE DEF asked
  <2>5. edge' \in Edge /\ edge'.pc = "waiting" /\ edge'.work = asked
    BY <2>1, <2>3, <2>4 DEF Edge, EdgePc
  <2>6. RequestName(asked) = RequestName(edge.work) /\ RequestName(asked) \in ItemId \X (1..MaxAttempts)
    BY <2>1, <2>3 DEF RequestName, item
  <2>7. file \in File /\ file.name = RequestName(asked) /\ file.work = asked
    BY <2>3, <2>6 DEF File
  <2> HIDE DEF file
  <2>8. item' = item BY <2>3, <2>5 DEF item
  <2>9. EdgeOK' BY <2>3, <2>5 DEF EdgeOK
  <2>10. PassOK' BY <1>2, <1>3, <2>5, <2>8 DEF LInv, LedgerOK, PassOK
  <2>11. QueueTypeOK' /\ ItemsKept /\ UNCHANGED items BY <1>2, NothingMoved DEF queueVars
  <2>12. FilesOK'
    <3>1. Files' \subseteq Files \cup {file} BY <1>2, <2>4 DEF Files
    <3>2. \A f \in Files : /\ f.name = RequestName(f.work)
                           /\ f.work.claim <= items[f.work.item].attempts
                           /\ f.name # RequestName(asked)
      BY <1>2, <2>6 DEF LInv, FilesOK
    <3>3. asked.claim <= items[item].attempts BY <1>2, <2>3 DEF LInv, FilesOK
    <3>4. \A f \in Files' : /\ f.name = RequestName(f.work)
                            /\ f.work.claim <= items[f.work.item].attempts
                            /\ f.name = RequestName(asked) => f.work = asked
      BY <2>3, <2>7, <3>1, <3>2, <3>3
    <3>5. \A id \in ItemId : items'[id].status = "absent" => items'[id] = NoItem
      BY <2>11 DEF LInv, FilesOK
    <3> QED BY <2>3, <2>5, <2>8, <2>11, <3>3, <3>4, <3>5 DEF FilesOK, RequestName
  <2>13. requests' \subseteq File /\ responses' \subseteq File /\ learner' \in File \cup {None}
         /\ events' \in 0..MaxEvents /\ publication' \in Publication
    BY <1>2, <2>4, <2>7, EdgeTypes
  <2> QED BY <1>2, <1>3, <2>5, <2>9, <2>10, <2>11, <2>12, <2>13, PassStep
<1> QED BY <1>1, <1>4, <1>5 DEF Gathers

LEMMA ReadKeeps == ASSUME LInv, ReadResponse PROVE LInv'
<1>0. PICK f \in responses : \E answer \in Proposals(f.work) :
         edge' = [edge EXCEPT !.pc = "judging", !.answer = answer]
  BY DEF ReadResponse
<1>1. PICK answer \in Proposals(f.work) : edge' = [edge EXCEPT !.pc = "judging", !.answer = answer]
  BY <1>0
<1>2. edge.pc = "waiting" /\ UNCHANGED <<queueVars, libraryVars, late, taught, publication, events, learner>>
      /\ requests' \subseteq requests /\ responses' \subseteq responses
  BY DEF ReadResponse, EdgeOnly, Forgotten
<1>3. answer \in Answer /\ (answer.says = "teaches" => answer.candidate \in Version)
  <2>1. f.work \in Claim BY EdgeTypes DEF File
  <2>2. f.work.seen \subseteq Version BY <2>1 DEF Claim
  <2>3. CASE answer \in {NoCandidate("nothing"), NoCandidate("bad")}
    BY <2>3 DEF NoCandidate, Answer
  <2>4. CASE answer \in [says: {"teaches"},
                         previous: Related(f.work.item[2], Kind(f.work.item), f.work.seen),
                         candidate: Version]
    <3>1. Related(f.work.item[2], Kind(f.work.item), f.work.seen) \subseteq Version \cup {None}
      BY <2>2 DEF Related
    <3> QED BY <2>4, <3>1 DEF Answer
  <2> QED BY <2>3, <2>4 DEF Proposals
<1>4. LibraryTypeOK' /\ UNCHANGED processed BY <1>2, LibraryStays
<1>5. edge' \in Edge /\ edge'.pc = "judging" /\ edge'.work = edge.work /\ edge'.answer = answer
  BY <1>1, <1>3, EdgeTypes DEF Edge, EdgePc
<1>6. item' = item BY <1>5 DEF item
<1>7. EdgeOK' BY <1>2, <1>3, <1>5, EdgeTypes DEF EdgeOK
<1>8. PassOK' BY <1>2, <1>4, <1>5, <1>6 DEF LInv, LedgerOK, PassOK
<1>9. QueueTypeOK' /\ ItemsKept BY <1>2, NothingMoved
<1>10. FilesOK' BY <1>2, <1>5, <1>9, FewerFiles DEF Files
<1>11. requests' \subseteq File /\ responses' \subseteq File /\ learner' \in File \cup {None}
       /\ events' \in 0..MaxEvents /\ publication' \in Publication
  BY <1>2, EdgeTypes
<1> QED BY <1>2, <1>4, <1>5, <1>7, <1>8, <1>9, <1>10, <1>11, PassStep

LEMMA JudgeKeeps == ASSUME LInv, LearnerTimesOut \/ Dismiss \/ Recheck PROVE LInv'
<1>1. edge.pc \in {"waiting", "judging"}
      /\ UNCHANGED <<queueVars, libraryVars, late, taught, publication, events, learner>>
      /\ requests' \subseteq requests /\ responses' \subseteq responses
  BY DEF LearnerTimesOut, Dismiss, Recheck, EdgeOnly, NoFiles, Forgotten
<1>2. LibraryTypeOK' /\ UNCHANGED processed BY <1>1, LibraryStays
<1>3. ASSUME NEW status \in {"changed", "activated", "no_change", "reviewed", "rejected"},
             Decides(status, None)
      PROVE  LInv'
  BY <1>1, <1>2, <1>3, DecisionStep
<1>4. CASE LearnerTimesOut BY <1>3, <1>4 DEF LearnerTimesOut
<1>5. CASE Dismiss BY <1>3, <1>5 DEF Dismiss
<1>6. CASE Recheck
  <2>1. CASE Decides("rejected", None) BY <1>3, <2>1
  <2>2. CASE Goes("admitting")
    <3>1. edge.pc = "judging" /\ edge.answer.says = "teaches" BY <1>6 DEF Recheck
    <3>2. edge' \in Edge /\ edge'.pc = "admitting" /\ edge'.work = edge.work /\ edge'.answer = edge.answer
      BY <2>2, EdgeTypes DEF Goes, Edge, EdgePc
    <3>3. item' = item BY <3>2 DEF item
    <3>4. EdgeOK' BY <3>1, <3>2 DEF LInv, EdgeOK
    <3>5. PassOK' BY <1>2, <3>1, <3>2, <3>3 DEF LInv, LedgerOK, PassOK
    <3>6. QueueTypeOK' /\ ItemsKept BY <1>1, NothingMoved
    <3>7. FilesOK' BY <1>1, <3>2, <3>6, FewerFiles DEF Files
    <3>8. requests' \subseteq File /\ responses' \subseteq File /\ learner' \in File \cup {None}
          /\ events' \in 0..MaxEvents /\ publication' \in Publication
      BY <1>1, EdgeTypes
    <3> QED BY <1>1, <1>2, <3>2, <3>4, <3>5, <3>6, <3>7, <3>8, PassStep
  <2> QED BY <1>6, <2>1, <2>2 DEF Recheck
<1> QED BY <1>4, <1>5, <1>6

LEMMA AdmitKeeps == ASSUME LInv, Admit PROVE LInv'
<1> DEFINE a == edge.answer
           c == a.candidate
           result == Admitted(a)
           key == AdmissionKey(item)
<1>1. edge.pc = "admitting" /\ UNCHANGED <<queueVars, late, publication, events, requests, responses, learner>>
  BY DEF Admit, NoFiles
<1>2. CASE UNCHANGED <<libraryVars, taught>> /\ (Decides("no_change", None) \/ Decides("rejected", None))
  BY <1>1, <1>2, LibraryStays, DecisionStep
<1>3. CASE /\ Install(c, key, result)
           /\ edge' = [edge EXCEPT !.pc = "recording", !.result = result]
           /\ taught' = [taught EXCEPT ![item] = @ \cup {c}]
  <2>1. c \in Version /\ item \in ItemId /\ edge \in Edge /\ processed[item] = None
    BY <1>1, EdgeTypes DEF LInv, EdgeOK, LedgerOK, PassOK
  <2>2. result \in Result /\ result # None
    <3>1. result \in Result BY <2>1 DEF Admitted, Result
    <3> QED BY <3>1, NoneIsNoResult
  <2>3. processed \in [ItemId -> Result \cup {None}] /\ processed' = [processed EXCEPT ![key] = result]
        /\ Kind(key) = "learn" /\ taught \in [ItemId -> SUBSET Version]
    BY <1>3, EdgeTypes DEF Install, AdmissionKey, Learn, Kind, LInv, TypeOK
  <2> HIDE DEF c, result, key
  <2>4. c.skill \in Skill BY <2>1 DEF Version
  <2>5. LibraryTypeOK' BY <1>3, <2>1, <2>2, <2>3, <2>4 DEF Install, LibraryTypeOK, LInv, TypeOK
  <2>6. edge' \in Edge /\ edge'.pc = "recording" /\ edge'.work = edge.work /\ edge'.result = result
    BY <1>3, <2>1, <2>2 DEF Edge, EdgePc
  <2>7. item' = item BY <2>6 DEF item
  <2>8. \A id \in ItemId : Kind(id) # "learn" => processed'[id] = processed[id] BY <2>3
  <2>9. \A id \in ItemId : processed[id] # None => processed'[id] # None BY <2>2, <2>3
  <2>10. QueueTypeOK' /\ UNCHANGED items BY <1>1, NothingMoved DEF queueVars
  <2>11. TypeOK'
    <3>1. taught' \in [ItemId -> SUBSET Version] BY <1>3, <2>1, <2>3
    <3> QED BY <1>1, <2>5, <2>6, <2>10, <3>1 DEF LInv, TypeOK
  <2>12. EdgeOK' BY <1>1, <2>2, <2>6, EdgeTypes DEF EdgeOK
  <2>13. PassOK' BY <2>1, <2>6, <2>7, <2>8 DEF PassOK
  <2>14. LedgerOK'
    <3>1. \A m \in late : m.item \in ItemId BY DEF LInv, TypeOK
    <3> QED BY <1>1, <2>8, <2>10, <2>13, <3>1 DEF LInv, LedgerOK
  <2>15. LedgersAgree' BY <2>8, <2>10 DEF LInv, LedgersAgree
  <2>16. ASSUME NEW j \in Job
         PROVE  /\ taught'[Learn(j)] # {} => processed'[Learn(j)] # None
                /\ \A v, w \in taught'[Learn(j)] : v = w
    <3>1. Learn(j) \in ItemId /\ Kind(Learn(j)) = "learn" BY LearnIdentity
    <3>2. CASE item # Learn(j)
      <4>1. taught'[Learn(j)] = taught[Learn(j)] BY <1>3, <2>3, <3>1, <3>2
      <4> QED BY <2>9, <3>1, <4>1 DEF LInv, TaughtOK, LearnsOnce
    <3>3. CASE item = Learn(j)
      <4>1. key = item BY <3>3 DEF key, AdmissionKey, Learn
      <4>2. taught[item] = {} BY <2>1, <3>3 DEF LInv, TaughtOK
      <4>3. taught'[item] = {c} BY <1>3, <2>1, <2>3, <4>2
      <4>4. processed'[item] # None BY <2>1, <2>2, <2>3, <4>1
      <4> QED BY <3>3, <4>3, <4>4
    <3> QED BY <3>2, <3>3
  <2>17. TaughtOK' /\ LearnsOnce' BY <2>16 DEF TaughtOK, LearnsOnce
  <2>18. ItemsKept BY <1>1, NothingMoved
  <2>19. FilesOK' BY <1>1, <2>6, <2>10, <2>18, FewerFiles DEF Files
  <2> QED BY <2>11, <2>12, <2>14, <2>15, <2>17, <2>19 DEF LInv
<1> QED BY <1>2, <1>3 DEF Admit

LEMMA RecordKeeps == ASSUME LInv, RecordResult PROVE LInv'
<1>1. edge.pc = "recording" /\ UNCHANGED <<queueVars, late, publication, events, requests, responses, learner, taught>>
      /\ UNCHANGED <<versions, active, qualified>>
      /\ processed' = [processed EXCEPT ![item] = edge.result]
      /\ edge' = [edge EXCEPT !.pc = "finishing"]
  BY DEF RecordResult, NoFiles, Record, Goes
<1>2. edge.result \in Result /\ edge.result # None /\ item \in ItemId /\ edge \in Edge
      /\ processed \in [ItemId -> Result \cup {None}]
  BY <1>1, EdgeTypes, NoneIsNoResult DEF LInv, EdgeOK
<1>3. LibraryTypeOK' BY <1>1, <1>2 DEF LInv, TypeOK, LibraryTypeOK
<1>4. edge' \in Edge /\ edge'.pc = "finishing" /\ edge'.work = edge.work /\ edge'.result = edge.result
  BY <1>1, <1>2 DEF Edge, EdgePc
<1>5. item' = item BY <1>4 DEF item
<1>6. QueueTypeOK' /\ ItemsKept /\ UNCHANGED items BY <1>1, NothingMoved DEF queueVars
<1>7. TypeOK' BY <1>1, <1>3, <1>4, <1>6 DEF LInv, TypeOK
<1>8. EdgeOK' BY <1>1, <1>2, <1>4, EdgeTypes DEF EdgeOK
<1>9. PassOK' BY <1>1, <1>2, <1>4, <1>5 DEF PassOK
<1>10. Kind(item) # "learn" => processed[item] = None BY <1>1 DEF LInv, LedgerOK, PassOK
<1>11. \A m \in late : m.item \in ItemId /\ m.result \in Result BY DEF LInv, TypeOK
<1>12. \A m \in late : Kind(m.item) # "learn" => m.item # item
  BY <1>10, <1>11, NoneIsNoResult DEF LInv, LedgerOK
<1>13. \A id \in ItemId : items[id].status = "completed" /\ Kind(id) # "learn" => id # item
  BY <1>10, NoneIsNoResult DEF LInv, LedgerOK, LedgersAgree
<1>14. LedgerOK' BY <1>1, <1>2, <1>6, <1>9, <1>11, <1>12 DEF LInv, LedgerOK
<1>15. LedgersAgree' BY <1>1, <1>2, <1>6, <1>13 DEF LInv, LedgersAgree
<1>16. TaughtOK' /\ LearnsOnce' BY <1>1, <1>2, LearnIdentity DEF LInv, TaughtOK, LearnsOnce
<1>17. FilesOK' BY <1>1, <1>4, <1>6, FewerFiles DEF Files
<1> QED BY <1>7, <1>8, <1>14, <1>15, <1>16, <1>17 DEF LInv

LEMMA FinishItemKeeps ==
    ASSUME LInv, NEW id \in ItemId, NEW claim, NEW result \in Result,
           Kind(id) # "learn" => result = processed[id], LearningFinish(id, claim, result)
    PROVE  QueueTypeOK' /\ ItemsKept
<1>1. items \in [ItemId -> Item] /\ items' = [items EXCEPT ![id].status = "completed", ![id].result = result]
  BY DEF LInv, TypeOK, QueueTypeOK, LearningFinish
<1>2. items' \in [ItemId -> Item] BY <1>1 DEF Item
<1>3. ItemsKept
  <2> SUFFICES ASSUME NEW i \in ItemId
               PROVE  /\ items[i].attempts <= items'[i].attempts
                      /\ items'[i].status = "completed" =>
                            \/ items'[i] = items[i]
                            \/ /\ items'[i].result \in Result
                               /\ Kind(i) # "learn" => items'[i].result = processed[i]
                      /\ items'[i].status = "absent" => items'[i] = NoItem
    BY DEF ItemsKept
  <2>1. items[i].attempts \in Nat BY <1>1, LearningAssumption DEF Item
  <2>2. CASE i # id BY <1>1, <2>1, <2>2 DEF LInv, FilesOK
  <2>3. CASE i = id
    <3>1. items'[i].status = "completed" /\ items'[i].result = result
          /\ items'[i].attempts = items[i].attempts
      BY <1>1, <2>3 DEF Item
    <3> QED BY <2>1, <2>3, <3>1
  <2> QED BY <2>2, <2>3
<1> QED BY <1>2, <1>3 DEF LInv, TypeOK, QueueTypeOK, LearningFinish

\* A pass ends, or goes on to publish.
LEMMA RestStep ==
    ASSUME LInv, QueueTypeOK', ItemsKept, UNCHANGED <<libraryVars, late, taught>>,
           requests' \subseteq requests, responses' \subseteq responses, UNCHANGED learner,
           events' \in 0..MaxEvents, publication' \in Publication, edge' = Resting \/ Goes("publishing")
    PROVE  LInv'
<1>1. LibraryTypeOK' /\ UNCHANGED processed BY LibraryStays DEF libraryVars
<1>2. Resting \in Edge BY DEF Resting, Edge, EdgePc
<1>3. edge' \in Edge /\ edge'.pc \in {"idle", "publishing"}
  BY <1>2, EdgeTypes DEF Goes, Edge, EdgePc, Resting
<1>4. EdgeOK' /\ PassOK' BY <1>3 DEF EdgeOK, PassOK
<1>5. FilesOK' BY <1>3, FewerFiles DEF Files
<1>6. requests' \subseteq File /\ responses' \subseteq File /\ learner' \in File \cup {None}
  BY EdgeTypes
<1> QED BY <1>1, <1>3, <1>4, <1>5, <1>6, PassStep

\* A step that leaves the pass where it is.
LEMMA BesideThePass ==
    ASSUME LInv, QueueTypeOK', ItemsKept, LibraryTypeOK', UNCHANGED <<edge, processed, late, taught>>,
           Files' \subseteq Files, requests' \subseteq File, responses' \subseteq File,
           learner' \in File \cup {None}, events' \in 0..MaxEvents, publication' \in Publication
    PROVE  LInv'
<1>1. edge' \in Edge /\ item' = item BY EdgeTypes DEF item
<1>2. EdgeOK' /\ PassOK' BY <1>1 DEF LInv, EdgeOK, LedgerOK, PassOK
<1>3. \A id \in ItemId : items[id].attempts \in Nat /\ items'[id].attempts \in Nat
  BY FilesTypes, LearningAssumption DEF QueueTypeOK, Item
<1>4. \A f \in Files : f.name = RequestName(f.work) /\ f.work.claim <= items'[f.work.item].attempts
  BY <1>3, FilesTypes DEF LInv, FilesOK, ItemsKept
<1>5. edge.pc \in {"claimed", "waiting"} => edge.work.claim <= items'[item].attempts
  <2>1. edge.pc \in {"claimed", "waiting"} => item \in ItemId /\ edge.work.claim \in Nat
    BY EdgeTypes
  <2> QED BY <1>3, <2>1 DEF LInv, FilesOK, ItemsKept
<1>6. \A id \in ItemId : items'[id].status = "absent" => items'[id] = NoItem BY DEF ItemsKept
<1>7. FilesOK' BY <1>1, <1>4, <1>5, <1>6 DEF LInv, FilesOK, RequestName
<1> QED BY <1>1, <1>2, <1>7, PassStep

LEMMA FinishKeeps == ASSUME LInv, Finish PROVE LInv'
<1>1. edge.pc = "finishing" /\ UNCHANGED <<libraryVars, late, taught, publication, events, requests, responses, learner>>
      /\ (edge' = Resting \/ Goes("publishing"))
  BY DEF Finish, NoFiles
<1>2. edge.result \in Result /\ item \in ItemId /\ edge.result = processed[item] /\ events \in 0..MaxEvents
  BY <1>1, EdgeTypes DEF LInv, EdgeOK, LedgerOK, PassOK
<1>3. QueueTypeOK' /\ ItemsKept
  <2>1. CASE LearningFinish(item, edge.work.claim, edge.result) BY <1>2, <2>1, FinishItemKeeps
  <2>2. CASE UNCHANGED queueVars BY <2>2, NothingMoved
  <2> QED BY <2>1, <2>2 DEF Finish
<1> QED BY <1>1, <1>2, <1>3, EdgeTypes, RestStep

LEMMA PublishSkills ==
    ASSUME LInv, SkillsPublish(versions)
    PROVE  QueueTypeOK' /\ ItemsKept
<1>1. UNCHANGED <<work, items, commands>> /\ packages' \subseteq Version
  BY DEF SkillsPublish, LInv, TypeOK, QueueTypeOK, LibraryTypeOK
<1>2. \A id \in ItemId : items[id].attempts \in Nat BY FilesTypes
<1> QED BY <1>1, <1>2 DEF LInv, TypeOK, QueueTypeOK, ItemsKept, FilesOK

LEMMA NoPublicationTypes == NoPublication \in Publication BY DEF NoPublication, Publication

LEMMA CheckKeeps == ASSUME LInv, NEW p \in Cited, CheckEvidence(p) PROVE LInv'
<1>1. edge.pc = "publishing" /\ UNCHANGED <<queueVars, libraryVars, late, taught, events, requests, responses, learner>>
  BY DEF CheckEvidence, NoFiles
<1>2. QueueTypeOK' /\ ItemsKept BY <1>1, NothingMoved
<1>3. events' \in 0..MaxEvents BY <1>1, EdgeTypes
<1>4. CASE edge' = edge /\ publication' = [publication EXCEPT !.checked = @ \cup {p}]
  <2>1. p \in Version \X Job BY DEF Cited, LInv, TypeOK, LibraryTypeOK
  <2>2. publication' \in Publication BY <1>4, <2>1, EdgeTypes DEF Publication
  <2>3. LibraryTypeOK' /\ UNCHANGED processed BY <1>1, LibraryStays
  <2>4. Files' = Files BY <1>1 DEF Files
  <2> QED BY <1>1, <1>2, <1>3, <1>4, <2>2, <2>3, <2>4, EdgeTypes, BesideThePass
<1>5. CASE EndsPublication
  <2>1. publication' \in Publication /\ edge' = Resting BY <1>5, NoPublicationTypes DEF EndsPublication
  <2> QED BY <1>1, <1>2, <1>3, <2>1, RestStep
<1> QED BY <1>4, <1>5 DEF CheckEvidence

LEMMA PublishKeeps == ASSUME LInv, Publish PROVE LInv'
<1>1. UNCHANGED <<versions, active, processed, late, taught, events, requests, responses, learner>>
      /\ edge' = Resting /\ publication' = NoPublication
  BY DEF Publish, NoFiles, EndsPublication
<1>2. QueueTypeOK' /\ ItemsKept BY PublishSkills DEF Publish
<1>3. LibraryTypeOK'
  BY <1>1 DEF Publish, LInv, TypeOK, LibraryTypeOK
<1>4. edge' \in Edge /\ edge'.pc = "idle" BY <1>1 DEF Resting, Edge, EdgePc
<1>5. EdgeOK' /\ PassOK' BY <1>4 DEF EdgeOK, PassOK
<1>6. FilesOK' BY <1>1, <1>2, <1>4, FewerFiles DEF Files
<1> QED BY <1>1, <1>2, <1>3, <1>4, <1>5, <1>6, NoPublicationTypes, EdgeTypes, PassStep

LEMMA EdgeKeepsLInv == ASSUME LInv, EdgeNext PROVE LInv'
BY StartKeeps, IdleKeeps, ChangeKeeps, GatherKeeps, ReadKeeps, JudgeKeeps, AdmitKeeps, RecordKeeps,
   FinishKeeps, CheckKeeps, PublishKeeps DEF EdgeNext, PassBegins

-----------------------------------------------------------------------------
(* The learner, faults and the operator *)

LEMMA LearnerKeepsLInv == ASSUME LInv, LearnerNext PROVE LInv'
<1>1. UNCHANGED <<edge, queueVars, libraryVars, late, taught, publication, events, requests>>
  BY DEF LearnerNext, TakeRequest, WriteResponse, EdgeOnly
<1>2. QueueTypeOK' /\ ItemsKept /\ LibraryTypeOK' /\ UNCHANGED processed
  BY <1>1, NothingMoved, LibraryStays
<1>3. CASE TakeRequest
  <2>1. learner' \in requests /\ UNCHANGED responses BY <1>3 DEF TakeRequest, Pending
  <2>2. Files' \subseteq Files BY <1>1, <2>1 DEF Files
  <2> QED BY <1>1, <1>2, <2>1, <2>2, EdgeTypes, BesideThePass
<1>4. CASE WriteResponse
  <2>1. learner # None /\ learner' = None /\ responses' \subseteq responses \cup {learner}
    BY <1>4 DEF WriteResponse
  <2>2. Files' \subseteq Files BY <1>1, <2>1 DEF Files
  <2>3. responses' \subseteq File BY <2>1, EdgeTypes
  <2> QED BY <1>1, <1>2, <2>1, <2>2, <2>3, EdgeTypes, BesideThePass
<1> QED BY <1>3, <1>4 DEF LearnerNext

LEMMA CrashKeeps == ASSUME LInv, EdgeCrash PROVE LInv'
<1>1. UNCHANGED <<queueVars, libraryVars, taught, requests, responses, learner>> /\ edge' = Resting
  BY DEF EdgeCrash, NoFiles, EndsPublication
<1>2. events' \in 0..MaxEvents /\ publication' \in Publication
  BY EdgeTypes, EventAssumption, NoPublicationTypes DEF EdgeCrash, Event, EndsPublication
<1>3. QueueTypeOK' /\ ItemsKept /\ UNCHANGED items BY <1>1, NothingMoved DEF queueVars
<1>4. CASE UNCHANGED late BY <1>1, <1>2, <1>3, <1>4, RestStep
<1>5. CASE /\ edge.pc = "finishing"
           /\ late' = late \cup {[item |-> item, claim |-> edge.work.claim, result |-> edge.result]}
  <2> DEFINE m == [item |-> item, claim |-> edge.work.claim, result |-> edge.result]
  <2>1. item \in ItemId /\ edge.work.claim \in 1..MaxAttempts /\ edge.result \in Result
        /\ processed[item] = edge.result
    BY <1>5, EdgeTypes DEF LInv, EdgeOK, LedgerOK, PassOK
  <2>2. LibraryTypeOK' /\ UNCHANGED processed BY <1>1, LibraryStays
  <2>3. Resting \in Edge BY DEF Resting, Edge, EdgePc
  <2>4. TypeOK' BY <1>1, <1>2, <1>3, <1>5, <2>1, <2>2, <2>3 DEF LInv, TypeOK
  <2>5. edge'.pc = "idle" BY <1>1 DEF Resting
  <2>6. EdgeOK' /\ PassOK' BY <2>5 DEF EdgeOK, PassOK
  <2>7. LedgerOK'
    <3>1. \A n \in late' : n \in late \/ n = m BY <1>5
    <3>2. m.item = item /\ m.result = edge.result OBVIOUS
    <3> HIDE DEF m
    <3>3. \A n \in late' : Kind(n.item) # "learn" => processed[n.item] = n.result
      BY <2>1, <3>1, <3>2 DEF LInv, LedgerOK
    <3> QED BY <1>3, <2>2, <2>6, <3>3 DEF LInv, LedgerOK
  <2>8. LedgersAgree' /\ TaughtOK' /\ LearnsOnce'
    BY <1>1, <1>3, <2>2 DEF LInv, LedgersAgree, TaughtOK, LearnsOnce
  <2>9. FilesOK' BY <1>1, <1>3, <2>5, FewerFiles DEF Files
  <2> QED BY <2>4, <2>6, <2>7, <2>8, <2>9 DEF LInv
<1> QED BY <1>4, <1>5 DEF EdgeCrash

LEMMA LateKeeps == ASSUME LInv, LateFinish PROVE LInv'
<1>1. PICK m \in late :
        /\ late' = late \ {m}
        /\ LearningFinish(m.item, m.claim, m.result) \/ UNCHANGED queueVars
        /\ UNCHANGED <<libraryVars, edgeVars, taught, publication, events>>
  BY DEF LateFinish
<1>2. m.item \in ItemId /\ m.result \in Result /\ (Kind(m.item) # "learn" => m.result = processed[m.item])
  BY DEF LInv, TypeOK, LedgerOK
<1>3. QueueTypeOK' /\ ItemsKept BY <1>1, <1>2, FinishItemKeeps, NothingMoved
<1> QED BY <1>1, <1>3, EdgeTypes, ServerStep

LEMMA UpgradeKeeps == ASSUME LInv, UpgradeCode PROVE LInv'
<1>1. UNCHANGED <<queueVars, edgeVars, late, taught, publication, versions, active, processed>> /\ qualified' = {}
  BY DEF UpgradeCode, Upgrade
<1>2. events' \in 0..MaxEvents BY EdgeTypes, EventAssumption DEF UpgradeCode, Event
<1>3. LibraryTypeOK' BY <1>1 DEF LInv, TypeOK, LibraryTypeOK
<1>4. QueueTypeOK' /\ ItemsKept BY <1>1, NothingMoved
<1>5. Files' = Files BY <1>1 DEF Files, edgeVars
<1> QED BY <1>1, <1>2, <1>3, <1>4, <1>5, EdgeTypes, BesideThePass DEF edgeVars

LEMMA RequalifyKeeps == ASSUME LInv, NEW v \in versions, Requalify(v) PROVE LInv'
<1>1. UNCHANGED <<queueVars, libraryVars, late, taught, events, requests, responses, learner>>
      /\ Goes("publishing")
  BY DEF Requalify, NoFiles
<1>2. publication' \in Publication
  <2>1. v \in Version BY DEF LInv, TypeOK, LibraryTypeOK
  <2> QED BY <2>1, EdgeTypes DEF Requalify, Publication
<1>3. QueueTypeOK' /\ ItemsKept BY <1>1, NothingMoved
<1> QED BY <1>1, <1>2, <1>3, EdgeTypes, RestStep

-----------------------------------------------------------------------------
(* The theorems *)

LEMMA InitLInv == Init => LInv
<1> SUFFICES ASSUME Init PROVE LInv OBVIOUS
<1>1. Seed \in Version /\ Seed.skill \in Skill BY SeedAssumption DEF Version
<1>2. NoItem \in Item
  <2>1. 0 \in 0..MaxAttempts BY LearningAssumption
  <2> QED BY <2>1 DEF NoItem, Item
<1>3. QueueTypeOK BY <1>1, <1>2 DEF Init, QueueTypeOK
<1>4. LibraryTypeOK BY <1>1 DEF Init, LibraryInit, LibraryTypeOK
<1>5. Resting \in Edge BY DEF Resting, Edge, EdgePc
<1>6. 0 \in 0..MaxEvents BY EventAssumption
<1>7. TypeOK BY <1>3, <1>4, <1>5, <1>6, NoPublicationTypes DEF Init, TypeOK
<1>8. edge.pc = "idle" /\ \A id \in ItemId : items[id] = NoItem /\ items[id].status = "absent"
  BY DEF Init, Resting, NoItem
<1>9. EdgeOK /\ LedgerOK /\ LedgersAgree BY <1>8 DEF EdgeOK, LedgerOK, PassOK, LedgersAgree, Init
<1>10. TaughtOK /\ LearnsOnce BY LearnIdentity DEF Init, TaughtOK, LearnsOnce
<1>11. Files = {} BY DEF Init, Files
<1>12. FilesOK BY <1>8, <1>11 DEF FilesOK
<1> QED BY <1>7, <1>9, <1>10, <1>12 DEF LInv

LEMMA NextLInv == LInv /\ [Next]_vars => LInv'
<1> SUFFICES ASSUME LInv, [Next]_vars PROVE LInv' OBVIOUS
<1>1. CASE UNCHANGED vars
  <2>1. UNCHANGED <<queueVars, libraryVars, edgeVars, late, taught, publication, events>> BY <1>1 DEF vars
  <2>2. QueueTypeOK' /\ ItemsKept BY <2>1, NothingMoved
  <2> QED BY <2>1, <2>2, EdgeTypes, ServerStep
<1>2. CASE FaultNext BY <1>2, CrashKeeps, LateKeeps, UpgradeKeeps, RequalifyKeeps DEF FaultNext
<1> QED BY <1>1, <1>2, EdgeKeepsLInv, LearnerKeepsLInv, StaffKeepsLInv DEF Next

\* The invariant: local variables of a pass, ledger, acknowledgements and files fit together in every
\* state (maintain, install, learning_finish, LearnerQueue).
THEOREM LearningInvariant == Spec => []LInv
<1>1. Init => LInv BY InitLInv
<1>2. LInv /\ [Next]_vars => LInv' BY NextLInv
<1> QED BY <1>1, <1>2, PTL DEF Spec

\* Every variable keeps its type.
THEOREM LearningTypes == Spec => []TypeOK
<1>1. LInv => TypeOK BY DEF LInv
<1> QED BY <1>1, LearningInvariant, PTL

\* An accepted episode activates at most one version, however often its item is tried.
THEOREM EpisodesLearnOnce == Spec => []LearnsOnce
<1>1. LInv => LearnsOnce BY DEF LInv
<1> QED BY <1>1, LearningInvariant, PTL

\* What the server holds as the outcome of an item is what the edge's ledger holds.
THEOREM LedgersStayEqual == Spec => []LedgersAgree
<1>1. LInv => LedgersAgree BY DEF LInv
<1> QED BY <1>1, LearningInvariant, PTL

\* A pass reads the answer to its own evidence, never that of an earlier request.
THEOREM AnswersStayFresh == Spec => []AnswerIsFresh
<1>1. LInv => AnswerIsFresh BY DEF LInv, FilesOK, Files, AnswerIsFresh
<1> QED BY <1>1, LearningInvariant, PTL

-----------------------------------------------------------------------------
(* Action properties *)

\* The transactions of the server that touch the maintenance table.
ItemsTransact ==
    \/ UNCHANGED items
    \/ \E ids : Queue(ids)
    \/ \E id \in ItemId : LearningClaim(id) \/ Expire(id)
    \/ NothingToClaim
    \/ \E id, claim, result : LearningFinish(id, claim, result)

LEMMA OutcomesKept ==
    ASSUME LInv, ItemsTransact,
           NEW id \in ItemId, items[id].status \in {"completed", "failed"}
    PROVE  items'[id] = items[id]
<1>1. items \in [ItemId -> Item] BY DEF LInv, TypeOK, QueueTypeOK
<1>2. ~Claimable(id) /\ items[id].status # "absent" BY DEF Claimable
<1>3. ~Open(id) /\ ~Exhausted(id) BY <1>2 DEF Open, Exhausted
<1>4. ASSUME NEW ids, Queue(ids) PROVE items'[id] = items[id] BY <1>2, <1>4 DEF Queue
<1>5. ASSUME NEW i \in ItemId, LearningClaim(i) PROVE items'[id] = items[id]
  <2>1. i # id BY <1>3, <1>5 DEF LearningClaim
  <2> QED BY <1>3, <1>5, <2>1 DEF LearningClaim
<1>6. ASSUME NothingToClaim PROVE items'[id] = items[id] BY <1>3, <1>6 DEF NothingToClaim
<1>7. ASSUME NEW i \in ItemId, Expire(i) PROVE items'[id] = items[id] BY <1>1, <1>7 DEF Expire
<1>8. ASSUME NEW i, NEW claim, NEW result, LearningFinish(i, claim, result)
      PROVE  items'[id] = items[id]
  BY <1>1, <1>8 DEF LearningFinish, MayFinish, Claimed
<1> QED BY <1>4, <1>5, <1>6, <1>7, <1>8 DEF ItemsTransact

LEMMA StepsTransact == [Next]_vars => ItemsTransact
<1> SUFFICES ASSUME [Next]_vars PROVE ItemsTransact OBVIOUS
<1> USE DEF queueVars
<1>1. CASE UNCHANGED vars BY <1>1 DEF vars, ItemsTransact
<1>2. CASE \E id \in ItemId : StartPass(id) BY <1>2 DEF StartPass, ItemsTransact
<1>3. CASE IdlePass BY <1>3 DEF IdlePass, ItemsTransact
<1>4. CASE ApplyChange \/ Admit \/ RecordResult
  BY <1>4 DEF ApplyChange, Admit, RecordResult, ItemsTransact
<1>5. CASE GatherEpisode \/ GatherDemonstration \/ GatherChat
  BY <1>5 DEF GatherEpisode, GatherDemonstration, GatherChat, Gathers, EdgeOnly, ItemsTransact
<1>6. CASE ReadResponse \/ LearnerTimesOut \/ Dismiss \/ Recheck
  BY <1>6 DEF ReadResponse, LearnerTimesOut, Dismiss, Recheck, EdgeOnly, ItemsTransact
<1>7. CASE Finish BY <1>7 DEF Finish, ItemsTransact
<1>8. CASE Publish \/ \E p \in Cited : CheckEvidence(p)
  BY <1>8 DEF Publish, CheckEvidence, SkillsPublish, ItemsTransact
<1>9. CASE LearnerNext BY <1>9 DEF LearnerNext, TakeRequest, WriteResponse, EdgeOnly, ItemsTransact
<1>10. CASE StaffNext
  BY <1>10 DEF StaffNext, Accept, FinishDemonstration, EndWork, AssessAction, SkillCommand, ItemsTransact
<1>11. CASE ClaimExpires BY <1>11 DEF ClaimExpires, ItemsTransact
<1>12. CASE FaultNext
  BY <1>12 DEF FaultNext, EdgeCrash, LateFinish, UpgradeCode, Requalify, SkillsPublish, ItemsTransact
<1> QED BY <1>1, <1>2, <1>3, <1>4, <1>5, <1>6, <1>7, <1>8, <1>9, <1>10, <1>11, <1>12
       DEF Next, EdgeNext, PassBegins

LEMMA StepsPublish == [Next]_vars => Publish \/ UNCHANGED packages
<1> SUFFICES ASSUME [Next]_vars PROVE Publish \/ UNCHANGED packages OBVIOUS
<1> USE DEF queueVars
<1>1. CASE UNCHANGED vars BY <1>1 DEF vars
<1>2. CASE \E id \in ItemId : StartPass(id) BY <1>2 DEF StartPass, LearningClaim
<1>3. CASE IdlePass BY <1>3 DEF IdlePass, NothingToClaim
<1>4. CASE ApplyChange \/ Admit \/ RecordResult
  BY <1>4 DEF ApplyChange, Admit, RecordResult
<1>5. CASE GatherEpisode \/ GatherDemonstration \/ GatherChat
  BY <1>5 DEF GatherEpisode, GatherDemonstration, GatherChat, Gathers, EdgeOnly
<1>6. CASE ReadResponse \/ LearnerTimesOut \/ Dismiss \/ Recheck
  BY <1>6 DEF ReadResponse, LearnerTimesOut, Dismiss, Recheck, EdgeOnly
<1>7. CASE Finish BY <1>7 DEF Finish, LearningFinish
<1>8. CASE \E p \in Cited : CheckEvidence(p) BY <1>8 DEF CheckEvidence
<1>9. CASE LearnerNext BY <1>9 DEF LearnerNext, TakeRequest, WriteResponse, EdgeOnly
<1>10. CASE StaffNext
  BY <1>10 DEF StaffNext, Accept, FinishDemonstration, EndWork, AssessAction, SkillCommand
<1>11. CASE ClaimExpires BY <1>11 DEF ClaimExpires, Expire
<1>12. CASE FaultNext
  BY <1>12 DEF FaultNext, EdgeCrash, LateFinish, LearningFinish, UpgradeCode, Requalify
<1> QED BY <1>1, <1>2, <1>3, <1>4, <1>5, <1>6, <1>7, <1>8, <1>9, <1>10, <1>11, <1>12
       DEF Next, EdgeNext, PassBegins

\* A completed or abandoned item stays as it is: a late acknowledgement closes no other claim.
THEOREM OutcomesAreFinal == Spec => OutcomeIsFinal
<1>1. LInv /\ [Next]_vars =>
        [\A id \in ItemId : items[id].status \in {"completed", "failed"} => items'[id] = items[id]]_vars
  BY OutcomesKept, StepsTransact
<1> QED BY <1>1, LearningInvariant, PTL DEF Spec, OutcomeIsFinal

\* What a publication has found in order still is, or was revoked since.
InOrder(p) ==
    \/ work[p[2]].accepted \/ p[2] \in publication.revoked
    \/ items[Chat(p[2])].status = "completed" /\ p[2] \in items[Chat(p[2])].result.version.evidence
PublicationOK ==
    /\ edge.pc # "publishing" => publication.checked = {}
    /\ \A p \in publication.checked : InOrder(p)

\* What a step may do to a publication: nothing, while acceptance is not lost either; note what
\* is revoked; find evidence in order; begin; end.
Untouched ==
    /\ publication' = publication /\ (edge.pc = "publishing" => edge' = edge)
    /\ \A j \in Job : work[j].accepted => work'[j].accepted
Finds(p) ==
    /\ p \in Cited /\ Supported(p[1], p[2]) /\ edge.pc = "publishing"
    /\ publication' = [publication EXCEPT !.checked = @ \cup {p}]
    /\ UNCHANGED <<edge, work, items>>
Begins(v) ==
    /\ edge.pc = "idle" /\ UNCHANGED <<work, items>>
    /\ publication' = [publication EXCEPT !.requalifies = v]

LEMMA PublicationSteps ==
    ASSUME LInv, [Next]_vars
    PROVE  \/ Untouched
           \/ NotesRevoked /\ UNCHANGED edge
           \/ (\E p \in Cited : Finds(p))
           \/ (\E v \in versions : Begins(v))
           \/ publication' = NoPublication
<1> USE DEF queueVars, edgeVars
<1>0. work \in [Job -> [status: {"open", "failed", "completed"}, accepted: BOOLEAN,
                        assessed: {"none", "correct", "incorrect"}]]
  BY DEF LInv, TypeOK, QueueTypeOK
<1>1. CASE UNCHANGED vars BY <1>1 DEF vars, Untouched
<1>2. CASE \E id \in ItemId : StartPass(id) BY <1>2 DEF StartPass, LearningClaim, Untouched
<1>3. CASE IdlePass BY <1>3 DEF IdlePass, NothingToClaim, Untouched
<1>4. CASE ApplyChange \/ Admit \/ RecordResult
  BY <1>4 DEF ApplyChange, Admit, RecordResult, Untouched
<1>5. CASE GatherEpisode \/ GatherDemonstration \/ GatherChat
  BY <1>5 DEF GatherEpisode, GatherDemonstration, GatherChat, Gathers, EdgeOnly, Untouched
<1>6. CASE ReadResponse \/ LearnerTimesOut \/ Dismiss \/ Recheck
  BY <1>6 DEF ReadResponse, LearnerTimesOut, Dismiss, Recheck, EdgeOnly, Untouched
<1>7. CASE Finish BY <1>7 DEF Finish, LearningFinish, Untouched
<1>8. CASE Publish \/ EdgeCrash BY <1>8 DEF Publish, EdgeCrash, EndsPublication
<1>9. CASE \E p \in Cited : CheckEvidence(p)
  BY <1>9 DEF CheckEvidence, EndsPublication, Finds
<1>10. CASE LearnerNext BY <1>10 DEF LearnerNext, TakeRequest, WriteResponse, EdgeOnly, Untouched
<1>11. CASE StaffNext
  <2>1. UNCHANGED edge BY <1>11 DEF StaffNext, ServerOnly
  <2>2. CASE NotesRevoked BY <2>1, <2>2
  <2>3. ASSUME NEW j \in Job, Accept(j) \/ FinishDemonstration(j), UNCHANGED publication
        PROVE  Untouched
    BY <1>0, <2>1, <2>3 DEF Accept, FinishDemonstration, Untouched
  <2>4. ASSUME NEW j \in Job, NEW outcome, EndWork(j, outcome), UNCHANGED publication
        PROVE  Untouched
    BY <1>0, <2>1, <2>4 DEF EndWork, Untouched
  <2>5. ASSUME NEW n, NEW k, NEW v, SkillCommand(n, k, v), UNCHANGED publication PROVE Untouched
    BY <2>1, <2>5 DEF SkillCommand, Untouched
  <2> QED BY <1>11, <2>2, <2>3, <2>4, <2>5 DEF StaffNext, ServerOnly
<1>12. CASE ClaimExpires BY <1>12 DEF ClaimExpires, ServerOnly, Expire, Untouched
<1>13. CASE LateFinish BY <1>13 DEF LateFinish, LearningFinish, Untouched
<1>14. CASE UpgradeCode BY <1>14 DEF UpgradeCode, Untouched
<1>15. CASE \E v \in versions : Requalify(v) BY <1>15 DEF Requalify, Begins
<1> QED BY <1>1, <1>2, <1>3, <1>4, <1>5, <1>6, <1>7, <1>8, <1>9, <1>10, <1>11, <1>12, <1>13, <1>14, <1>15
       DEF Next, EdgeNext, PassBegins, FaultNext

LEMMA PublicationKept == LInv /\ PublicationOK /\ [Next]_vars => PublicationOK'
<1> SUFFICES ASSUME LInv, PublicationOK, [Next]_vars PROVE PublicationOK' OBVIOUS
<1>1. publication \in Publication BY DEF LInv, TypeOK
<1>2. \A p \in publication.checked : p[2] \in Job /\ Chat(p[2]) \in ItemId
  BY <1>1 DEF Publication, Chat, ItemId
<1>3. ASSUME NEW p \in publication.checked, InOrder(p),
             \/ ~work[p[2]].accepted \/ work'[p[2]].accepted \/ p[2] \in publication'.revoked,
             publication.revoked \subseteq publication'.revoked
      PROVE  InOrder(p)'
  <2>1. items[Chat(p[2])].status = "completed" => items'[Chat(p[2])] = items[Chat(p[2])]
    BY <1>2, OutcomesKept, StepsTransact
  <2> QED BY <1>3, <2>1 DEF InOrder, Chat
<1>4. CASE Untouched BY <1>2, <1>3, <1>4 DEF Untouched, PublicationOK
<1>5. CASE NotesRevoked /\ UNCHANGED edge
  <2>1. publication'.checked = publication.checked /\ publication'.revoked = publication.revoked \cup
          {j \in Job : edge.pc = "publishing" /\ work[j].accepted /\ ~work'[j].accepted}
    BY <1>1, <1>5 DEF NotesRevoked, Publication
  <2>2. \A p \in publication.checked : edge.pc = "publishing" BY DEF PublicationOK
  <2> QED BY <1>2, <1>3, <1>5, <2>1, <2>2 DEF PublicationOK
<1>6. ASSUME NEW q \in Cited, Finds(q) PROVE PublicationOK'
  <2>1. publication'.checked = publication.checked \cup {q} /\ publication'.revoked = publication.revoked
    BY <1>1, <1>6 DEF Finds, Publication
  <2>2. InOrder(q)' BY <1>6 DEF Finds, Supported, AdmittedBy, InOrder, Chat
  <2> QED BY <1>2, <1>3, <1>6, <2>1, <2>2 DEF Finds, PublicationOK
<1>7. ASSUME NEW v \in versions, Begins(v) PROVE PublicationOK'
  BY <1>1, <1>7 DEF Begins, PublicationOK, Publication
<1>8. CASE publication' = NoPublication BY <1>8 DEF NoPublication, PublicationOK
<1> QED BY <1>4, <1>5, <1>6, <1>7, <1>8, PublicationSteps

\* What is distributed rests on evidence that is accepted or was admitted, or whose acceptance was
\* revoked while its publication was under way; and it stays distributed.
THEOREM DistributionIsEarned == Spec => DistributionFollowsAdmission
<1> DEFINE A == /\ packages \subseteq packages'
                /\ \A v \in packages' \ packages : \A j \in v.evidence :
                     \/ work[j].accepted \/ j \in publication.revoked
                     \/ items[Chat(j)].status = "completed" /\ j \in items[Chat(j)].result.version.evidence
<1>1. Init => PublicationOK BY DEF Init, PublicationOK, NoPublication
<1>2. LInv /\ PublicationOK /\ [Next]_vars => [A]_vars
  <2> SUFFICES ASSUME LInv, PublicationOK, [Next]_vars PROVE A OBVIOUS
  <2>1. CASE UNCHANGED packages BY <2>1
  <2>2. CASE Publish
    <3>1. packages' = packages \cup versions BY <2>2 DEF Publish, SkillsPublish
    <3>2. \A v \in versions : \A j \in v.evidence : <<v, j>> \in publication.checked
      BY <2>2 DEF Publish, Cited, LInv, TypeOK, LibraryTypeOK, Version
    <3> QED BY <3>1, <3>2 DEF PublicationOK, InOrder
  <2> QED BY <2>1, <2>2, StepsPublish
<1> QED BY <1>1, <1>2, PublicationKept, LearningInvariant, PTL DEF Spec, DistributionFollowsAdmission
=============================================================================
