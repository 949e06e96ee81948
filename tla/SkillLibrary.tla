------------------------------- MODULE SkillLibrary -------------------------------
(***************************************************************************)
(* The registry of declarative skills on one edge: content-addressed       *)
(* versions, the version that is active for each skill, the digest of the  *)
(* trusted code each version was admitted under, and the ledger of         *)
(* processed maintenance items.  One operator is one SQLite transaction    *)
(* (`with self.db()`); what it raises is rolled back.                      *)
(***************************************************************************)
EXTENDS LearningQueue

CONSTANT Seed   \* the bundled procedure, installed before any learning

ASSUME SeedAssumption == Seed \in Version /\ Seed.evidence = {}

VARIABLES
    versions,   \* rows of versions
    active,     \* skill -> its active version, or None
    qualified,  \* versions bound to the digest of the code that runs now
    processed   \* maintenance id -> its recorded result, or None

libraryVars == <<versions, active, qualified, processed>>

LibraryTypeOK ==
    /\ versions \subseteq Version
    /\ active \in [Skill -> Version \cup {None}]
    /\ qualified \subseteq versions
    /\ processed \in [ItemId -> Result \cup {None}]

LibraryInit ==
    /\ versions = {Seed}
    /\ active = [s \in Skill |-> IF s = Seed.skill THEN Seed ELSE None]
    /\ qualified = {Seed}
    /\ processed = [id \in ItemId |-> None]

Actives == {v \in versions : active[v.skill] = v}

\* What get and catalog hand out: active, intact under today's code, and distributed by the
\* server (package_access); `granted` is whether the server still accepts the claim that asks.
Catalog(granted) == {v \in Actives : v \in qualified /\ v \in packages /\ granted}

\* A new version is bound to today's digest; one that is bound to another refuses.
MayInstall(v, previous) ==
    /\ active[v.skill] = previous
    /\ v \in versions => v \in qualified

\* Mutants: activation without the ledger entry; a pointer to a version that was not stored.
InstallUnrecorded(v, key, result) ==
    /\ versions' = versions \cup {v}
    /\ qualified' = qualified \cup {v}
    /\ active' = [active EXCEPT ![v.skill] = v]
    /\ UNCHANGED processed
InstallPointer(v, key, result) ==
    /\ qualified' = qualified \cup {v}
    /\ active' = [active EXCEPT ![v.skill] = v]
    /\ processed' = [processed EXCEPT ![key] = result]
    /\ UNCHANGED versions

\* Activation and the ledger entry `key` commit together.
Install(v, key, result) ==
    /\ versions' = versions \cup {v}
    /\ qualified' = qualified \cup {v}
    /\ active' = [active EXCEPT ![v.skill] = v]
    /\ processed' = [processed EXCEPT ![key] = result]

\* Mutant: every result is filed under the job, as an admission is.
RecordByJob(id, result) ==
    /\ processed' = [processed EXCEPT ![Learn(id[2])] = result]
    /\ UNCHANGED <<versions, active, qualified>>

Record(id, result) ==
    /\ processed' = [processed EXCEPT ![id] = result]
    /\ UNCHANGED <<versions, active, qualified>>

\* Roll back to a version that get still accepts, or suspend.
MayChange(skill, version) ==
    version # None => version \in versions /\ version \in qualified /\ version.skill = skill

ChangeActive(skill, version) ==
    /\ MayChange(skill, version)
    /\ active' = [active EXCEPT ![skill] = version]
    /\ UNCHANGED <<versions, qualified, processed>>

\* An upgrade of the trusted code: every version needs requalification.
Upgrade ==
    /\ qualified # {}
    /\ qualified' = {}
    /\ UNCHANGED <<versions, active, processed>>
=============================================================================
