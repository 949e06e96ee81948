----------------------------- MODULE LessonsRefinement -----------------------------
(***************************************************************************)
(* The maintenance pass, its ledger and the server's queue implement       *)
(* Lessons, whatever dies, is lost, late or done again.  What an item has  *)
(* taught is what it has activated.                                        *)
(***************************************************************************)
EXTENDS Learning

\* An admission of any item about a job is filed with the job's own item.
SameJob(id, other) ==
    other = id \/ (Kind(id) = "learn" /\ Kind(other) # "skill_change" /\ other[2] = id[2])
ReportsFor(id) == {other \in ItemId : SameJob(id, other)}

StatusOf(it) == CASE it.status \in {"queued", "running"} -> "open"
                  [] it.status = "completed" -> "settled"
                  [] it.status = "failed" -> "abandoned"
                  [] OTHER -> "absent"
Activates(result) == result # None /\ result.status = "activated"
ReportOf(it) == IF it.status = "completed" /\ Activates(it.result)
                THEN [item |-> it.result.origin, lesson |-> it.result.version] ELSE None
ASSUME NoneIsNoReport == None \notin [item: ItemId, lesson: Version]

Promise == INSTANCE Lessons WITH
    Item        <- ItemId,
    Own         <- {id \in ItemId : Kind(id) = "learn"},
    Reports     <- ReportsFor,
    Lesson      <- Version,
    Bundled     <- Seed,
    Nothing     <- None,
    status      <- [id \in ItemId |-> StatusOf(items[id])],
    outcome     <- [id \in ItemId |-> ReportOf(items[id])],
    distributed <- packages

(* Every step of the edge, the learner, the server and its staff is a step *)
(* of the promise, or none: nothing teaches outside an open item, no       *)
(* outcome claims what was not activated, an episode's own item teaches    *)
(* one version and reports it, and nothing else is distributed.            *)
ImplementsLessons == Promise!Spec
=============================================================================
