---------------------------------- MODULE Lessons ----------------------------------
(***************************************************************************)
(* What learning from finished work promises (docs/architecture.md):       *)
(* an item of work for the learner enters the queue once and is settled    *)
(* once; it teaches only while it is open; the outcome it is settled with  *)
(* is a lesson that was really taught; what an episode's own item taught   *)
(* it taught once and reports; only what was taught is distributed.        *)
(***************************************************************************)
CONSTANTS
    Item,        \* what can be queued for the learner
    Own,         \* the items that teach at most once
    Reports(_),  \* Reports(i): the items whose lesson the outcome of i may name
    Lesson,      \* what can be taught
    Bundled,     \* the lesson that is there from the start
    Nothing      \* no lesson

VARIABLES
    status,      \* of each item
    outcome,     \* what a settled item reports: a lesson and the item that taught it, or Nothing
    taught,      \* the lessons of each item
    distributed  \* the lessons that others may use

lessonVars == <<status, outcome, taught, distributed>>

Init ==
    /\ status = [i \in Item |-> "absent"]
    /\ outcome = [i \in Item |-> Nothing]
    /\ taught = [i \in Item |-> {}]
    /\ distributed = {Bundled}

Report == [item: Item, lesson: Lesson]
Known  == {Bundled} \cup UNION {taught[i] : i \in Item}

\* Some items go from one status to another, and only they.
Moves(items, from, to) ==
    /\ \A i \in items : status[i] = from
    /\ status' = [i \in Item |-> IF i \in items THEN to ELSE status[i]]
Moved == {i \in Item : status'[i] # status[i]}

Schedule == Moves(Moved, "absent", "open") /\ UNCHANGED <<outcome, taught, distributed>>
Abandon  == Moves(Moved, "open", "abandoned") /\ UNCHANGED <<outcome, taught, distributed>>

Teach(i, lesson) ==
    /\ status[i] = "open"
    /\ i \in Own => taught[i] = {}
    /\ taught' = [taught EXCEPT ![i] = @ \cup {lesson}]
    /\ UNCHANGED <<status, outcome, distributed>>

\* An outcome is truthful, and what the own item of an episode taught is not left out.
Truthful(i, report) ==
    /\ report # Nothing => report.item \in Reports(i) /\ report.lesson \in taught[report.item]
    /\ i \in Own /\ report = Nothing => taught[i] = {}

Settle(i) ==
    /\ Moves({i}, "open", "settled")
    /\ \E report \in Report \cup {Nothing} :
          Truthful(i, report) /\ outcome' = [outcome EXCEPT ![i] = report]
    /\ UNCHANGED <<taught, distributed>>

Distribute ==
    /\ distributed \subseteq distributed' /\ distributed' \subseteq distributed \cup Known
    /\ UNCHANGED <<status, outcome, taught>>

Next ==
    \/ Schedule \/ Abandon \/ Distribute
    \/ \E i \in Item : Settle(i) \/ \E lesson \in Lesson : Teach(i, lesson)

Spec == Init /\ [][Next]_lessonVars
=============================================================================
