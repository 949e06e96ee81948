---------------------------------- MODULE Saving ----------------------------------
(***************************************************************************)
(* What the workflows of a request promise about the save they make        *)
(* (docs/architecture.md): it is attempted before it is made, made once,   *)
(* and its outcome is claimed when it is known; the steps of a workflow    *)
(* are performed in order, those that rest on the save once it is          *)
(* confirmed.  An ended request attempts and claims nothing; of what was   *)
(* under way when it ended, one save may still be made and the steps that  *)
(* were performed still count.                                             *)
(***************************************************************************)
EXTENDS Naturals, Sequences

CONSTANTS
    Run,  \* workflows
    Steps \* the steps of each of them, in order

VARIABLES
    status,    \* of the request
    outcome,   \* what the request claims of the save
    intent,    \* the save is about to be made
    pending,   \* the application has the save to make
    draft,     \* the save is made
    performed, \* the steps of the workflows that are performed
    completed  \* the workflows that count as completed

savingVars == <<status, outcome, intent, pending, draft, performed, completed>>

Init ==
    /\ status = "running" /\ outcome = "not_attempted"
    /\ intent = FALSE /\ pending = FALSE /\ draft = FALSE
    /\ performed = {} /\ completed = {}

Attempt ==
    /\ status = "running" /\ outcome' = "attempted_uncertain"
    /\ UNCHANGED <<status, intent, pending, draft, performed, completed>>

\* Whether the save may be made is settled a moment before it is.
Dare ==
    /\ status = "running" /\ outcome = "attempted_uncertain"
    /\ ~intent /\ ~pending /\ ~draft /\ intent' = TRUE
    /\ UNCHANGED <<status, outcome, pending, draft, performed, completed>>

Save ==
    /\ intent /\ intent' = FALSE /\ pending' = TRUE
    /\ UNCHANGED <<status, outcome, draft, performed, completed>>

Withdraw ==
    /\ intent /\ intent' = FALSE
    /\ UNCHANGED <<status, outcome, pending, draft, performed, completed>>

\* The application makes the save or refuses it, whenever it gets to it.
Answer ==
    /\ pending /\ pending' = FALSE /\ draft' \in BOOLEAN
    /\ UNCHANGED <<status, outcome, intent, performed, completed>>

Claim ==
    /\ status = "running" /\ outcome = "attempted_uncertain"
    /\ \/ draft /\ outcome' = "confirmed_succeeded"
       \/ ~draft /\ ~pending /\ ~intent /\ outcome' = "confirmed_failed"
    /\ UNCHANGED <<status, intent, pending, draft, performed, completed>>

Perform(r, i) ==
    /\ \A k \in 1..(i - 1) : <<r, k>> \in performed
    /\ Steps[i] # "prepare" => draft /\ outcome = "confirmed_succeeded"
    /\ performed' = performed \cup {<<r, i>>}
    /\ UNCHANGED <<status, outcome, intent, pending, draft, completed>>

\* Calls write the table of workflows as a whole, from copies that may be old.
Count ==
    /\ status = "running"
    /\ completed' \subseteq {r \in Run : \A i \in DOMAIN Steps : <<r, i>> \in performed}
    /\ UNCHANGED <<status, outcome, intent, pending, draft, performed>>

End ==
    /\ status = "running" /\ status' \in {"completed", "ended"}
    /\ UNCHANGED <<outcome, intent, pending, draft, performed, completed>>

Next ==
    \/ Attempt \/ Dare \/ Save \/ Withdraw \/ Answer \/ Claim \/ Count \/ End
    \/ \E r \in Run, i \in DOMAIN Steps : Perform(r, i)

Spec == Init /\ [][Next]_savingVars
=============================================================================
