------------------------------- MODULE DesktopTenure -------------------------------
(***************************************************************************)
(* What remains of DesktopControl when the process that holds the desktop  *)
(* for a request may die: its successor takes the desktop back and forgets *)
(* what was under way.  Every change of hands begins a tenure.  Within its *)
(* tenure a task is performed on a reserved desktop, and nobody gets the   *)
(* desktop before the receipt; one that outlives its tenure reserves       *)
(* nothing any more and can only stop, but no second task begins before    *)
(* it has.                                                                 *)
(***************************************************************************)
EXTENDS Naturals

CONSTANTS
    Holder,      \* <<request, controller>>
    Task,        \* what can reserve the desktop
    Automated(_, _), \* Automated(h, t): h may perform t
    Nobody,      \* no holder
    Nothing      \* no task

VARIABLES
    holder,   \* who controls the desktop
    tenure,   \* how often it has changed hands
    reserved, \* the task the desktop is reserved for
    running,  \* the task being performed on it
    began     \* the tenure it is performed in, 0 if there is none

tenureVars == <<holder, tenure, reserved, running, began>>

Init == holder = Nobody /\ tenure = 0 /\ reserved = Nothing /\ running = Nothing /\ began = 0

HandOver ==
    /\ reserved = Nothing
    /\ holder' \in Holder
    /\ tenure' = tenure + 1
    /\ UNCHANGED <<reserved, running, began>>

\* A new process of the holder's request gives up what its predecessor had reserved.
TakeBack ==
    /\ tenure' = tenure + 1
    /\ reserved' = Nothing
    /\ UNCHANGED <<holder, running, began>>

Reserve(t) ==
    /\ reserved \in {Nothing, t}
    /\ running = Nothing
    /\ Automated(holder, t)
    /\ reserved' = t
    /\ <<running', began'>> \in {<<Nothing, 0>>, <<t, tenure>>}
    /\ UNCHANGED <<holder, tenure>>

Stops == running' = Nothing /\ began' = 0

\* The performer stops without a receipt, or with one that nobody waits for.
Interrupt ==
    /\ running # Nothing /\ Stops
    /\ UNCHANGED <<holder, tenure, reserved>>

\* A receipt is filed: of the task that is performed, or of one that was interrupted.
Settle ==
    /\ reserved # Nothing /\ reserved' = Nothing /\ Stops
    /\ UNCHANGED <<holder, tenure>>

Next == HandOver \/ TakeBack \/ (\E t \in Task : Reserve(t)) \/ Interrupt \/ Settle

Spec == Init /\ [][Next]_tenureVars
=============================================================================
