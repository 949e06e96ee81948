------------------------------ MODULE DesktopControl ------------------------------
(***************************************************************************)
(* What the control of one desktop promises (docs/architecture.md, State   *)
(* and safety): the desktop is held by one controller of one request; an   *)
(* operation reserves it and runs alone; neither the controller nor the    *)
(* request changes while it is reserved.                                   *)
(***************************************************************************)
CONSTANTS
    Holder,      \* <<request, controller>>
    Task,        \* what can reserve the desktop
    Automated(_, _), \* Automated(h, t): h may perform t
    Nobody,      \* no holder
    Nothing      \* no task

VARIABLES
    holder,   \* who controls the desktop
    reserved, \* the task the desktop is reserved for
    running   \* the task being performed on it

controlVars == <<holder, reserved, running>>

Init == holder = Nobody /\ reserved = Nothing /\ running = Nothing

HandOver ==
    /\ reserved = Nothing
    /\ holder' \in Holder
    /\ UNCHANGED <<reserved, running>>

\* A task may find the desktop still reserved by an earlier, interrupted run of its own.
Reserve(t) ==
    /\ reserved \in {Nothing, t}
    /\ running = Nothing
    /\ Automated(holder, t)
    /\ reserved' = t
    /\ running' \in {Nothing, t}
    /\ UNCHANGED holder

\* The performer stops without a receipt; the reservation stays.
Interrupt ==
    /\ running # Nothing
    /\ running' = Nothing
    /\ UNCHANGED <<holder, reserved>>

\* A receipt is filed.
Settle ==
    /\ reserved # Nothing
    /\ reserved' = Nothing
    /\ running' = Nothing
    /\ UNCHANGED holder

Next == HandOver \/ (\E t \in Task : Reserve(t)) \/ Interrupt \/ Settle

Spec == Init /\ [][Next]_controlVars

(* A running task has the desktop reserved. *)
RunsReserved == running # Nothing => reserved = running
=============================================================================
