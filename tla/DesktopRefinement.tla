----------------------------- MODULE DesktopRefinement -----------------------------
(***************************************************************************)
(* The tables of the server and the executor implement DesktopControl,     *)
(* as long as no second planner process reclaims the desktop of a running  *)
(* operation: the lease names the holder and the reservation, and the      *)
(* executor runs an operation from begin_action to the end of its handler. *)
(***************************************************************************)
EXTENDS Desktop

MayPerform(h, t) == h[1] = t[1] /\ h[2] \in {"script", "assistant"}

Control == INSTANCE DesktopControl WITH
    Holder    <- Job \X Controller,
    Task      <- Invocation,
    Automated <- MayPerform,
    Nobody    <- <<None, None>>,
    Nothing   <- None,
    holder    <- <<lease.job, lease.owner>>,
    reserved  <- lease.inflight,
    running   <- IF exec.pc \in Operating THEN exec.inv
                 ELSE IF exec.pc = "recovering" THEN <<exec.inv[1], Window>> ELSE None

(* Every step of the processes is a step of the desktop control, or none:    *)
(* handoffs and new claims wait for the receipt, and an operation begins     *)
(* only on a free desktop, for its own request, under automation.            *)
ImplementsControl == Control!Spec

Tenure == INSTANCE DesktopTenure WITH
    Holder    <- Job \X Controller,
    Task      <- Invocation,
    Automated <- MayPerform,
    Nobody    <- <<None, None>>,
    Nothing   <- None,
    holder    <- <<lease.job, lease.owner>>,
    tenure    <- lease.epoch,
    reserved  <- lease.inflight,
    running   <- IF exec.pc \in Operating THEN exec.inv
                 ELSE IF exec.pc = "recovering" THEN <<exec.inv[1], Window>> ELSE None,
    began     <- IF exec.pc \in Operating \cup {"recovering"} THEN exec.epoch ELSE 0

(* Whichever process dies: an operation begins on a free desktop, under the  *)
(* tenure it checked, never beside another one; while it runs in its tenure  *)
(* only its receipt or a successor of its planner frees the desktop; after   *)
(* that it changes nothing but its own end.                                  *)
ImplementsTenure == Tenure!Spec
=============================================================================
