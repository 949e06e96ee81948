------------------------------- MODULE MCLearning -------------------------------
(* Instances of Learning for TLC. *)
EXTENDS LessonsRefinement, TLC

CONSTANTS s1, plain

\* The bundled procedure.
BundledSeed == [skill |-> s1, evidence |-> {}, steps |-> "workflow", labels |-> 0, text |-> plain]
=============================================================================
