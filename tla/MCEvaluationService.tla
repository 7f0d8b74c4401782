-------------------------- MODULE MCEvaluationService --------------------------
(***************************************************************************)
(* TLC instances of EvaluationService.                                     *)
(***************************************************************************)
EXTENDS EvaluationService

MCCalls == (1 .. N) \X Tasks
=============================================================================
