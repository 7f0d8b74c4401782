--------------------------- MODULE MCStructuredLLM ---------------------------
(***************************************************************************)
(* TLC instances of StructuredLLM.                                         *)
(***************************************************************************)
EXTENDS StructuredLLM

MCCalls == Sites \X (0 .. 2)
MCRequests == [prompt : Prompts, repairs : Payloads \cup {None}, attempt : 0 .. 2]
=============================================================================
