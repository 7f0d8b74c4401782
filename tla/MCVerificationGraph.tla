-------------------------- MODULE MCVerificationGraph --------------------------
(***************************************************************************)
(* TLC instances of VerificationGraph: the hardening switches that the     *)
(* configurations in configs/ set together.                                *)
(***************************************************************************)
EXTENDS VerificationGraph

GateA == [ambiguous |-> FALSE, split |-> FALSE, adjudicate |-> FALSE, recover |-> FALSE]
StabilityV4 == [ambiguous |-> TRUE, split |-> TRUE, adjudicate |-> TRUE, recover |-> TRUE]

Draft(v, low, uncovered) == [verdict |-> v, low |-> low, uncovered |-> uncovered]

\* Both sides and neither, each flaw, and the flaw that is waived.
MCDrafts ==
  {Draft("supported", FALSE, FALSE), Draft("supported", TRUE, FALSE),
   Draft("refuted", FALSE, TRUE), Draft("not_enough", FALSE, TRUE)}

\* Tasks are numbered: one task, or all of them.
CONSTANT FirstTask
MCSplits == {{FirstTask}, Tasks}
MCHardenings == {GateA, StabilityV4}
=============================================================================
