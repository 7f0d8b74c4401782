---------------------- MODULE MCCampaignPreparation ----------------------
(***************************************************************************)
(* A TLC instance of CampaignPreparation with two activities and a claim   *)
(* for each label.  In one pair of cohorts c3 and c4 are clear cases that  *)
(* every candidate decides alike, and a replay follows.  In the others the *)
(* claims have four shapes and any drafts of a wide set, saved with one    *)
(* route in the one activity and with the other in the second; their       *)
(* labels are not balanced, so that they end with the calibration.         *)
(***************************************************************************)
EXTENDS CampaignPreparation

CONSTANTS a1, a2, c1, c2, c3, c4, d1, d2, d3

Draft(status, verdict, confidence, coverage, tokens) ==
  [status |-> status, verdict |-> verdict, confidence |-> confidence,
   coverage |-> coverage, tokens |-> tokens]

DraftsOf(verdict, tokens) ==
  {Draft("completed", verdict, 3, 3, tokens), Draft("completed", verdict, 2, 3, tokens),
   Draft("completed", verdict, 1, 3, tokens), Draft("completed", verdict, 3, 1, tokens),
   Draft("completed", verdict, 3, 2, tokens), Draft("completed", "nee", 2, 0, tokens),
   Draft("partial", verdict, 3, 3, tokens),
   Draft("failed", None, 0, 0, tokens \div 4)}

Shape(clauses, sources, compared, causal) ==
  [clauses |-> clauses, sources |-> sources, compared |-> compared, timed |-> FALSE,
   causal |-> causal]

Atomic == Shape(1, 1, FALSE, FALSE)
Shapes == (c1 :> Atomic) @@ (c2 :> Shape(1, 3, FALSE, TRUE))
            @@ (c3 :> Shape(2, 1, FALSE, FALSE)) @@ (c4 :> Shape(2, 1, TRUE, FALSE))

TheCase(shape, route, single, multi, gold) ==
  [features |-> shape, route |-> route, router |-> 1, single |-> single,
   multi |-> multi, cited |-> "single", gold |-> gold]

Wide ==
  LET Shaped(route, cited, single, multi) ==
        [c \in Claims |->
           [TheCase(Shapes[c], route, single, multi, "yes") EXCEPT !.cited = cited]]
  IN  {(a1 :> Shaped("single", cited, single, multi))
         @@ (a2 :> Shaped("multi", cited, single, multi)) :
         cited \in {"single", "multi"}, single \in DraftsOf("yes", 4),
         multi \in UNION {DraftsOf(verdict, 8) : verdict \in {"yes", "no", "nee"}}}

Good(verdict, tokens) == Draft("completed", verdict, 3, 3, tokens)

Clear(label) == TheCase(Shape(1, 3, FALSE, FALSE), "single", Good(label, 4), Good(label, 8), label)

Cohort(yes, nee) ==
  [c \in Claims |-> CASE c = c1 -> yes [] c = c2 -> nee
                      [] c = c3 -> Clear("no") [] c = c4 -> Clear("both")]

Balanced(single, other) ==
  Cohort(TheCase(Atomic, "single", single, Good("yes", 8), "yes"),
         TheCase(Shape(2, 1, FALSE, FALSE), "single", other, Good("nee", 8), "nee"))

Routed ==
  LET OfLabel(label) ==
        TheCase(Shape(1, 2, FALSE, FALSE), "multi", Good("yes", 4), Good(label, 8), label)
  IN  Cohort(OfLabel("yes"), OfLabel("nee"))

Replayed ==
  {(a1 :> Balanced(Draft("completed", "nee", 2, 3, 4), Draft("completed", "nee", 3, 0, 4)))
     @@ (a2 :> Routed)}

MCCohorts == Wide \cup Replayed

\* Any injective ranking of the grid will do.
MCRank ==
  [s \in Settings |-> 1000 * s.confidence + 100 * s.coverage + 10 * s.sources + s.clauses]

MCManifests == {[dev |-> <<d1, d2, d3>>, stability |-> <<d3, d1>>],
                [dev |-> <<d1, d2, d3>>, stability |-> <<d2, d2>>]}
MCOrders == {<<"adaptive", "always_single", "always_multi">>}
MCPrice == [router |-> 1, single |-> 4, decomposer |-> 2, worker |-> 3, judge |-> 5]
MCRepeats == <<1, 2>>
\* A draft may survive the collection and be short of confidence or of coverage
\* under a candidate.
MCCollected == [clauses |-> 3, sources |-> 2, confidence |-> 2, coverage |-> 2]
=============================================================================
