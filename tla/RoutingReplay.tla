---------------------------- MODULE RoutingReplay ----------------------------
(***************************************************************************)
(* The choice of the routing policy from saved runs (calibration.py):      *)
(* every candidate of a finite grid is replayed over the calibration       *)
(* cases, scored by macro-F1, and one candidate is selected.               *)
(*                                                                         *)
(* The thresholds of the grid cut confidence and coverage into levels: a   *)
(* result's level is the number of grid thresholds it reaches, a           *)
(* candidate's threshold the level it asks for.  Quality is the sum of the *)
(* per-class F1 scores times Scale, which makes it an integer.             *)
(***************************************************************************)
EXTENDS Integers, FiniteSets, FiniteSetsExt

CONSTANTS
  Claims,       \* the calibration cohort
  Verdicts,     \* labels
  NotEnough,    \* the label that needs no cited evidence
  Sides,        \* the two labels that contradict each other
  Conflicting,  \* the label of evidence for both
  Clauses,      \* grid of clear_multi_clauses
  Sources,      \* grid of clear_single_min_sources
  Levels,       \* grids of low_confidence and of minimum_coverage
  Collected,    \* routing settings in force while the cases are collected
  Recovering,   \* whether multi runs were recovered while they were
  Rank,         \* order of the candidates' configuration hashes
  Tolerance,    \* quality given up for cost, in units of quality
  Scale,        \* a common multiple of the F1 denominators
  None

\* HardeningSettings, as far as it changes what a run does with its drafts.
Hardening == [recover : BOOLEAN, adjudicate : BOOLEAN, deterministic : BOOLEAN]

\* candidate_grid
Settings == [clauses : Clauses, sources : Sources, confidence : Levels, coverage : Levels]

ASSUME ReplayAssumption ==
  /\ Clauses \subseteq Nat \ {0, 1} /\ Sources \subseteq Nat \ {0} /\ Levels \subseteq Nat
  /\ Collected \in Settings /\ Recovering \in BOOLEAN
  /\ Sides \cup {Conflicting, NotEnough} \subseteq Verdicts /\ None \notin Verdicts
  /\ Tolerance \in Nat /\ Scale \in Nat \ {0}

ASSUME RankAssumption ==
  /\ Rank \in [Settings -> Nat]
  /\ \A s, t \in Settings : Rank[s] = Rank[t] => s = t

(***************************************************************************)
(* Cases.                                                                  *)
(***************************************************************************)
\* ClaimFeatures.  "compared": comparison or conflict hint; "timed": two time
\* scopes; "causal": causal or contrast words.
Features == [clauses : Nat, sources : Nat, compared : BOOLEAN, timed : BOOLEAN,
             causal : BOOLEAN]

\* VerificationResult: a failed result, and no other, is without a verdict.
Result == {r \in [status : {"completed", "partial", "failed"}, verdict : Verdicts \cup {None},
                  confidence : Nat, coverage : Nat, tokens : Nat] :
             r.status = "failed" <=> r.verdict = None}

\* What the nodes draft for a claim.  "cited" is the draft whose citations sort
\* first, the one an adjudication builds on.
Case == [features : Features, route : {"single", "multi"}, router : Nat,
         single : Result, multi : Result, cited : {"single", "multi"}, gold : Verdicts]

(***************************************************************************)
(* ResultValidator.validate.                                               *)
(***************************************************************************)
Flawed(result, settings) ==
  \/ result.status = "partial"
  \/ result.verdict # NotEnough /\ result.coverage < settings.coverage
  \/ result.confidence < settings.confidence

Action(result, settings, mayEscalate) ==
  IF result.status = "failed" THEN "fail"
  ELSE IF ~Flawed(result, settings) THEN "accept"
  ELSE IF mayEscalate THEN "escalate" ELSE "fail"

FailedResult(result) ==
  [result EXCEPT !.status = "failed", !.verdict = None, !.confidence = 0, !.coverage = 0]

\* What the fixed runs of the collection leave of the drafts their nodes made:
\* a draft too weak for the collecting configuration is a failed result.
Saved(result) ==
  IF Action(result, Collected, FALSE) = "accept" THEN result ELSE FailedResult(result)

\* Where multi runs are recovered, the fixed multi run has asked the single
\* verifier for what its own draft did not give, and has paid for both.
Recovered(case, recovering) ==
  recovering /\ Action(case.multi, Collected, FALSE) = "fail"

SavedMulti(case, recovering) ==
  IF Recovered(case, recovering)
    THEN [Saved(case.single) EXCEPT !.tokens = @ + case.multi.tokens]
    ELSE Saved(case.multi)

SavedCase(case, recovering) ==
  [case EXCEPT !.single = Saved(@), !.multi = SavedMulti(case, recovering)]

(***************************************************************************)
(* The rules of routing.py and calibration.py, which are the same, and what *)
(* the replay does with a claim they leave open.                           *)
(***************************************************************************)
ClearMulti(features, settings) ==
  \/ features.clauses >= settings.clauses
  \/ features.clauses >= 2 /\ (features.compared \/ features.timed)

ClearSingle(features, settings) ==
  /\ features.clauses = 1
  /\ ~features.compared /\ ~features.causal
  /\ features.sources >= settings.sources

RouteIsRuled(case, settings) ==
  ClearMulti(case.features, settings) \/ ClearSingle(case.features, settings)

\* The LLM route is asked for only when the rules leave the case open.
Route(case, settings) ==
  IF ClearMulti(case.features, settings) THEN "multi"
  ELSE IF ClearSingle(case.features, settings) THEN "single"
  ELSE case.route

RouterTokens(case, settings) == IF RouteIsRuled(case, settings) THEN 0 ELSE case.router

(***************************************************************************)
(* replay_candidate: the case as saved, under the settings of a candidate. *)
(***************************************************************************)
\* Slip: the saved multi result of an escalation is taken as it is.
ReplayUnvalidated(case, settings) ==
  LET route  == Route(case, settings)
      action == Action(case[route], settings, route = "single")
  IN  [escalated |-> action = "escalate",
       verdict   |-> CASE action = "accept"   -> case[route].verdict
                       [] action = "escalate" -> case.multi.verdict
                       [] action = "fail"     -> None,
       tokens    |-> RouterTokens(case, settings) + case[route].tokens
                     + (IF action = "escalate" THEN case.multi.tokens ELSE 0),
       routed    |-> ~RouteIsRuled(case, settings)]

\* Slip: the tokens of the single run are forgotten when it escalates.
ReplayUndercharged(case, settings) ==
  LET route  == Route(case, settings)
      action == Action(case[route], settings, route = "single")
      used   == IF action = "escalate" THEN "multi" ELSE route
  IN  [escalated |-> action = "escalate",
       verdict   |-> IF Action(case[used], settings, FALSE) = "accept"
                       THEN case[used].verdict ELSE None,
       tokens    |-> RouterTokens(case, settings) + case[used].tokens,
       routed    |-> ~RouteIsRuled(case, settings)]

Replay(case, settings) ==
  LET route  == Route(case, settings)
      action == Action(case[route], settings, route = "single")
      used   == IF action = "escalate" THEN "multi" ELSE route
  IN  [escalated |-> action = "escalate",
       verdict   |-> IF Action(case[used], settings, FALSE) = "accept"
                       THEN case[used].verdict ELSE None,
       tokens    |-> RouterTokens(case, settings) + case[route].tokens
                     + (IF action = "escalate" THEN case.multi.tokens ELSE 0),
       routed    |-> ~RouteIsRuled(case, settings)]

(***************************************************************************)
(* The deployed adaptive graph, whose nodes draft what the fixed runs      *)
(* drafted: route_after_router, the node of the route, the validator,      *)
(* route_after_validation back to the decomposition once and, where multi  *)
(* runs are recovered, to the single node, whose call an escalated run has *)
(* already made.                                                           *)
(***************************************************************************)
\* HybridRouter.route: with deterministic_ambiguous an open claim is a multi
\* run that no router was asked for.
DeployedRoute(case, settings, h) ==
  IF h.deterministic /\ ~RouteIsRuled(case, settings) THEN "multi" ELSE Route(case, settings)

DeployedRouterTokens(case, settings, h) ==
  IF h.deterministic THEN 0 ELSE RouterTokens(case, settings)

\* adjudicate_verification_results of the single draft and the multi result.
Adjudicated(case) ==
  LET v == case.single.verdict  w == case.multi.verdict IN
  [case[case.cited] EXCEPT
     !.verdict = IF v = w THEN v ELSE IF {v, w} = Sides THEN Conflicting ELSE NotEnough,
     !.confidence = IF case.single.confidence < case.multi.confidence
                      THEN case.single.confidence ELSE case.multi.confidence,
     !.tokens = case.single.tokens + case.multi.tokens]

CanAdjudicate(case) == {case.single.status, case.multi.status} = {"completed"}

\* What the second validation of an escalated run is about.
EscalatedDraft(case, h) ==
  IF h.adjudicate /\ CanAdjudicate(case) THEN Adjudicated(case) ELSE case.multi

Deployed(case, settings, h) ==
  LET route     == DeployedRoute(case, settings, h)
      draft     == case[route]
      escalates == route = "single" /\ Action(draft, settings, TRUE) = "escalate"
      judged    == IF escalates THEN EscalatedDraft(case, h) ELSE draft
      recovered == /\ h.recover /\ (route = "multi" \/ escalates)
                   /\ Action(judged, settings, FALSE) = "fail"
      final     == IF recovered THEN case.single ELSE judged
  IN  [escalated |-> escalates,
       verdict   |-> IF Action(final, settings, FALSE) = "accept" THEN final.verdict ELSE None,
       tokens    |-> DeployedRouterTokens(case, settings, h) + draft.tokens
                       + (IF escalates THEN case.multi.tokens ELSE 0)
                       + (IF recovered /\ ~escalates THEN case.single.tokens ELSE 0)]

(***************************************************************************)
(* score_full_manifest and score_candidate over a decision per claim, whose*)
(* verdict is None where the run did not complete.                         *)
(***************************************************************************)
Decisions(cases, settings) ==
  {[claim |-> c, gold |-> cases[c].gold, replayed |-> Replay(cases[c], settings)] : c \in Claims}

F1(decisions, verdict) ==
  LET called == {d \in decisions : d.replayed.verdict = verdict}
      held   == {d \in decisions : d.gold = verdict}
      hits   == Cardinality(called \cap held)
  IN  IF hits = 0 THEN 0
      ELSE (2 * hits * Scale) \div (Cardinality(called) + Cardinality(held))

MacroF1(decisions) == MapThenSumSet(LAMBDA v : F1(decisions, v), Verdicts)

Outcome(cases, settings) ==
  LET decisions == Decisions(cases, settings) IN
  [settings |-> settings,
   quality  |-> MacroF1(decisions),
   tokens   |-> MapThenSumSet(LAMBDA d : d.replayed.tokens, decisions),
   routed   |-> Cardinality({d \in decisions : d.replayed.routed})]

\* score_candidate_grid
Outcomes(cases) == {Outcome(cases, s) : s \in Settings}

(***************************************************************************)
(* choose_candidate.                                                       *)
(***************************************************************************)
Best(outcomes) == Max({o.quality : o \in outcomes})

Eligible(outcomes) ==
  LET best == Best(outcomes) IN {o \in outcomes : o.quality >= best - Tolerance}

Before(o, p) ==
  \/ o.tokens < p.tokens
  \/ o.tokens = p.tokens /\ o.routed < p.routed
  \/ o.tokens = p.tokens /\ o.routed = p.routed /\ Rank[o.settings] < Rank[p.settings]

First(outcomes) == CHOOSE o \in outcomes : \A p \in outcomes \ {o} : Before(o, p)

Chosen(outcomes) == First(Eligible(outcomes))

\* attach_calibration_gold: as many cases of each verdict.
GoldAccepted(cases) ==
  \A v, w \in Verdicts :
    Cardinality({c \in Claims : cases[c].gold = v}) =
      Cardinality({c \in Claims : cases[c].gold = w})

=============================================================================
