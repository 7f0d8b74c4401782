--------------------------- MODULE PreparationProofs ---------------------------
(***************************************************************************)
(* Proofs about RoutingReplay and CampaignPreparation: for every grid,     *)
(* cohort and case, what the replay promises the deployed graph keeps,     *)
(* within the limits AgreesOn states, and thresholds trade tokens against  *)
(* completion.                                                             *)
(***************************************************************************)
EXTENDS CampaignPreparation, TLAPS

\* A saved result is the draft itself, or a failed result that has cost as much.
LEMMA SavedResult ==
  ASSUME NEW result \in Result
  PROVE  /\ Saved(result) \in Result
         /\ Saved(result).tokens = result.tokens
         /\ Saved(result).status # "failed" => Saved(result) = result
<1>1. CASE Action(result, Collected, FALSE) = "accept"
  BY <1>1 DEF Saved
<1>2. CASE Action(result, Collected, FALSE) # "accept"
  <2>1. Saved(result) = [result EXCEPT !.status = "failed", !.verdict = None,
                                       !.confidence = 0, !.coverage = 0]
    BY <1>2 DEF Saved, FailedResult
  <2>2. Saved(result).status = "failed" /\ Saved(result).tokens = result.tokens
    BY <2>1 DEF Result
  <2>3. Saved(result) = [status |-> "failed", verdict |-> None, confidence |-> 0,
                         coverage |-> 0, tokens |-> result.tokens]
    BY <2>1 DEF Result
  <2>4. result.tokens \in Nat
    BY DEF Result
  <2>5. Saved(result) \in Result
    BY <2>3, <2>4 DEF Result
  <2> QED BY <2>2, <2>5
<1> QED BY <1>1, <1>2

\* What collection saves of the multi run, recovered or not, is a result.
LEMMA SavedMultiResult ==
  ASSUME NEW case \in Case, NEW recovering \in BOOLEAN
  PROVE  /\ SavedMulti(case, recovering) \in Result
         /\ ~Recovered(case, recovering) => SavedMulti(case, recovering) = Saved(case.multi)
<1> DEFINE r == Saved(case.single)
<1>1. case.single \in Result /\ case.multi \in Result
  BY DEF Case
<1>2. r \in Result /\ Saved(case.multi) \in Result
  BY <1>1, SavedResult
<1>3. r.tokens \in Nat /\ case.multi.tokens \in Nat
  BY <1>1, <1>2 DEF Result
<1>4. [r EXCEPT !.tokens = @ + case.multi.tokens]
        = [status |-> r.status, verdict |-> r.verdict, confidence |-> r.confidence,
           coverage |-> r.coverage, tokens |-> r.tokens + case.multi.tokens]
  BY <1>2 DEF Result
<1>5. [r EXCEPT !.tokens = @ + case.multi.tokens] \in Result
  <2>1. r.tokens + case.multi.tokens \in Nat
    BY <1>3
  <2> HIDE DEF r
  <2>2. /\ r.status \in {"completed", "partial", "failed"}
        /\ r.verdict \in Verdicts \cup {None}
        /\ r.confidence \in Nat /\ r.coverage \in Nat
        /\ r.status = "failed" <=> r.verdict = None
    BY <1>2 DEF Result
  <2> QED BY <1>4, <2>1, <2>2 DEF Result
<1> QED BY <1>2, <1>5 DEF SavedMulti

\* The case file of a case differs from it in the two results only.
LEMMA SavedCaseFields ==
  ASSUME NEW case \in Case, NEW recovering \in BOOLEAN
  PROVE  /\ SavedCase(case, recovering) \in Case
         /\ SavedCase(case, recovering).features = case.features
         /\ SavedCase(case, recovering).route = case.route
         /\ SavedCase(case, recovering).router = case.router
         /\ SavedCase(case, recovering).single = Saved(case.single)
         /\ SavedCase(case, recovering).multi = SavedMulti(case, recovering)
<1>1. case.single \in Result
  BY DEF Case
<1>2. Saved(case.single) \in Result /\ SavedMulti(case, recovering) \in Result
  BY <1>1, SavedResult, SavedMultiResult
<1> QED BY <1>2 DEF SavedCase, Case

LEMMA RouteOfCase ==
  ASSUME NEW case \in Case, NEW s
  PROVE  Route(case, s) \in {"single", "multi"}
BY DEF Route, Case

LEMMA RouteOfSaved ==
  ASSUME NEW case \in Case, NEW s, NEW recovering \in BOOLEAN
  PROVE  /\ Route(SavedCase(case, recovering), s) = Route(case, s)
         /\ RouterTokens(SavedCase(case, recovering), s) = RouterTokens(case, s)
BY SavedCaseFields DEF Route, RouterTokens, RouteIsRuled

\* A failed result is never accepted nor escalated, and every other result is
\* accepted, escalated or failed by its flaws alone.
LEMMA ActionOf ==
  ASSUME NEW result, NEW s, NEW may \in BOOLEAN
  PROVE  /\ result.status = "failed" => Action(result, s, may) = "fail"
         /\ Action(result, s, may) = "accept" <=> result.status # "failed" /\ ~Flawed(result, s)
         /\ Action(result, s, may) = "escalate"
              <=> result.status # "failed" /\ Flawed(result, s) /\ may
BY DEF Action

\* An accepted result did not fail.
LEMMA AcceptedDidNotFail ==
  ASSUME NEW result, NEW s, Action(result, s, FALSE) = "accept"
  PROVE  result.status # "failed"
BY DEF Action

\* A case and its case file: results that did not fail survived collection, but
\* for a multi result it recovered.
Survives(saved, case, s, recovered) ==
  /\ Route(saved, s) = Route(case, s)
  /\ RouterTokens(saved, s) = RouterTokens(case, s)
  /\ saved.single.status # "failed" => saved.single = case.single
  /\ saved.single.tokens = case.single.tokens
  /\ ~recovered => /\ saved.multi.status # "failed" => saved.multi = case.multi
                   /\ saved.multi.tokens = case.multi.tokens

LEMMA SavedSurvives ==
  ASSUME NEW case \in Case, NEW s, NEW recovering \in BOOLEAN
  PROVE  Survives(SavedCase(case, recovering), case, s, Recovered(case, recovering))
<1>1. case.single \in Result /\ case.multi \in Result
  BY DEF Case
<1> QED BY <1>1, SavedCaseFields, SavedMultiResult, SavedResult, RouteOfSaved DEF Survives

\* Where deterministic_ambiguous has nothing to decide, router.route and the
\* replay take the same way at the same price.
LEMMA DeployedRouteIsRoute ==
  ASSUME NEW case, NEW s, NEW h, h.deterministic => RouteIsRuled(case, s)
  PROVE  /\ DeployedRoute(case, s, h) = Route(case, s)
         /\ DeployedRouterTokens(case, s, h) = RouterTokens(case, s)
BY DEF DeployedRoute, DeployedRouterTokens, RouterTokens

(***************************************************************************)
(* The second validation of an escalated run.                              *)
(***************************************************************************)
LEMMA AdjudicatedFields ==
  ASSUME NEW case \in Case
  PROVE  LET v == case.single.verdict  w == case.multi.verdict  a == Adjudicated(case) IN
         /\ a.status = case[case.cited].status
         /\ a.coverage = case[case.cited].coverage
         /\ a.verdict = IF v = w THEN v ELSE IF {v, w} = Sides THEN Conflicting ELSE NotEnough
         /\ a.confidence = IF case.single.confidence < case.multi.confidence
                             THEN case.single.confidence ELSE case.multi.confidence
<1>1. case[case.cited] \in Result
  BY DEF Case
<1>2. case[case.cited] \in [status : {"completed", "partial", "failed"},
                           verdict : Verdicts \cup {None}, confidence : Nat,
                           coverage : Nat, tokens : Nat]
  BY <1>1 DEF Result
<1> QED BY <1>2 DEF Adjudicated

\* An adjudicated result that is accepted takes no side, or the side of a multi
\* result that would have been accepted by itself: the single draft was too
\* weak, so that not its confidence but its coverage was, and the citations are
\* those of the multi result.
LEMMA AdjudicationTakesNoOtherSide ==
  ASSUME NEW case \in Case, NEW s \in Settings, CanAdjudicate(case),
         Flawed(case.single, s), Action(Adjudicated(case), s, FALSE) = "accept"
  PROVE  \/ Adjudicated(case).verdict \in {Conflicting, NotEnough}
         \/ /\ Action(case.multi, s, FALSE) = "accept"
            /\ Adjudicated(case).verdict = case.multi.verdict
<1> DEFINE a == Adjudicated(case)
<1> SUFFICES ASSUME case.single.verdict = case.multi.verdict,
                    case.multi.verdict # NotEnough
             PROVE  Action(case.multi, s, FALSE) = "accept" /\ a.verdict = case.multi.verdict
  BY AdjudicatedFields
<1>1. case.single.status = "completed" /\ case.multi.status = "completed"
  BY DEF CanAdjudicate
<1>2. /\ case.single.confidence \in Nat /\ case.multi.confidence \in Nat
      /\ s.confidence \in Nat /\ s.coverage \in Nat
      /\ case.single.coverage \in Nat /\ case.multi.coverage \in Nat
      /\ case.cited \in {"single", "multi"}
  BY ReplayAssumption DEF Case, Result, Settings
<1>3. ~Flawed(a, s)
  BY ActionOf
<1>4. a.verdict = case.multi.verdict
  BY AdjudicatedFields
<1>5. ~(a.coverage < s.coverage) /\ ~(a.confidence < s.confidence)
  BY <1>3, <1>4 DEF Flawed
<1>6. ~(case.single.confidence < s.confidence) /\ ~(case.multi.confidence < s.confidence)
  <2>1. a.confidence = IF case.single.confidence < case.multi.confidence
                         THEN case.single.confidence ELSE case.multi.confidence
    BY AdjudicatedFields
  <2> QED BY <1>2, <1>5, <2>1
<1>7. case.single.coverage < s.coverage
  BY <1>1, <1>6 DEF Flawed
<1>8. ~(case.multi.coverage < s.coverage)
  <2>1. a.coverage = case[case.cited].coverage
    BY AdjudicatedFields
  <2>2. case.cited # "single"
    BY <1>5, <1>7, <2>1
  <2>3. case.cited = "multi"
    BY <1>2, <2>2
  <2> QED BY <1>5, <2>1, <2>3
<1>9. ~Flawed(case.multi, s)
  BY <1>1, <1>6, <1>8 DEF Flawed
<1> QED BY <1>1, <1>4, <1>9 DEF Action

(***************************************************************************)
(* The three paths of a run.                                               *)
(***************************************************************************)
LEMMA MultiKeepsPromise ==
  ASSUME NEW case \in Case, NEW saved, NEW s \in Settings, NEW h \in Hardening,
         Survives(saved, case, s, FALSE), Route(case, s) = "multi",
         Replay(saved, s).verdict # None \/ (~h.recover /\ saved = case),
         h.deterministic => RouteIsRuled(case, s)
  PROVE  KeepsPromise(Deployed(case, s, h), Replay(saved, s), h)
<1>1. /\ Route(saved, s) = "multi" /\ RouterTokens(saved, s) = RouterTokens(case, s)
      /\ saved.multi.status # "failed" => saved.multi = case.multi
  BY DEF Survives
<1>2. Replay(saved, s) =
        [escalated |-> FALSE,
         verdict |-> IF Action(saved.multi, s, FALSE) = "accept" THEN saved.multi.verdict ELSE None,
         tokens |-> RouterTokens(saved, s) + saved.multi.tokens + 0,
         routed |-> ~RouteIsRuled(saved, s)]
  BY <1>1, ActionOf DEF Replay
<1>3. Replay(saved, s).verdict # None => Action(saved.multi, s, FALSE) = "accept"
  <2>1. Replay(saved, s).verdict =
          IF Action(saved.multi, s, FALSE) = "accept" THEN saved.multi.verdict ELSE None
    BY <1>2
  <2> QED BY <2>1
<1>4. saved.multi = case.multi
  BY <1>1, <1>3, AcceptedDidNotFail
<1>5. h.recover => Action(case.multi, s, FALSE) = "accept"
  BY <1>3, <1>4
<1>6. DeployedRoute(case, s, h) = "multi"
      /\ DeployedRouterTokens(case, s, h) = RouterTokens(case, s)
  BY DeployedRouteIsRoute
<1>7. Deployed(case, s, h) =
        [escalated |-> FALSE,
         verdict |-> IF Action(case.multi, s, FALSE) = "accept" THEN case.multi.verdict ELSE None,
         tokens |-> RouterTokens(case, s) + case.multi.tokens + 0 + 0]
  BY <1>5, <1>6 DEF Deployed
<1>8. case.multi.tokens \in Int /\ RouterTokens(case, s) \in Int
  BY DEF Case, Result, RouterTokens
<1>9. /\ Deployed(case, s, h).tokens = Replay(saved, s).tokens
      /\ Deployed(case, s, h).escalated = Replay(saved, s).escalated
      /\ Deployed(case, s, h).verdict = Replay(saved, s).verdict
  BY <1>1, <1>2, <1>4, <1>7, <1>8
<1> QED BY <1>9 DEF KeepsPromise

\* An escalated run: the second validation may be of an adjudicated result, and
\* a recovery after it judges the weak single draft once more, in vain.
LEMMA EscalationKeepsPromise ==
  ASSUME NEW case \in Case, NEW saved, NEW s \in Settings, NEW h \in Hardening,
         Survives(saved, case, s, FALSE), Route(case, s) = "single",
         Action(saved.single, s, TRUE) = "escalate",
         Replay(saved, s).verdict # None \/ (~h.recover /\ saved = case),
         h.deterministic => RouteIsRuled(case, s)
  PROVE  KeepsPromise(Deployed(case, s, h), Replay(saved, s), h)
<1> DEFINE judged == EscalatedDraft(case, h)
           recovered == h.recover /\ Action(judged, s, FALSE) = "fail"
           final == IF recovered THEN case.single ELSE judged
<1>1. /\ Route(saved, s) = "single" /\ RouterTokens(saved, s) = RouterTokens(case, s)
      /\ saved.single = case.single
      /\ saved.multi.status # "failed" => saved.multi = case.multi
  BY ActionOf DEF Survives
<1>2. Replay(saved, s) =
        [escalated |-> TRUE,
         verdict |-> IF Action(saved.multi, s, FALSE) = "accept" THEN saved.multi.verdict ELSE None,
         tokens |-> RouterTokens(saved, s) + saved.single.tokens + saved.multi.tokens,
         routed |-> ~RouteIsRuled(saved, s)]
  BY <1>1 DEF Replay
<1>3. Replay(saved, s).verdict # None => Action(saved.multi, s, FALSE) = "accept"
  <2>1. Replay(saved, s).verdict =
          IF Action(saved.multi, s, FALSE) = "accept" THEN saved.multi.verdict ELSE None
    BY <1>2
  <2> QED BY <2>1
<1>4. saved.multi = case.multi
  BY <1>1, <1>3, AcceptedDidNotFail
<1>5. h.recover => Action(case.multi, s, FALSE) = "accept"
  BY <1>3, <1>4
<1>6. Flawed(case.single, s) /\ Action(case.single, s, FALSE) # "accept"
  BY <1>1, ActionOf
<1>7. /\ DeployedRoute(case, s, h) = "single"
      /\ DeployedRouterTokens(case, s, h) = RouterTokens(case, s)
  BY DeployedRouteIsRoute
<1>8. Deployed(case, s, h) =
        [escalated |-> TRUE,
         verdict |-> IF Action(final, s, FALSE) = "accept" THEN final.verdict ELSE None,
         tokens |-> RouterTokens(case, s) + case.single.tokens + case.multi.tokens + 0]
  BY <1>1, <1>7 DEF Deployed
<1>9. /\ case.multi.tokens \in Int /\ case.single.tokens \in Int
      /\ RouterTokens(case, s) \in Int
  BY DEF Case, Result, RouterTokens
<1>10. /\ Deployed(case, s, h).tokens = Replay(saved, s).tokens
       /\ Deployed(case, s, h).escalated /\ Replay(saved, s).escalated
  BY <1>1, <1>2, <1>4, <1>8, <1>9
<1>11. /\ Deployed(case, s, h).verdict
            = IF Action(final, s, FALSE) = "accept" THEN final.verdict ELSE None
       /\ Replay(saved, s).verdict
            = IF Action(case.multi, s, FALSE) = "accept" THEN case.multi.verdict ELSE None
  BY <1>2, <1>4, <1>8
<1>12. CASE h.adjudicate /\ CanAdjudicate(case)
  <2>1. judged = Adjudicated(case)
    BY <1>12 DEF EscalatedDraft
  <2>2. CASE Action(final, s, FALSE) # "accept"
    BY <1>10, <1>11, <1>12, <2>2 DEF KeepsPromise
  <2>3. CASE Action(final, s, FALSE) = "accept"
    <3>1. final = Adjudicated(case)
      BY <1>6, <2>1, <2>3
    <3>2. \/ Adjudicated(case).verdict \in {Conflicting, NotEnough}
          \/ /\ Action(case.multi, s, FALSE) = "accept"
             /\ Adjudicated(case).verdict = case.multi.verdict
      BY <1>6, <1>12, <2>3, <3>1, AdjudicationTakesNoOtherSide
    <3>3. Deployed(case, s, h).verdict = Adjudicated(case).verdict
      <4>1. Deployed(case, s, h).verdict = final.verdict
        BY <1>11, <2>3
      <4> HIDE DEF final
      <4> QED BY <3>1, <4>1
    <3> QED BY <1>10, <1>11, <1>12, <3>2, <3>3 DEF KeepsPromise
  <2> QED BY <2>2, <2>3
<1>13. CASE ~(h.adjudicate /\ CanAdjudicate(case))
  <2>1. judged = case.multi
    BY <1>13 DEF EscalatedDraft
  <2>2. final = case.multi
    BY <1>5, <2>1
  <2> QED BY <1>10, <1>11, <2>2 DEF KeepsPromise
<1> QED BY <1>12, <1>13

LEMMA SingleKeepsPromise ==
  ASSUME NEW case \in Case, NEW saved, NEW s \in Settings, NEW h \in Hardening,
         NEW recovered \in BOOLEAN,
         Survives(saved, case, s, recovered), Route(case, s) = "single",
         Action(saved.single, s, TRUE) # "escalate",
         Replay(saved, s).verdict # None \/ (~h.recover /\ saved = case),
         h.deterministic => RouteIsRuled(case, s)
  PROVE  KeepsPromise(Deployed(case, s, h), Replay(saved, s), h)
<1>1. /\ Route(saved, s) = "single" /\ RouterTokens(saved, s) = RouterTokens(case, s)
      /\ saved.single.status # "failed" => saved.single = case.single
  BY DEF Survives
<1>2. Replay(saved, s) =
        [escalated |-> FALSE,
         verdict |-> IF Action(saved.single, s, FALSE) = "accept" THEN saved.single.verdict
                     ELSE None,
         tokens |-> RouterTokens(saved, s) + saved.single.tokens + 0,
         routed |-> ~RouteIsRuled(saved, s)]
  BY <1>1 DEF Replay
<1>3. Replay(saved, s).verdict # None => Action(saved.single, s, FALSE) = "accept"
  <2>1. Replay(saved, s).verdict =
          IF Action(saved.single, s, FALSE) = "accept" THEN saved.single.verdict ELSE None
    BY <1>2
  <2> QED BY <2>1
<1>4. saved.single = case.single
  BY <1>1, <1>3, AcceptedDidNotFail
<1>5. /\ DeployedRoute(case, s, h) = "single" /\ DeployedRoute(case, s, h) # "multi"
      /\ DeployedRouterTokens(case, s, h) = RouterTokens(case, s)
  BY DeployedRouteIsRoute
<1>6. Deployed(case, s, h) =
        [escalated |-> FALSE,
         verdict |-> IF Action(case.single, s, FALSE) = "accept" THEN case.single.verdict
                     ELSE None,
         tokens |-> RouterTokens(case, s) + case.single.tokens + 0 + 0]
  BY <1>4, <1>5 DEF Deployed
<1>7. case.single.tokens \in Int /\ RouterTokens(case, s) \in Int
  BY DEF Case, Result, RouterTokens
<1>8. /\ Deployed(case, s, h).tokens = Replay(saved, s).tokens
      /\ Deployed(case, s, h).escalated = Replay(saved, s).escalated
      /\ Deployed(case, s, h).verdict = Replay(saved, s).verdict
  BY <1>1, <1>2, <1>4, <1>6, <1>7
<1> QED BY <1>8 DEF KeepsPromise

\* The promise of one case (calibration.py:865 against graph.py:99, :297, :317
\* and routing.py:55), in every hardening of the graph, for claims that
\* deterministic_ambiguous leaves alone and results not recovered by collection.
THEOREM ReplayIsKept ==
  ASSUME NEW case \in Case PROVE AgreesOn(case)
<1> SUFFICES ASSUME NEW s \in Settings, NEW recovering \in BOOLEAN, NEW h \in Hardening,
                    \/ Replay(SavedCase(case, recovering), s).verdict # None
                    \/ ~h.recover /\ SavedCase(case, recovering) = case,
                    h.deterministic => RouteIsRuled(case, s),
                    Recovered(case, recovering) =>
                      /\ Route(case, s) = "single"
                      /\ ~Replay(SavedCase(case, recovering), s).escalated
             PROVE  KeepsPromise(Deployed(case, s, h), Replay(SavedCase(case, recovering), s), h)
  BY DEF AgreesOn
<1> DEFINE saved == SavedCase(case, recovering)
<1>1. Survives(saved, case, s, Recovered(case, recovering))
  BY SavedSurvives
<1>2. Recovered(case, recovering) \in BOOLEAN
  BY DEF Recovered
<1>3. Route(case, s) \in {"single", "multi"} /\ Route(saved, s) = Route(case, s)
  BY <1>1, RouteOfCase DEF Survives
<1>4. CASE Route(case, s) = "multi"
  BY <1>1, <1>2, <1>4, MultiKeepsPromise DEF Survives
<1>5. CASE Route(case, s) = "single" /\ Action(saved.single, s, TRUE) = "escalate"
  <2>1. Replay(saved, s).escalated
    BY <1>3, <1>5 DEF Replay
  <2>2. Survives(saved, case, s, FALSE)
    BY <1>1, <1>2, <2>1
  <2> QED BY <1>5, <2>2, EscalationKeepsPromise
<1>6. CASE Route(case, s) = "single" /\ Action(saved.single, s, TRUE) # "escalate"
  BY <1>1, <1>2, <1>6, SingleKeepsPromise
<1> QED BY <1>3, <1>4, <1>5, <1>6

(***************************************************************************)
(* Thresholds.                                                             *)
(***************************************************************************)
\* "t" asks for no less than "s" and routes alike.
Stricter(t, s) ==
  /\ t.clauses = s.clauses /\ t.sources = s.sources
  /\ {s.confidence, t.confidence, s.coverage, t.coverage} \subseteq Int
  /\ t.confidence >= s.confidence /\ t.coverage >= s.coverage

LEMMA FlawsGrow ==
  ASSUME NEW result \in Result, NEW s, NEW t, Stricter(t, s), Flawed(result, s)
  PROVE  Flawed(result, t)
<1>1. result.confidence \in Int /\ result.coverage \in Int
  BY DEF Result
<1> QED BY <1>1 DEF Stricter, Flawed

\* What the stricter thresholds accept the others accept, and what these
\* escalate those escalate.
LEMMA ActionsOfStricter ==
  ASSUME NEW result \in Result, NEW s, NEW t, Stricter(t, s)
  PROVE  /\ Action(result, t, TRUE) = "accept" => Action(result, s, TRUE) = "accept"
         /\ Action(result, t, FALSE) = "accept" => Action(result, s, FALSE) = "accept"
         /\ Action(result, s, TRUE) = "escalate" => Action(result, t, TRUE) = "escalate"
<1>1. Flawed(result, s) => Flawed(result, t)
  BY FlawsGrow
<1> QED BY <1>1 DEF Action

LEMMA AcceptedHasVerdict ==
  ASSUME NEW result \in Result, NEW s, Action(result, s, FALSE) = "accept"
  PROVE  result.verdict # None
BY AcceptedDidNotFail DEF Result

LEMMA AcceptNeedsNoEscalation ==
  ASSUME NEW result, NEW s
  PROVE  /\ Action(result, s, FALSE) = "accept" <=> Action(result, s, TRUE) = "accept"
         /\ Action(result, s, TRUE) \in {"accept", "escalate", "fail"}
BY DEF Action

\* The replay, path by path.
LEMMA ReplayOfMulti ==
  ASSUME NEW case \in Case, NEW s, Route(case, s) = "multi"
  PROVE  /\ Replay(case, s).tokens = RouterTokens(case, s) + case.multi.tokens
         /\ Replay(case, s).verdict # None => Action(case.multi, s, FALSE) = "accept"
         /\ Action(case.multi, s, FALSE) = "accept" => Replay(case, s).verdict # None
<1>1. Replay(case, s) =
        [escalated |-> FALSE,
         verdict |-> IF Action(case.multi, s, FALSE) = "accept" THEN case.multi.verdict ELSE None,
         tokens |-> RouterTokens(case, s) + case.multi.tokens + 0,
         routed |-> ~RouteIsRuled(case, s)]
  BY ActionOf DEF Replay
<1>2. case.multi \in Result /\ case.multi.tokens \in Int /\ RouterTokens(case, s) \in Int
  BY DEF Case, Result, RouterTokens
<1>3. Action(case.multi, s, FALSE) = "accept" => case.multi.verdict # None
  BY <1>2, AcceptedHasVerdict
<1>4. Replay(case, s).tokens = RouterTokens(case, s) + case.multi.tokens
  BY <1>1, <1>2
<1>5. Replay(case, s).verdict =
        IF Action(case.multi, s, FALSE) = "accept" THEN case.multi.verdict ELSE None
  BY <1>1
<1> QED BY <1>3, <1>4, <1>5

LEMMA ReplayOfEscalated ==
  ASSUME NEW case \in Case, NEW s, Route(case, s) = "single",
         Action(case.single, s, TRUE) = "escalate"
  PROVE  /\ Replay(case, s).tokens
              = RouterTokens(case, s) + case.single.tokens + case.multi.tokens
         /\ Replay(case, s).verdict # None => Action(case.multi, s, FALSE) = "accept"
         /\ Action(case.multi, s, FALSE) = "accept" => Replay(case, s).verdict # None
<1>1. Replay(case, s) =
        [escalated |-> TRUE,
         verdict |-> IF Action(case.multi, s, FALSE) = "accept" THEN case.multi.verdict ELSE None,
         tokens |-> RouterTokens(case, s) + case.single.tokens + case.multi.tokens,
         routed |-> ~RouteIsRuled(case, s)]
  BY DEF Replay
<1>2. case.multi \in Result
  BY DEF Case
<1>3. Action(case.multi, s, FALSE) = "accept" => case.multi.verdict # None
  BY <1>2, AcceptedHasVerdict
<1>4. Replay(case, s).tokens
        = RouterTokens(case, s) + case.single.tokens + case.multi.tokens
  BY <1>1
<1>5. Replay(case, s).verdict =
        IF Action(case.multi, s, FALSE) = "accept" THEN case.multi.verdict ELSE None
  BY <1>1
<1> QED BY <1>3, <1>4, <1>5

LEMMA ReplayOfSingle ==
  ASSUME NEW case \in Case, NEW s, Route(case, s) = "single",
         Action(case.single, s, TRUE) # "escalate"
  PROVE  /\ Replay(case, s).tokens = RouterTokens(case, s) + case.single.tokens
         /\ Replay(case, s).verdict # None => Action(case.single, s, TRUE) = "accept"
         /\ Action(case.single, s, TRUE) = "accept" => Replay(case, s).verdict # None
<1>1. Replay(case, s) =
        [escalated |-> FALSE,
         verdict |-> IF Action(case.single, s, FALSE) = "accept" THEN case.single.verdict
                     ELSE None,
         tokens |-> RouterTokens(case, s) + case.single.tokens + 0,
         routed |-> ~RouteIsRuled(case, s)]
  BY DEF Replay
<1>2. case.single \in Result /\ case.single.tokens \in Int /\ RouterTokens(case, s) \in Int
  BY DEF Case, Result, RouterTokens
<1>3. Action(case.single, s, FALSE) = "accept" => case.single.verdict # None
  BY <1>2, AcceptedHasVerdict
<1>4. Action(case.single, s, FALSE) = "accept" <=> Action(case.single, s, TRUE) = "accept"
  BY AcceptNeedsNoEscalation
<1>5. Replay(case, s).tokens = RouterTokens(case, s) + case.single.tokens
  BY <1>1, <1>2
<1>6. Replay(case, s).verdict =
        IF Action(case.single, s, FALSE) = "accept" THEN case.single.verdict ELSE None
  BY <1>1
<1> QED BY <1>3, <1>4, <1>5, <1>6

LEMMA StricterReplay ==
  ASSUME NEW case \in Case, NEW s, NEW t, Stricter(t, s)
  PROVE  /\ Replay(case, t).tokens >= Replay(case, s).tokens
         /\ Replay(case, t).verdict # None => Replay(case, s).verdict # None
<1>1. /\ Route(case, t) = Route(case, s)
      /\ RouterTokens(case, t) = RouterTokens(case, s)
  BY DEF Stricter, Route, RouterTokens, RouteIsRuled, ClearMulti, ClearSingle
<1>2. /\ case.single \in Result /\ case.multi \in Result
      /\ case.single.tokens \in Nat /\ case.multi.tokens \in Nat
      /\ RouterTokens(case, s) \in Nat
  BY DEF Case, Result, RouterTokens
<1>3. Route(case, s) \in {"single", "multi"}
  BY RouteOfCase
<1>7. Action(case.multi, t, FALSE) = "accept" => Action(case.multi, s, FALSE) = "accept"
  BY <1>2, ActionsOfStricter
<1>8. /\ Action(case.single, t, TRUE) = "accept" => Action(case.single, s, TRUE) = "accept"
      /\ Action(case.single, s, TRUE) = "escalate" => Action(case.single, t, TRUE) = "escalate"
  BY <1>2, ActionsOfStricter
<1>4. CASE Route(case, s) = "multi"
  <2>1. /\ Replay(case, s).tokens = RouterTokens(case, s) + case.multi.tokens
        /\ Replay(case, s).verdict # None => Action(case.multi, s, FALSE) = "accept"
        /\ Action(case.multi, s, FALSE) = "accept" => Replay(case, s).verdict # None
    BY <1>4, ReplayOfMulti
  <2>2. /\ Replay(case, t).tokens = RouterTokens(case, s) + case.multi.tokens
        /\ Replay(case, t).verdict # None => Action(case.multi, t, FALSE) = "accept"
        /\ Action(case.multi, t, FALSE) = "accept" => Replay(case, t).verdict # None
    BY <1>1, <1>4, ReplayOfMulti
  <2>8. Replay(case, t).tokens >= Replay(case, s).tokens
    BY <1>2, <2>1, <2>2
  <2>9. Replay(case, t).verdict # None => Replay(case, s).verdict # None
    BY <1>7, <2>1, <2>2
  <2> QED BY <2>8, <2>9
<1>5. CASE Route(case, s) = "single" /\ Action(case.single, t, TRUE) = "escalate"
  <2>1. /\ Replay(case, t).tokens
             = RouterTokens(case, s) + case.single.tokens + case.multi.tokens
        /\ Replay(case, t).verdict # None => Action(case.multi, t, FALSE) = "accept"
        /\ Action(case.multi, t, FALSE) = "accept" => Replay(case, t).verdict # None
    BY <1>1, <1>5, ReplayOfEscalated
  <2>2. CASE Action(case.single, s, TRUE) = "escalate"
    <3>1. /\ Replay(case, s).tokens
               = RouterTokens(case, s) + case.single.tokens + case.multi.tokens
          /\ Replay(case, s).verdict # None => Action(case.multi, s, FALSE) = "accept"
          /\ Action(case.multi, s, FALSE) = "accept" => Replay(case, s).verdict # None
      BY <1>5, <2>2, ReplayOfEscalated
    <3>8. Replay(case, t).tokens >= Replay(case, s).tokens
      BY <1>2, <2>1, <3>1
    <3>9. Replay(case, t).verdict # None => Replay(case, s).verdict # None
      BY <1>7, <2>1, <3>1
    <3> QED BY <3>8, <3>9
  <2>3. CASE Action(case.single, s, TRUE) # "escalate"
    <3>1. /\ Replay(case, s).tokens = RouterTokens(case, s) + case.single.tokens
          /\ Replay(case, s).verdict # None => Action(case.single, s, TRUE) = "accept"
          /\ Action(case.single, s, TRUE) = "accept" => Replay(case, s).verdict # None
      BY <1>5, <2>3, ReplayOfSingle
    <3>2. Action(case.single, s, TRUE) # "fail"
      BY <1>5 DEF Action
    <3>3. Action(case.single, s, TRUE) = "accept"
      BY <2>3, <3>2, AcceptNeedsNoEscalation
    <3> QED BY <1>2, <2>1, <3>1, <3>3
  <2> QED BY <2>2, <2>3
<1>6. CASE Route(case, s) = "single" /\ Action(case.single, t, TRUE) # "escalate"
  <2>1. /\ Replay(case, s).tokens = RouterTokens(case, s) + case.single.tokens
        /\ Replay(case, s).verdict # None => Action(case.single, s, TRUE) = "accept"
        /\ Action(case.single, s, TRUE) = "accept" => Replay(case, s).verdict # None
    BY <1>6, <1>8, ReplayOfSingle
  <2>2. /\ Replay(case, t).tokens = RouterTokens(case, s) + case.single.tokens
        /\ Replay(case, t).verdict # None => Action(case.single, t, TRUE) = "accept"
        /\ Action(case.single, t, TRUE) = "accept" => Replay(case, t).verdict # None
    BY <1>1, <1>6, ReplayOfSingle
  <2>8. Replay(case, t).tokens >= Replay(case, s).tokens
    BY <1>2, <2>1, <2>2
  <2>9. Replay(case, t).verdict # None => Replay(case, s).verdict # None
    BY <1>8, <2>1, <2>2
  <2> QED BY <2>8, <2>9
<1> QED BY <1>3, <1>4, <1>5, <1>6

\* The trade of one case (calibration.py:865).
THEOREM DearerOfCase ==
  ASSUME NEW case \in Case PROVE DearerOn(case)
<1> SUFFICES ASSUME NEW s \in Settings,
                    NEW confidence \in Levels, confidence >= s.confidence,
                    NEW coverage \in Levels, coverage >= s.coverage
             PROVE  LET t == [s EXCEPT !.confidence = confidence, !.coverage = coverage] IN
                    /\ Replay(case, t).tokens >= Replay(case, s).tokens
                    /\ Replay(case, t).verdict # None => Replay(case, s).verdict # None
  BY DEF DearerOn
<1>1. Stricter([s EXCEPT !.confidence = confidence, !.coverage = coverage], s)
  BY ReplayAssumption DEF Stricter, Settings
<1> QED BY <1>1, StricterReplay

(***************************************************************************)
(* The machine: drafts only ever become those of a cohort.                 *)
(***************************************************************************)
DraftsInv == drafts \in [Activities -> {None} \cup [Claims -> Case]]

LEMMA DraftsInit == Init => DraftsInv
BY DEF Init, DraftsInv

LEMMA DraftsStep ==
  ASSUME DraftsInv, [Next]_vars
  PROVE  /\ DraftsInv'
         /\ \A a \in Activities : drafts'[a] # drafts[a] => drafts'[a] \in [Claims -> Case]
<1> SUFFICES ASSUME drafts' # drafts
             PROVE  /\ DraftsInv'
                    /\ \A a \in Activities :
                         drafts'[a] # drafts[a] => drafts'[a] \in [Claims -> Case]
  BY DEF DraftsInv
<1>1. PICK a \in Activities : CloseCalibration(a)
  BY DEF Next, vars, BeginReplay, LoadInputs, Start, Resume, WriteConfig, WriteReport,
         WriteMetadata, ReplayDies, Commit, EvaluationEnds
<1>2. PICK d \in Cohorts : drafts' = [drafts EXCEPT ![a] = d[a]]
  BY <1>1 DEF CloseCalibration
<1>3. d[a] \in [Claims -> Case]
  BY PreparationAssumption
<1> QED BY <1>2, <1>3 DEF DraftsInv

LEMMA DraftsAlways == Spec => []DraftsInv
<1>1. DraftsInv /\ [Next]_vars => DraftsInv'
  BY DraftsStep
<1> QED BY DraftsInit, <1>1, PTL DEF Spec

\* Within the limits AgreesOn states, no candidate is chosen for a path or a price
\* the deployed graph, however it is hardened, would not show on the same drafts,
\* nor for a verdict, but for what an adjudication withdraws (calibration.py:865,
\* graph.py:99, :297).
THEOREM ReplayAgreesTheorem == Spec => ReplayAgrees
<1>1. DraftsInv /\ [Next]_vars
        => [\A a \in Activities :
              drafts'[a] # drafts[a] => \A c \in Claims : AgreesOn(drafts'[a][c])]_drafts
  <2> SUFFICES ASSUME DraftsInv, [Next]_vars, NEW a \in Activities,
                      drafts'[a] # drafts[a], NEW c \in Claims
               PROVE  AgreesOn(drafts'[a][c])
    OBVIOUS
  <2>1. drafts'[a][c] \in Case
    BY DraftsStep
  <2> QED BY <2>1, ReplayIsKept
<1> QED BY <1>1, DraftsAlways, PTL DEF Spec, ReplayAgrees

\* Thresholds never make a case cheaper nor complete more (calibration.py:865).
THEOREM StricterIsDearerTheorem == Spec => StricterIsDearer
<1>1. DraftsInv /\ [Next]_vars
        => [\A a \in Activities : drafts'[a] # drafts[a] =>
              \A c \in Claims :
                \A saved \in {SavedCase(drafts'[a][c], recovering) : recovering \in BOOLEAN} :
                  DearerOn(saved)]_drafts
  <2> SUFFICES ASSUME DraftsInv, [Next]_vars, NEW a \in Activities,
                      drafts'[a] # drafts[a], NEW c \in Claims, NEW recovering \in BOOLEAN
               PROVE  DearerOn(SavedCase(drafts'[a][c], recovering))
    OBVIOUS
  <2>1. drafts'[a][c] \in Case
    BY DraftsStep
  <2>2. SavedCase(drafts'[a][c], recovering) \in Case
    BY <2>1, SavedCaseFields
  <2> QED BY <2>2, DearerOfCase
<1> QED BY <1>1, DraftsAlways, PTL DEF Spec, StricterIsDearer

=============================================================================
