------------------------ MODULE VerificationGraphProofs ------------------------
(***************************************************************************)
(* What holds of the verification graph for any tasks, drafts, splits and  *)
(* number of process starts.  The ledger only grows, so whatever the graph *)
(* in memory and the graph of a checkpoint have read from it stays true,   *)
(* and a run that starts again from any checkpoint is as sound as the one  *)
(* that wrote it.                                                          *)
(***************************************************************************)
EXTENDS VerificationGraph, FiniteSetTheorems, SequenceTheorems, TLAPS

(***************************************************************************)
(* The inductive invariant.  Its parts are stated for a claim c, a ledger  *)
(* l and a graph g, since they hold of the graph in memory and of the one  *)
(* in the checkpoint alike.                                                *)
(***************************************************************************)

\* The call of slot s is on record with answer a.
Known(l, s, a) == l[s] # None /\ l[s].answer = a

\* The nodes a strategy leads to.
Path(c, g) ==
  /\ g.node = "single" => c.strategy # "multi"
  /\ g.node \in {"decompose", "worker", "judge", "single_recovery"} => c.strategy # "single"
  /\ g.node = "single_recovery" => c.options.recover
  /\ g.origin = "multi" => c.strategy # "single"

\* What a task yielded as its answer is on record.
WorkKnown(l, w) == \A s \in Slots : w[s] \in Answers[s] => Known(l, s, w[s])

\* A draft too weak to be accepted, by the flaws a verifier's draft can have.
Weak(d) == d.low \/ (d.uncovered /\ d.verdict # NotEnough)

\* The single verifier's answer on record is weak.
WeakOnRecord(l) == \E d \in Drafts : Known(l, "single", d) /\ Weak(d)

\* Candidate r is the single verifier's draft on record, and weak.
WeakCandidate(l, r) ==
  /\ r.status = "completed"
  /\ \E d \in Drafts : Known(l, "single", d) /\ Weak(d) /\ r.verdict = d.verdict

\* Every task of the claim has a worker's valid answer on record.
Examined(l, g) == \A t \in g.tasks : \E a \in WorkerAnswers : Known(l, t, a)

\* Before the first draft.
Fresh(g) ==
  g.origin = None /\ g.escalations = 0 /\ ~g.fallback /\ g.candidates = <<>> /\ g.final = None

\* While the workers and the judge are at work: an escalated run has a weak
\* single draft behind it.
Escalated(l, g) ==
  /\ ~g.fallback /\ g.final = None
  /\ g.escalations = 0 => g.origin = None /\ g.candidates = <<>>
  /\ g.escalations = 1 =>
       /\ g.origin = "single" /\ WeakOnRecord(l)
       /\ \E r \in Results : g.candidates = <<r>> /\ WeakCandidate(l, r)

\* What the workers found, a failure apart, is on record.
Found(l, g) ==
  \A t \in g.tasks : g.results[t] = "failed" \/ \E a \in WorkerAnswers : Known(l, t, a)

\* The draft of the single verifier: a failure, or its answer on record.
SingleDraft(l, g) ==
  /\ g.candidates = <<g.draft>>
  /\ \/ g.draft.status = "failed"
     \/ \E d \in Drafts :
          /\ Known(l, "single", d) /\ g.draft.status = "completed"
          /\ g.draft.low = d.low /\ g.draft.uncovered = d.uncovered /\ g.draft.verdict = d.verdict

\* The draft of the judge: its answer on record, partial if a task is unexamined.
JudgeDraft(l, g) ==
  /\ ~g.fallback
  /\ \E d \in Drafts : Known(l, "judge", d) /\ g.draft.verdict = d.verdict
  /\ g.draft.status = "completed" => Examined(l, g)
  /\ g.escalations = 0 => g.candidates = <<g.draft>>
  /\ g.escalations = 1 =>
       /\ WeakOnRecord(l)
       /\ \E r \in Results : g.candidates = <<r, g.draft>> /\ WeakCandidate(l, r)

\* The draft before the validator.
Drafted(l, g) ==
  /\ g.draft \in Results /\ g.final = None /\ g.origin \in {"single", "multi"}
  /\ g.origin = "single" =>
       SingleDraft(l, g) /\ (g.escalations = 1 => g.fallback /\ WeakOnRecord(l))
  /\ g.origin = "multi" => JudgeDraft(l, g)

\* The result.
Ended(c, l, g) ==
  /\ g.final \in Results
  /\ g.final.status = "completed" /\ g.origin = "multi" => Examined(l, g)
  /\ g.escalations = 1 /\ g.fallback => g.final.status = "failed"
  /\ /\ g.final.status = "completed" /\ g.escalations = 1 /\ c.options.adjudicate
     /\ g.final.verdict \in {Supported, Refuted}
     => \A s \in {"single", "judge"} :
          \E d \in Drafts : Known(l, s, d) /\ d.verdict = g.final.verdict

\* What the graph has gone through, by the node it is at.
Sound(c, l, g) ==
  /\ Path(c, g)
  /\ g.node \in {"analyze", "route", "single"} => Fresh(g)
  /\ g.node \in {"decompose", "worker", "judge"} => Escalated(l, g)
  /\ g.node = "judge" => Found(l, g)
  /\ g.node = "single_recovery" =>
       g.fallback /\ g.final = None /\ (g.escalations = 1 => WeakOnRecord(l))
  /\ g.node = "validate" => Drafted(l, g)
  /\ g.node = "end" => Ended(c, l, g)

\* A call is paid for when it enters the ledger.
PaidOnRecord == \A s \in Slots : paid[s] = IF ledger[s] = None THEN 0 ELSE 1

\* A call that is awaited has no answer yet; no checkpoint awaits one.
Pending ==
  \A s \in Slots : saved.work[s] # Asked /\ (work[s] = Asked => Known(ledger, s, None))

\* The types, with the functions over slots as functions; a process that died
\* has a successor.
GraphTypes ==
  /\ TypeOK
  /\ process = "down" => starts < MaxStarts
  /\ DOMAIN work = Slots /\ DOMAIN saved.work = Slots
  /\ DOMAIN ledger = Slots /\ DOMAIN paid = Slots

\* The inductive invariant.
GraphInv ==
  /\ GraphTypes /\ PaidOnRecord /\ Pending /\ CallsWithinProfile
  /\ WorkKnown(ledger, work) /\ WorkKnown(ledger, saved.work)
  /\ Sound(claim, ledger, graph) /\ Sound(claim, ledger, saved.graph)

(***************************************************************************)
(* Slots and answers.                                                      *)
(***************************************************************************)

\* The answers of each slot; no marker is one.
LEMMA AnswersOf ==
  /\ Answers["router"] = {Invalid, "single", "multi"}
  /\ Answers["decomposer"] = {Invalid} \cup Splits
  /\ \A s \in {"single", "judge"} : Answers[s] = {Invalid} \cup Drafts
  /\ \A t \in Tasks : Answers[t] = {Invalid} \cup WorkerAnswers
  /\ {"router", "decomposer", "single", "judge"} \cup Tasks = Slots
  /\ Tasks \cap {"router", "single", "decomposer", "judge"} = {}
BY GraphAssumption DEF Answers, Slots, Workers

\* An answer is none of the markers.
LEMMA AnswersAreAnswers ==
  ASSUME NEW s \in Slots, NEW a \in Answers[s]
  PROVE  a \notin {None, Todo, Asked, Mismatch, Unretrieved}
BY MarkerAssumption

(***************************************************************************)
(* The ledger grows.                                                       *)
(***************************************************************************)

\* Every answer on record in l is on record in m.
Grows(l, m) == \A s \in Slots : \A a \in Answers[s] : Known(l, s, a) => Known(m, s, a)

\* What is sound over a ledger is sound over any that it grows into.
LEMMA SoundStays ==
  ASSUME NEW c, NEW l, NEW m, NEW g \in Graph, Grows(l, m), Sound(c, l, g)
  PROVE  Sound(c, m, g)
<1>1. \A d \in Drafts : /\ Known(l, "single", d) => Known(m, "single", d)
                        /\ Known(l, "judge", d) => Known(m, "judge", d)
  BY AnswersOf DEF Grows
<1>2. \A t \in Tasks, a \in WorkerAnswers : Known(l, t, a) => Known(m, t, a)
  BY AnswersOf DEF Grows
<1>3. g.tasks \subseteq Tasks
  BY DEF Graph
<1>4. WeakOnRecord(l) => WeakOnRecord(m)
  BY <1>1 DEF WeakOnRecord
<1>5. \A r : WeakCandidate(l, r) => WeakCandidate(m, r)
  BY <1>1 DEF WeakCandidate
<1>6. Examined(l, g) => Examined(m, g)
  BY <1>2, <1>3 DEF Examined
<1>7. Escalated(l, g) => Escalated(m, g)
  BY <1>4, <1>5 DEF Escalated
<1>8. Found(l, g) => Found(m, g)
  BY <1>2, <1>3 DEF Found
<1>9. Drafted(l, g) => Drafted(m, g)
  <2>1. SingleDraft(l, g) => SingleDraft(m, g)
    BY <1>1 DEF SingleDraft
  <2>2. JudgeDraft(l, g) => JudgeDraft(m, g)
    BY <1>1, <1>4, <1>5, <1>6 DEF JudgeDraft
  <2> QED
    BY <1>4, <2>1, <2>2 DEF Drafted
<1>10. Ended(c, l, g) => Ended(c, m, g)
  BY <1>1, <1>6 DEF Ended
<1> QED
  BY <1>4, <1>7, <1>8, <1>9, <1>10 DEF Sound

\* So is what its tasks yielded.
LEMMA WorkStays ==
  ASSUME NEW l, NEW m, NEW w, Grows(l, m), WorkKnown(l, w)
  PROVE  WorkKnown(m, w)
BY DEF Grows, WorkKnown

\* Every step lets the ledger grow.
LEMMA LedgerGrows == GraphTypes /\ Pending /\ [Next]_vars => Grows(ledger, ledger')
<1> SUFFICES ASSUME GraphTypes, Pending, [Next]_vars PROVE Grows(ledger, ledger')
  OBVIOUS
<1>1. CASE UNCHANGED ledger
  BY <1>1 DEF Grows, Known
<1>2. ASSUME NEW s \in Slots, Ask(s), ~UNCHANGED ledger PROVE Grows(ledger, ledger')
  <2>1. ledger[s] = None /\ \A r \in Slots : r # s => ledger'[r] = ledger[r]
    BY <1>2 DEF Ask, HandOver, GraphTypes
  <2> QED
    BY <2>1 DEF Grows, Known
<1>3. ASSUME NEW s \in Slots, Receive(s) PROVE Grows(ledger, ledger')
  <2>1. Known(ledger, s, None) /\ \A r \in Slots : r # s => ledger'[r] = ledger[r]
    BY <1>3 DEF Receive, Pending, GraphTypes
  <2>2. \A a \in Answers[s] : ~Known(ledger, s, a)
    BY <2>1, AnswersAreAnswers DEF Known
  <2> QED
    BY <2>1, <2>2 DEF Grows, Known
<1> QED
  BY <1>1, <1>2, <1>3 DEF Next, Step, Advance, Raise, Return, RetrievalFails, SafetyStop,
     Checkpoint, Crash, Start, vars

(***************************************************************************)
(* What the verifiers, the judge and the adjudication return.              *)
(***************************************************************************)

\* A failed result is a result.
LEMMA FailedResultType ==
  ASSUME NEW route \in {"single", "multi", None},
         NEW escalated \in BOOLEAN, NEW fallback \in BOOLEAN
  PROVE  /\ FailedResult(route, escalated, fallback) \in Results
         /\ FailedResult(route, escalated, fallback).status = "failed"
BY DEF FailedResult, Results

\* The result of a draft is a result with the draft's verdict and flaws.
LEMMA DraftResultType ==
  ASSUME NEW d \in Drafts, NEW status \in {"completed", "partial", "failed"},
         NEW route \in {"single", "multi", None}, NEW escalated \in BOOLEAN
  PROVE  LET r == DraftResult(d, status, route, escalated)
         IN  /\ r \in Results
             /\ r.status = status /\ r.verdict = d.verdict
             /\ r.low = d.low /\ r.uncovered = d.uncovered
<1>1. d \in [verdict : Verdicts, low : BOOLEAN, uncovered : BOOLEAN]
  BY GraphAssumption
<1> QED
  BY <1>1 DEF DraftResult, Results

\* What a yielded task of the single verifier is made into.
LEMMA SingleResultType ==
  ASSUME NEW got \in Progress("single"), got \notin {Todo, Asked}
  PROVE  LET r == SingleResult(got)
         IN  /\ r \in Results
             /\ \/ r.status = "failed"
                \/ /\ got \in Drafts /\ r.status = "completed" /\ r.verdict = got.verdict
                   /\ r.low = got.low /\ r.uncovered = got.uncovered
<1>1. got \in {Mismatch, Unretrieved, Invalid} \cup Drafts
  BY AnswersOf DEF Progress, Workers
<1>2. CASE got = Unretrieved
  <2>1. Unretrieved \notin {Mismatch, Invalid} \/ Unretrieved = Mismatch
    BY MarkerAssumption, AnswersOf
  <2>2. SingleResult(got) \in {FailedResult(None, FALSE, FALSE), FailedResult("single", FALSE, FALSE)}
    BY <1>2, <2>1 DEF SingleResult
  <2>3. /\ FailedResult(None, FALSE, FALSE) \in Results
        /\ FailedResult(None, FALSE, FALSE).status = "failed"
        /\ FailedResult("single", FALSE, FALSE) \in Results
        /\ FailedResult("single", FALSE, FALSE).status = "failed"
    BY FailedResultType
  <2>4. SingleResult(got) \in Results /\ SingleResult(got).status = "failed"
    BY <2>2, <2>3
  <2> QED
    BY <2>4
<1>3. CASE got # Unretrieved /\ got \in {Mismatch, Invalid}
  <2>1. SingleResult(got) = FailedResult("single", FALSE, FALSE)
    BY <1>3 DEF SingleResult
  <2> QED
    BY <2>1, FailedResultType
<1>4. CASE got \notin {Unretrieved, Mismatch, Invalid}
  <2> DEFINE r == DraftResult(got, "completed", "single", FALSE)
  <2>1. SingleResult(got) = r /\ got \in Drafts
    BY <1>1, <1>4 DEF SingleResult
  <2>2. /\ "completed" \in {"completed", "partial", "failed"}
        /\ "single" \in {"single", "multi", None} /\ FALSE \in BOOLEAN
    OBVIOUS
  <2>3. /\ r \in Results /\ r.status = "completed" /\ r.verdict = got.verdict
        /\ r.low = got.low /\ r.uncovered = got.uncovered
    BY <2>1, <2>2, DraftResultType
  <2> HIDE DEF r
  <2> QED
    BY <2>1, <2>3
<1> QED
  BY <1>2, <1>3, <1>4

\* The judge's result is completed only when no worker failed.
LEMMA JudgeResultType ==
  ASSUME NEW g \in Graph, NEW d \in Drafts
  PROVE  LET r == JudgeResult(g, d)
         IN  /\ r \in Results /\ r.verdict = d.verdict
             /\ r.status = "completed" => \A t \in g.tasks : g.results[t] # "failed"
<1> DEFINE status == IF JudgedPartial(g, d) THEN "partial" ELSE "completed"
           escalated == g.escalations > 0
<1>1. g.route \in {"single", "multi", None} /\ escalated \in BOOLEAN
  BY DEF Graph
<1>2. status \in {"completed", "partial", "failed"}
  OBVIOUS
<1>3. JudgeResult(g, d) = DraftResult(d, status, g.route, escalated)
  BY DEF JudgeResult
<1>4. status = "completed" => \A t \in g.tasks : g.results[t] # "failed"
  BY DEF JudgedPartial
<1> HIDE DEF status, escalated
<1>5. /\ JudgeResult(g, d) \in Results
      /\ JudgeResult(g, d).verdict = d.verdict /\ JudgeResult(g, d).status = status
  BY <1>1, <1>2, <1>3, DraftResultType
<1> QED
  BY <1>4, <1>5

\* The verdict of an adjudication is a verdict of one of the candidates, or
\* one that takes no side; a side is taken only if all took it.
LEMMA AdjudicatedVerdictOf ==
  ASSUME NEW verdicts, verdicts # {}
  PROVE  /\ AdjudicatedVerdict(verdicts) \in verdicts \cup {Conflicting, NotEnough}
         /\ IsFiniteSet(verdicts) /\ AdjudicatedVerdict(verdicts) \in {Supported, Refuted} =>
              verdicts = {AdjudicatedVerdict(verdicts)}
<1>1. (CHOOSE v \in verdicts : TRUE) \in verdicts
  OBVIOUS
<1>2. CASE Cardinality(verdicts) = 1
  <2>1. AdjudicatedVerdict(verdicts) \in verdicts
    <3>1. CASE verdicts = {Supported, Refuted}
      <4>1. IsFiniteSet({Supported}) /\ Cardinality({Supported}) = 1
        BY FS_Singleton
      <4>2. Refuted \notin {Supported} /\ {Supported, Refuted} = {Supported} \cup {Refuted}
        BY DEF Supported, Refuted
      <4>3. Cardinality({Supported} \cup {Refuted}) = 1 + 1
        BY <4>1, <4>2, FS_AddElement
      <4> QED
        BY <1>2, <3>1, <4>2, <4>3
    <3>2. CASE verdicts # {Supported, Refuted}
      BY <1>1, <1>2, <3>2 DEF AdjudicatedVerdict
    <3> QED
      BY <3>1, <3>2
  <2>2. IsFiniteSet(verdicts) => \E x : verdicts = {x}
    BY <1>2, FS_Singleton
  <2> QED
    BY <2>1, <2>2
<1>3. CASE Cardinality(verdicts) # 1
  BY <1>3 DEF AdjudicatedVerdict, Supported, Refuted, Conflicting, NotEnough
<1> QED
  BY <1>2, <1>3

\* An adjudication yields results with the status of a candidate.
LEMMA AdjudicatedType ==
  ASSUME NEW cs \in Seq(Results), cs # <<>>, NEW r \in Adjudicated(cs)
  PROVE  /\ r \in Results
         /\ r.verdict = AdjudicatedVerdict({c.verdict : c \in ToSet(cs)})
         /\ \E i \in DOMAIN cs : r.status = cs[i].status
<1> DEFINE vs == {c.verdict : c \in ToSet(cs)}
           low == \E c \in ToSet(cs) : c.low
<1>1. PICK i \in DOMAIN cs :
        r = [cs[i] EXCEPT !.verdict = AdjudicatedVerdict(vs), !.low = low]
  BY DEF Adjudicated, ToSet
<1>2. ToSet(cs) \subseteq Results /\ cs[i] \in ToSet(cs) /\ cs[i] \in Results
  BY DEF ToSet
<1>3. vs # {} /\ vs \subseteq Verdicts \cup {None}
  BY <1>2 DEF Results
<1>4. AdjudicatedVerdict(vs) \in Verdicts \cup {None}
  BY <1>3, AdjudicatedVerdictOf DEF Verdicts
<1>5. low \in BOOLEAN
  OBVIOUS
<1> HIDE DEF vs, low
<1>6. r \in Results /\ r.verdict = AdjudicatedVerdict(vs) /\ r.status = cs[i].status
  BY <1>1, <1>2, <1>4, <1>5 DEF Results
<1> QED
  BY <1>6 DEF vs

(***************************************************************************)
(* The nodes, one by one: what a superstep leaves is a graph, and sound.   *)
(***************************************************************************)

\* What a graph is made of.
LEMMA GraphFields ==
  ASSUME NEW g \in Graph
  PROVE  /\ g.node \in Nodes /\ g.route \in {"single", "multi", None}
         /\ g.origin \in {"single", "multi", None} /\ g.draft \in Results \cup {None}
         /\ g.candidates \in Seq(Results) /\ g.escalations \in {0, 1}
         /\ g.fallback \in BOOLEAN /\ g.tasks \in SUBSET Tasks
         /\ g.results \in Findings /\ g.final \in Results \cup {None}
BY DEF Graph

\* None is neither a result nor a route.
LEMMA NoneIsNoResult == None \notin Results /\ None \notin {"single", "multi"}
BY MarkerAssumption

\* analyze: nothing is known yet, or the claim could not be analyzed.
LEMMA AnalyzeNode ==
  ASSUME NEW g \in Graph, g.node = "analyze", Sound(claim, ledger, g), NEW n \in After(g)
  PROVE  n \in Graph /\ Sound(claim, ledger, n)
<1> DEFINE failed == FailedResult(None, FALSE, FALSE)
<1>1. failed \in Results /\ failed.status = "failed"
  BY FailedResultType
<1>2. n = [g EXCEPT !.node = "route"] \/ n = [g EXCEPT !.node = "end", !.final = failed]
  BY DEF After
<1>3. g.origin = None /\ g.escalations = 0 /\ Fresh(g)
  BY DEF Sound, Fresh
<1> HIDE DEF failed
<1>4. CASE n = [g EXCEPT !.node = "route"]
  <2>1. n \in Graph
    BY <1>4 DEF Graph, Nodes
  <2> QED
    BY <1>3, <1>4, <2>1, NoneIsNoResult DEF Graph, Sound, Path, Fresh
<1>5. CASE n = [g EXCEPT !.node = "end", !.final = failed]
  <2>1. n \in Graph
    BY <1>1, <1>5 DEF Graph, Nodes
  <2>2. n.origin = None /\ n.escalations = 0 /\ n.final = failed /\ n.node = "end"
    BY <1>3, <1>5 DEF Graph
  <2> QED
    BY <1>1, <2>1, <2>2, NoneIsNoResult DEF Sound, Path, Ended
<1> QED
  BY <1>2, <1>4, <1>5

\* route: the strategy, the rules or the model's answer gives the route.
LEMMA RouteNode ==
  ASSUME GraphInv, Advance, graph.node = "route"
  PROVE  graph' \in Graph /\ Sound(claim, ledger, graph')
<1> DEFINE asked == IF work["router"] \in {Mismatch, Invalid} THEN "multi" ELSE work["router"]
           route == IF RuledRoute # None THEN RuledRoute ELSE asked
<1>1. graph \in Graph /\ claim \in Claims /\ work["router"] \in Progress("router")
  BY AnswersOf DEF GraphInv, GraphTypes, TypeOK
<1>2. graph' = [graph EXCEPT !.route = route,
                             !.node = IF route = "single" THEN "single" ELSE "decompose"]
  BY DEF Advance, After, Routed
<1>3. RuledRoute # None =>
        \/ RuledRoute = "single" /\ claim.strategy # "multi"
        \/ RuledRoute = "multi" /\ claim.strategy # "single"
  <2>1. claim.strategy \in {"adaptive", "single", "multi"}
    BY <1>1 DEF Claims
  <2>2. CASE claim.strategy # "adaptive"
    BY <2>1, <2>2 DEF RuledRoute
  <2>3. CASE claim.strategy = "adaptive"
    BY <2>3 DEF RuledRoute
  <2> QED
    BY <2>2, <2>3
<1>4. ASSUME RuledRoute = None
      PROVE  claim.strategy = "adaptive" /\ work["router"] \in {Mismatch, Invalid, "single", "multi"}
  <2>1. claim.strategy = "adaptive"
    BY <1>1, <1>4, NoneIsNoResult DEF RuledRoute, Claims
  <2>2. work["router"] \notin {Todo, Asked}
    BY <1>4 DEF Advance, Joined, TasksOf
  <2>3. "router" \notin Tasks \cup {"single"}
    BY AnswersOf
  <2>4. work["router"] \in {Mismatch, Invalid, "single", "multi"}
    BY <1>1, <2>2, <2>3, AnswersOf DEF Progress, Workers
  <2> QED
    BY <2>1, <2>4
<1>5. \/ route = "single" /\ claim.strategy # "multi"
      \/ route = "multi" /\ claim.strategy # "single"
  BY <1>3, <1>4
<1>6. Fresh(graph) /\ Path(claim, graph)
  BY DEF GraphInv, Sound
<1> HIDE DEF route
<1>7. graph' \in Graph
  BY <1>1, <1>2, <1>5 DEF Graph, Nodes
<1>8. /\ graph'.node = IF route = "single" THEN "single" ELSE "decompose"
      /\ graph'.origin = None /\ graph'.escalations = 0 /\ ~graph'.fallback
      /\ graph'.candidates = <<>> /\ graph'.final = None
  BY <1>1, <1>2, <1>6 DEF Graph, Fresh
<1>9. CASE route = "single"
  BY <1>5, <1>7, <1>8, <1>9, NoneIsNoResult DEF Sound, Path, Fresh
<1>10. CASE route = "multi"
  BY <1>5, <1>7, <1>8, <1>10, NoneIsNoResult DEF Sound, Path, Escalated
<1> QED
  BY <1>5, <1>7, <1>9, <1>10

\* single: the first draft.
LEMMA SingleNode ==
  ASSUME GraphInv, Advance, graph.node = "single"
  PROVE  graph' \in Graph /\ Sound(claim, ledger, graph')
<1> DEFINE r == SingleResult(work["single"])
           cs == <<r>>
<1>1. graph \in Graph /\ work["single"] \in Progress("single")
  BY AnswersOf DEF GraphInv, GraphTypes, TypeOK
<1>2. graph' = [graph EXCEPT !.node = "validate", !.origin = "single",
                             !.draft = r, !.candidates = cs]
  BY DEF Advance, After, AnsweredBySingle
<1>3. work["single"] \notin {Todo, Asked}
  BY DEF Advance, Joined, TasksOf
<1>4. r \in Results /\ (r.status # "failed" =>
        /\ work["single"] \in Drafts /\ r.status = "completed"
        /\ r.verdict = work["single"].verdict
        /\ r.low = work["single"].low /\ r.uncovered = work["single"].uncovered)
  BY <1>1, <1>3, SingleResultType
<1>5. work["single"] \in Drafts => Known(ledger, "single", work["single"])
  BY AnswersOf DEF GraphInv, WorkKnown
<1>6. Fresh(graph) /\ Path(claim, graph)
  BY DEF GraphInv, Sound
<1> HIDE DEF r
<1>0. cs \in Seq(Results) /\ cs = <<r>>
  BY <1>4
<1> HIDE DEF cs
<1>7. graph' \in Graph
  BY <1>1, <1>2, <1>4, <1>0 DEF Graph, Nodes
<1>8. /\ graph'.node = "validate" /\ graph'.origin = "single" /\ graph'.draft = r
      /\ graph'.candidates = <<r>> /\ graph'.escalations = 0 /\ graph'.final = None
  BY <1>1, <1>2, <1>6, <1>0 DEF Graph, Fresh
<1>9. SingleDraft(ledger, graph')
  BY <1>4, <1>5, <1>8 DEF SingleDraft
<1>10. Drafted(ledger, graph')
  BY <1>4, <1>8, <1>9 DEF Drafted
<1> QED
  BY <1>7, <1>8, <1>10 DEF Sound, Path

\* single_recovery: the draft that stands in for the judge's.
LEMMA RecoveryNode ==
  ASSUME GraphInv, Advance, graph.node = "single_recovery"
  PROVE  graph' \in Graph /\ Sound(claim, ledger, graph')
<1> DEFINE single == SingleResult(work["single"])
           r == [single EXCEPT !.route = IF @ = None THEN None ELSE "multi",
                               !.escalated = FALSE, !.fallback = TRUE]
           cs == <<r>>
<1>1. graph \in Graph /\ work["single"] \in Progress("single")
  BY AnswersOf DEF GraphInv, GraphTypes, TypeOK
<1>2. graph' = [graph EXCEPT !.node = "validate", !.origin = "single",
                             !.draft = r, !.candidates = cs]
  BY DEF Advance, After, RecoveredBySingle
<1>3. work["single"] \notin {Todo, Asked}
  BY DEF Advance, Joined, TasksOf
<1>4. single \in Results /\ (single.status # "failed" =>
        /\ work["single"] \in Drafts /\ single.status = "completed"
        /\ single.verdict = work["single"].verdict
        /\ single.low = work["single"].low /\ single.uncovered = work["single"].uncovered)
  BY <1>1, <1>3, SingleResultType
<1> HIDE DEF single
<1>5. /\ r \in Results /\ r.status = single.status /\ r.verdict = single.verdict
      /\ r.low = single.low /\ r.uncovered = single.uncovered
  BY <1>4 DEF Results
<1>6. work["single"] \in Drafts => Known(ledger, "single", work["single"])
  BY AnswersOf DEF GraphInv, WorkKnown
<1>7. /\ graph.fallback /\ graph.final = None
      /\ graph.escalations = 1 => WeakOnRecord(ledger)
  BY DEF GraphInv, Sound
<1> HIDE DEF r
<1>0. cs \in Seq(Results) /\ cs = <<r>>
  BY <1>5
<1> HIDE DEF cs
<1>8. graph' \in Graph
  BY <1>1, <1>2, <1>5, <1>0 DEF Graph, Nodes
<1>9. /\ graph'.node = "validate" /\ graph'.origin = "single" /\ graph'.draft = r
      /\ graph'.candidates = <<r>> /\ graph'.escalations = graph.escalations
      /\ graph'.fallback = graph.fallback /\ graph'.final = None
  BY <1>1, <1>2, <1>7, <1>0 DEF Graph
<1>10. SingleDraft(ledger, graph')
  BY <1>4, <1>5, <1>6, <1>9 DEF SingleDraft
<1>11. Drafted(ledger, graph')
  BY <1>5, <1>7, <1>9, <1>10 DEF Drafted
<1> QED
  BY <1>8, <1>9, <1>11 DEF Sound, Path

\* decompose: the claim's chunks or the decomposer's answer, whichever is used.
LEMMA DecomposeNode ==
  ASSUME GraphInv, Advance, graph.node = "decompose"
  PROVE  graph' \in Graph /\ Sound(claim, ledger, graph')
<1> DEFINE tasks == IF claim.options.split THEN claim.chunks ELSE work["decomposer"]
<1>1. graph \in Graph /\ claim \in Claims /\ work["decomposer"] \in Progress("decomposer")
  BY AnswersOf DEF GraphInv, GraphTypes, TypeOK
<1>2. graph' = [graph EXCEPT !.node = "worker", !.tasks = tasks]
  BY DEF Advance, After, Decomposed
<1>3. claim.options.split => claim.chunks \subseteq Tasks
  BY <1>1, GraphAssumption DEF Claims
<1>4. ASSUME ~claim.options.split PROVE work["decomposer"] \subseteq Tasks
  <2>1. "decomposer" \in TasksOf(graph) /\ "decomposer" \notin Tasks \cup {"single"}
    BY <1>4, AnswersOf DEF TasksOf
  <2>2. work["decomposer"] \notin {Todo, Asked, Mismatch, Invalid}
    BY <2>1 DEF Advance, Joined, Raises
  <2>3. work["decomposer"] \in Splits
    BY <1>1, <2>1, <2>2, AnswersOf DEF Progress, Workers
  <2> QED
    BY <2>3, GraphAssumption
<1>5. tasks \subseteq Tasks
  BY <1>3, <1>4
<1> HIDE DEF tasks
<1>6. Escalated(ledger, graph) /\ Path(claim, graph)
  BY DEF GraphInv, Sound
<1>7. /\ graph' \in Graph /\ graph'.node = "worker" /\ graph'.fallback = graph.fallback
      /\ graph'.final = graph.final /\ graph'.escalations = graph.escalations
      /\ graph'.origin = graph.origin /\ graph'.candidates = graph.candidates
  BY <1>1, <1>2, <1>5 DEF Graph, Nodes
<1>8. Escalated(ledger, graph')
  BY <1>6, <1>7 DEF Escalated
<1> QED
  BY <1>1, <1>6, <1>7, <1>8 DEF Sound, Path

\* worker: what the workers found is their answers on record.
LEMMA WorkerNode ==
  ASSUME GraphInv, Advance, graph.node = "worker"
  PROVE  graph' \in Graph /\ Sound(claim, ledger, graph')
<1> DEFINE found == [t \in graph.tasks |-> WorkerResult(work[t])]
<1>1. graph \in Graph /\ graph.tasks \subseteq Tasks
  BY DEF GraphInv, GraphTypes, TypeOK, Graph
<1>2. graph' = [graph EXCEPT !.node = "judge", !.results = found]
  BY DEF Advance, After, WorkersJoined
<1>3. \A t \in graph.tasks : found[t] = WorkerResult(work[t])
  OBVIOUS
<1>4. found \in Findings
  <2>1. \A t \in graph.tasks : WorkerResult(work[t]) \in WorkerAnswers \cup {"failed"}
    BY DEF WorkerResult
  <2> QED
    BY <1>1, <2>1 DEF Findings
<1> HIDE DEF found
<1>5. Escalated(ledger, graph) /\ Path(claim, graph)
  BY DEF GraphInv, Sound
<1>6. /\ graph' \in Graph /\ graph'.node = "judge" /\ graph'.fallback = graph.fallback
      /\ graph'.final = graph.final /\ graph'.escalations = graph.escalations
      /\ graph'.origin = graph.origin /\ graph'.candidates = graph.candidates
      /\ graph'.tasks = graph.tasks /\ graph'.results = found
  BY <1>1, <1>2, <1>4 DEF Graph, Nodes
<1>7. Escalated(ledger, graph')
  BY <1>5, <1>6 DEF Escalated
<1>8. Found(ledger, graph')
  <2> SUFFICES ASSUME NEW t \in graph.tasks, found[t] # "failed"
               PROVE  \E a \in WorkerAnswers : Known(ledger, t, a)
    BY <1>6 DEF Found
  <2>1. work[t] \in WorkerAnswers
    BY <1>3 DEF WorkerResult
  <2>2. t \in Slots /\ work[t] \in Answers[t]
    BY <1>1, <2>1, AnswersOf
  <2> QED
    BY <2>1, <2>2 DEF GraphInv, WorkKnown
<1> QED
  BY <1>5, <1>6, <1>7, <1>8 DEF Sound, Path

\* A second candidate makes a pair.
LEMMA SecondCandidate ==
  ASSUME NEW c, NEW r
  PROVE  Append(<<c>>, r) = <<c, r>>
<1> DEFINE s == Append(<<c>>, r)
           t == <<c, r>>
<1>1. s \in Seq({c, r}) /\ Len(s) = 2 /\ s[1] = c /\ s[2] = r
  OBVIOUS
<1>2. t \in Seq({c, r}) /\ Len(t) = 2 /\ t[1] = c /\ t[2] = r
  OBVIOUS
<1> HIDE DEF s, t
<1>3. \A i \in 1 .. Len(s) : s[i] = t[i]
  BY <1>1, <1>2
<1>4. s = t
  BY <1>1, <1>2, <1>3, SeqEqual
<1> QED
  BY <1>4 DEF s, t

\* judge: the draft is the judge's answer on record, completed only if every
\* worker's answer is on record too.
LEMMA JudgeNode ==
  ASSUME GraphInv, Advance, graph.node = "judge"
  PROVE  graph' \in Graph /\ Sound(claim, ledger, graph')
<1> DEFINE d == work["judge"]
           r == JudgeResult(graph, d)
           cs == Append(graph.candidates, r)
<1>1. graph \in Graph /\ d \in Progress("judge")
  BY AnswersOf DEF GraphInv, GraphTypes, TypeOK
<1>2. graph' = [graph EXCEPT !.node = "validate", !.origin = "multi",
                             !.draft = r, !.candidates = cs]
  BY DEF Advance, After, JudgedBy
<1>3. "judge" \in TasksOf(graph) /\ "judge" \notin Tasks \cup {"single"}
  BY AnswersOf DEF TasksOf
<1>4. d \notin {Todo, Asked, Mismatch, Invalid}
  BY <1>3 DEF Advance, Joined, Raises
<1>5. d \in Drafts
  BY <1>1, <1>3, <1>4, AnswersOf DEF Progress, Workers
<1>6. Known(ledger, "judge", d)
  BY <1>5, AnswersOf DEF GraphInv, WorkKnown
<1>7. /\ r \in Results /\ r.verdict = d.verdict
      /\ r.status = "completed" => \A t \in graph.tasks : graph.results[t] # "failed"
  BY <1>1, <1>5, JudgeResultType
<1> HIDE DEF r, d
<1>8. Escalated(ledger, graph) /\ Found(ledger, graph) /\ Path(claim, graph)
  BY DEF GraphInv, Sound
<1>9. cs \in Seq(Results)
  BY <1>1, <1>7 DEF Graph
<1>10. graph.candidates = <<>> => cs = <<r>>
  OBVIOUS
<1>11. \A c \in Results : graph.candidates = <<c>> => cs = <<c, r>>
  BY SecondCandidate
<1> HIDE DEF cs
<1>12. /\ graph' \in Graph /\ graph'.node = "validate" /\ graph'.origin = "multi"
       /\ graph'.draft = r /\ graph'.candidates = cs /\ graph'.fallback = graph.fallback
       /\ graph'.final = graph.final /\ graph'.escalations = graph.escalations
       /\ graph'.tasks = graph.tasks
  BY <1>1, <1>2, <1>7, <1>9 DEF Graph, Nodes
<1>13. r.status = "completed" => Examined(ledger, graph')
  BY <1>7, <1>8, <1>12 DEF Found, Examined
<1>14. JudgeDraft(ledger, graph')
  BY <1>5, <1>6, <1>7, <1>8, <1>10, <1>11, <1>12, <1>13 DEF JudgeDraft, Escalated
<1>15. Drafted(ledger, graph')
  BY <1>7, <1>8, <1>12, <1>14 DEF Drafted, Escalated
<1> QED
  BY <1>8, <1>12, <1>15 DEF Sound, Path

(***************************************************************************)
(* The validator.                                                          *)
(***************************************************************************)

\* What the validator takes for the draft of a single verifier is the draft.
LEMMA ValidatedSingle ==
  ASSUME NEW g \in Graph, NEW l, SingleDraft(l, g)
  PROVE  Validated(g) = {g.draft}
<1>1. g.candidates = <<g.draft>>
  BY DEF SingleDraft
<1>2. Len(g.candidates) = 1
  BY <1>1
<1> QED
  BY <1>2 DEF Validated

\* A completed result for the judge's draft needs a completed draft, and it
\* takes a side against the single verifier's weak draft only without
\* adjudication.
LEMMA ValidatedJudged ==
  ASSUME NEW g \in Graph, NEW l, g.node = "validate", Drafted(l, g), JudgeDraft(l, g),
         NEW r \in Validated(g)
  PROVE  /\ r \in Results
         /\ r.status = "completed" => g.draft.status = "completed"
         /\ /\ r.status = "completed" /\ g.escalations = 1 /\ claim.options.adjudicate
            /\ r.verdict \in {Supported, Refuted}
            => \A s \in {"single", "judge"} :
                 \E d \in Drafts : Known(l, s, d) /\ d.verdict = r.verdict
<1> DEFINE cs == g.candidates
<1>1. g.draft \in Results /\ cs \in Seq(Results) /\ g.escalations \in {0, 1}
  BY DEF Drafted, Graph
<1>2. CASE /\ claim.options.adjudicate /\ Len(cs) > 1
           /\ \A i \in DOMAIN cs : cs[i].status = "completed"
  <2>1. g.escalations = 1
    <3>1. g.escalations = 0 => cs = <<g.draft>>
      BY DEF JudgeDraft
    <3>2. Len(<<g.draft>>) = 1
      OBVIOUS
    <3> QED
      BY <1>1, <1>2, <3>1, <3>2
  <2>2. PICK c \in Results : cs = <<c, g.draft>> /\ WeakCandidate(l, c)
    BY <2>1 DEF JudgeDraft
  <2>3. DOMAIN cs = {1, 2} /\ cs[1] = c /\ cs[2] = g.draft
    BY <2>2
  <2>4. r \in Adjudicated(cs) /\ cs # <<>>
    BY <1>2, <2>2 DEF Validated
  <2> DEFINE vs == {x.verdict : x \in ToSet(cs)}
  <2>5. ToSet(cs) = {c, g.draft}
    BY <2>3 DEF ToSet
  <2>6. vs = {c.verdict, g.draft.verdict}
    BY <2>5
  <2>7. IsFiniteSet(vs) /\ vs # {}
    <3>1. IsFiniteSet({c.verdict})
      BY FS_Singleton
    <3>2. IsFiniteSet({c.verdict} \cup {g.draft.verdict})
      BY <3>1, FS_AddElement
    <3>3. vs = {c.verdict} \cup {g.draft.verdict}
      BY <2>6
    <3> HIDE DEF vs
    <3>4. IsFiniteSet(vs) /\ vs # {}
      BY <3>2, <3>3
    <3> QED
      BY <3>4
  <2>8. r \in Results /\ r.verdict = AdjudicatedVerdict(vs)
    BY <1>1, <2>4, AdjudicatedType
  <2> HIDE DEF vs
  <2>9. r.verdict \in {Supported, Refuted} => vs = {r.verdict}
    BY <2>7, <2>8, AdjudicatedVerdictOf
  <2>10. r.verdict \in {Supported, Refuted} => c.verdict = r.verdict /\ g.draft.verdict = r.verdict
    BY <2>6, <2>9
  <2>11. g.draft.status = "completed"
    BY <1>2, <2>3
  <2>12. \E d \in Drafts : Known(l, "single", d) /\ d.verdict = c.verdict
    BY <2>2 DEF WeakCandidate
  <2>13. \E d \in Drafts : Known(l, "judge", d) /\ d.verdict = g.draft.verdict
    BY DEF JudgeDraft
  <2> QED
    BY <2>8, <2>10, <2>11, <2>12, <2>13
<1>3. CASE ~ /\ claim.options.adjudicate /\ Len(cs) > 1
             /\ \A i \in DOMAIN cs : cs[i].status = "completed"
  <2>1. r = g.draft
    BY <1>3 DEF Validated
  <2>2. ASSUME r.status = "completed", g.escalations = 1 PROVE ~claim.options.adjudicate
    <3>1. PICK c \in Results : cs = <<c, g.draft>> /\ WeakCandidate(l, c)
      BY <2>2 DEF JudgeDraft
    <3>2. Len(cs) = 2 /\ DOMAIN cs = {1, 2} /\ cs[1] = c /\ cs[2] = g.draft
      BY <3>1
    <3>3. c.status = "completed"
      BY <3>1 DEF WeakCandidate
    <3> QED
      BY <1>3, <2>1, <2>2, <3>2, <3>3
  <2> QED
    BY <1>1, <2>1, <2>2
<1> QED
  BY <1>2, <1>3

\* The ways on from the validator.
LEMMA ValidationCases ==
  ASSUME NEW g, NEW n \in Validations(g)
  PROVE  \E r \in Validated(g) :
           \/ /\ r.status = "completed" /\ ~Flawed(r)
              /\ n = [g EXCEPT !.node = "end", !.final = r]
           \/ /\ Escalates(g, r) /\ Flawed(r)
              /\ n = [g EXCEPT !.node = "decompose", !.escalations = @ + 1]
           \/ /\ Recovers(g)
              /\ n = [g EXCEPT !.node = "single_recovery", !.fallback = TRUE]
           \/ n = [g EXCEPT !.node = "end", !.final = Failed(r)]
<1> DEFINE On(r) ==
      CASE r.status = "completed" /\ ~Flawed(r) -> [g EXCEPT !.node = "end", !.final = r]
        [] Escalates(g, r) /\ Flawed(r) ->
             [g EXCEPT !.node = "decompose", !.escalations = @ + 1]
        [] Recovers(g) /\ (r.status = "failed" \/ Flawed(r)) ->
             [g EXCEPT !.node = "single_recovery", !.fallback = TRUE]
        [] OTHER -> [g EXCEPT !.node = "end", !.final = Failed(r)]
<1>1. PICK r \in Validated(g) : n = On(r)
  BY DEF Validations
<1>2. CASE r.status = "completed" /\ ~Flawed(r)
  <2>1. ~(Escalates(g, r) /\ Flawed(r)) /\ ~(r.status = "failed" \/ Flawed(r))
    BY <1>2
  <2> QED
    BY <1>1, <1>2, <2>1
<1>3. CASE ~(r.status = "completed" /\ ~Flawed(r)) /\ Escalates(g, r) /\ Flawed(r)
  <2>1. ~Recovers(g)
    BY <1>3 DEF Escalates, Recovers
  <2> QED
    BY <1>1, <1>3, <2>1
<1>4. CASE /\ ~(r.status = "completed" /\ ~Flawed(r)) /\ ~(Escalates(g, r) /\ Flawed(r))
           /\ Recovers(g) /\ (r.status = "failed" \/ Flawed(r))
  BY <1>1, <1>4
<1>5. CASE /\ ~(r.status = "completed" /\ ~Flawed(r)) /\ ~(Escalates(g, r) /\ Flawed(r))
           /\ ~(Recovers(g) /\ (r.status = "failed" \/ Flawed(r)))
  BY <1>1, <1>5
<1> QED
  BY <1>2, <1>3, <1>4, <1>5

\* A flawed completed draft of a single verifier is weak.
LEMMA FlawedIsWeak ==
  ASSUME NEW r \in Results, r.status = "completed", NEW d,
         r.low = d.low, r.uncovered = d.uncovered, r.verdict = d.verdict
  PROVE  Flawed(r) <=> Weak(d)
BY DEF Flawed, Weak

\* validate: accepted, escalated, recovered or failed.
LEMMA ValidateNode ==
  ASSUME GraphInv, Advance, graph.node = "validate"
  PROVE  graph' \in Graph /\ Sound(claim, ledger, graph')
<1>1. graph \in Graph /\ claim \in Claims
  BY DEF GraphInv, GraphTypes, TypeOK
<1>2. Drafted(ledger, graph) /\ Path(claim, graph)
  BY DEF GraphInv, Sound
<1>3. graph.draft \in Results /\ graph.final = None /\ graph.escalations \in {0, 1}
  BY <1>1, <1>2 DEF Drafted, Graph
<1>4. \/ graph.origin = "single" /\ SingleDraft(ledger, graph)
      \/ graph.origin = "multi" /\ JudgeDraft(ledger, graph)
  BY <1>2 DEF Drafted
<1>5. graph' \in Validations(graph)
  BY DEF Advance, After
<1>6. PICK r \in Validated(graph) :
        \/ /\ r.status = "completed" /\ ~Flawed(r)
           /\ graph' = [graph EXCEPT !.node = "end", !.final = r]
        \/ /\ Escalates(graph, r) /\ Flawed(r)
           /\ graph' = [graph EXCEPT !.node = "decompose", !.escalations = @ + 1]
        \/ /\ Recovers(graph)
           /\ graph' = [graph EXCEPT !.node = "single_recovery", !.fallback = TRUE]
        \/ graph' = [graph EXCEPT !.node = "end", !.final = Failed(r)]
  BY <1>5, ValidationCases
<1>7. graph.origin = "single" => r = graph.draft
  BY <1>1, <1>4, <1>6, ValidatedSingle, NoneIsNoResult
<1>8. graph.origin = "multi" =>
        /\ r \in Results
        /\ r.status = "completed" => graph.draft.status = "completed"
        /\ /\ r.status = "completed" /\ graph.escalations = 1 /\ claim.options.adjudicate
           /\ r.verdict \in {Supported, Refuted}
           => \A s \in {"single", "judge"} :
                \E d \in Drafts : Known(ledger, s, d) /\ d.verdict = r.verdict
  BY <1>1, <1>2, <1>4, <1>6, ValidatedJudged
<1>9. r \in Results
  BY <1>3, <1>4, <1>7, <1>8
<1>10. CASE r.status = "completed" /\ ~Flawed(r) /\ graph' = [graph EXCEPT !.node = "end", !.final = r]
  <2>1. /\ graph' \in Graph /\ graph'.node = "end" /\ graph'.final = r
        /\ graph'.origin = graph.origin /\ graph'.escalations = graph.escalations
        /\ graph'.fallback = graph.fallback /\ graph'.tasks = graph.tasks
    BY <1>1, <1>9, <1>10 DEF Graph, Nodes
  <2>2. CASE graph.origin = "single"
    <3>1. PICK d \in Drafts : Known(ledger, "single", d) /\ ~Weak(d)
      BY <1>3, <1>4, <1>7, <1>10, <2>2, FlawedIsWeak DEF SingleDraft
    <3>2. ~WeakOnRecord(ledger)
      BY <3>1 DEF WeakOnRecord, Known
    <3>3. graph.escalations # 1
      BY <1>2, <2>2, <3>2 DEF Drafted
    <3> QED
      BY <1>2, <1>9, <2>1, <2>2, <3>3 DEF Sound, Path, Ended
  <2>3. CASE graph.origin = "multi"
    <3>1. JudgeDraft(ledger, graph)
      BY <1>4, <2>3
    <3>2. Examined(ledger, graph') /\ ~graph.fallback
      BY <1>8, <1>10, <2>1, <2>3, <3>1 DEF JudgeDraft, Examined
    <3>3. Ended(claim, ledger, graph')
      BY <1>8, <1>9, <2>1, <2>3, <3>2 DEF Ended
    <3> QED
      BY <1>2, <2>1, <3>3 DEF Sound, Path
  <2> QED
    BY <1>4, <2>2, <2>3
<1>11. CASE /\ Escalates(graph, r) /\ Flawed(r)
            /\ graph' = [graph EXCEPT !.node = "decompose", !.escalations = @ + 1]
  <2>1. /\ claim.strategy = "adaptive" /\ graph.origin = "single"
        /\ graph.escalations = 0 /\ ~graph.fallback /\ r.status # "failed"
    BY <1>11 DEF Escalates
  <2>2. /\ graph' \in Graph /\ graph'.node = "decompose" /\ graph'.escalations = 1
        /\ graph'.origin = "single" /\ ~graph'.fallback /\ graph'.final = None
        /\ graph'.candidates = graph.candidates
    <3>1. graph' = [graph EXCEPT !.node = "decompose", !.escalations = 1]
      BY <1>11, <2>1
    <3>2. graph' \in Graph
      BY <1>1, <3>1 DEF Graph, Nodes
    <3>3. /\ graph'.node = "decompose" /\ graph'.escalations = 1
          /\ graph'.origin = graph.origin /\ graph'.fallback = graph.fallback
          /\ graph'.final = graph.final /\ graph'.candidates = graph.candidates
      BY <1>1, <3>1 DEF Graph
    <3> QED
      BY <1>3, <2>1, <3>2, <3>3
  <2>3. graph.candidates = <<graph.draft>> /\ graph.draft = r
    BY <1>4, <1>7, <2>1 DEF SingleDraft
  <2>4. r.status = "completed" /\ WeakCandidate(ledger, r)
    BY <1>3, <1>4, <1>11, <2>1, <2>3, FlawedIsWeak DEF SingleDraft, WeakCandidate
  <2>5. WeakOnRecord(ledger)
    BY <2>4 DEF WeakCandidate, WeakOnRecord
  <2>6. Escalated(ledger, graph')
    BY <1>9, <2>2, <2>3, <2>4, <2>5 DEF Escalated
  <2> QED
    BY <2>1, <2>2, <2>6 DEF Sound, Path
<1>12. CASE Recovers(graph) /\ graph' = [graph EXCEPT !.node = "single_recovery", !.fallback = TRUE]
  <2>1. graph.origin = "multi" /\ claim.options.recover
    BY <1>12 DEF Recovers
  <2>2. /\ graph' \in Graph /\ graph'.node = "single_recovery" /\ graph'.fallback
        /\ graph'.final = None /\ graph'.escalations = graph.escalations
        /\ graph'.origin = "multi"
    BY <1>1, <1>3, <1>12, <2>1 DEF Graph, Nodes
  <2>3. graph.escalations = 1 => WeakOnRecord(ledger)
    BY <1>4, <2>1 DEF JudgeDraft
  <2> QED
    BY <1>2, <2>1, <2>2, <2>3 DEF Sound, Path
<1>13. CASE graph' = [graph EXCEPT !.node = "end", !.final = Failed(r)]
  <2>1. Failed(r) \in Results /\ Failed(r).status = "failed"
    <3>1. r.route \in {"single", "multi", None} /\ r.escalated \in BOOLEAN
      BY <1>9 DEF Results
    <3> QED
      BY <1>9, <3>1, FailedResultType DEF Failed
  <2>2. /\ graph' \in Graph /\ graph'.node = "end" /\ graph'.final = Failed(r)
        /\ graph'.origin = graph.origin
    BY <1>1, <1>13, <2>1 DEF Graph, Nodes
  <2>3. Ended(claim, ledger, graph')
    BY <2>1, <2>2 DEF Ended
  <2> QED
    BY <1>2, <2>2, <2>3 DEF Sound, Path
<1> QED
  BY <1>6, <1>10, <1>11, <1>12, <1>13

\* Every superstep leaves a sound graph.
LEMMA AdvanceSound ==
  ASSUME GraphInv, Advance
  PROVE  graph' \in Graph /\ Sound(claim, ledger, graph')
<1>1. graph \in Graph /\ Sound(claim, ledger, graph)
  BY DEF GraphInv, GraphTypes, TypeOK
<1>2. graph.node \in Nodes \ {"end"} /\ graph' \in After(graph)
  BY <1>1 DEF Advance, Graph
<1> QED
  BY <1>1, <1>2, AnalyzeNode, RouteNode, SingleNode, RecoveryNode, DecomposeNode,
     WorkerNode, JudgeNode, ValidateNode DEF Nodes

(***************************************************************************)
(* The initial states, and the steps of the tasks.                         *)
(***************************************************************************)

\* A new graph is sound over any ledger.
LEMMA NewGraphSound ==
  ASSUME NEW c, NEW l
  PROVE  NewGraph \in Graph /\ Sound(c, l, NewGraph)
<1>1. <<>> \in Findings
  <2>1. [t \in {} |-> "failed"] = <<>>
    OBVIOUS
  <2>2. [t \in {} |-> "failed"] \in [{} -> WorkerAnswers \cup {"failed"}]
    OBVIOUS
  <2>3. {} \in SUBSET Tasks
    OBVIOUS
  <2> QED
    BY <2>1, <2>2, <2>3 DEF Findings
<1>2. NewGraph \in Graph
  BY <1>1 DEF NewGraph, Graph, Nodes
<1>3. Fresh(NewGraph) /\ NewGraph.node = "analyze"
  BY DEF NewGraph, Fresh
<1> QED
  BY <1>2, <1>3, NoneIsNoResult DEF Sound, Path, Fresh

\* The program's first state satisfies the invariant.
LEMMA GraphInit == Init => GraphInv
<1> SUFFICES ASSUME Init PROVE GraphInv
  OBVIOUS
<1>1. graph = NewGraph /\ saved.graph = NewGraph /\ work = Idle /\ saved.work = Idle
  BY DEF Init, NoCheckpoint
<1>2. /\ claim \in Claims /\ process = "down" /\ starts = 0
      /\ DOMAIN ledger = Slots /\ DOMAIN paid = Slots
      /\ \A s \in Slots : ledger[s] = None /\ paid[s] = 0
  BY DEF Init
<1>3. DOMAIN Idle = Slots /\ \A s \in Slots : Idle[s] = Todo
  BY DEF Idle
<1>4. GraphTypes
  <2>1. {graph, saved.graph} \subseteq Graph
    BY <1>1, NewGraphSound
  <2>2. \A s \in Slots : Todo \in Progress(s)
    BY DEF Progress
  <2>3. starts \in 0 .. MaxStarts /\ starts < MaxStarts
    BY <1>2, GraphAssumption
  <2> QED
    BY <1>1, <1>2, <1>3, <2>1, <2>2, <2>3 DEF GraphTypes, TypeOK
<1>5. PaidOnRecord /\ CallsWithinProfile
  BY <1>2 DEF PaidOnRecord, CallsWithinProfile
<1>6. Pending
  BY <1>1, <1>3, MarkerAssumption DEF Pending
<1>7. WorkKnown(ledger, Idle)
  BY <1>3, AnswersAreAnswers DEF WorkKnown
<1>8. Sound(claim, ledger, NewGraph)
  BY NewGraphSound
<1> QED
  BY <1>1, <1>4, <1>5, <1>6, <1>7, <1>8 DEF GraphInv

\* An answer of the ledger is a task's progress.
LEMMA ProgressOf ==
  ASSUME NEW s \in Slots
  PROVE  /\ {Todo, Asked, Mismatch} \subseteq Progress(s) /\ Answers[s] \subseteq Progress(s)
         /\ s \in Workers \cup {"single"} => Unretrieved \in Progress(s)
BY DEF Progress

\* What a prompt of a call is made of.
LEMMA PromptType ==
  ASSUME NEW s \in Slots, graph \in Graph
  PROVE  Prompt(s) \in Findings
<1>1. <<>> \in Findings
  BY NewGraphSound, GraphFields DEF NewGraph
<1> QED
  BY <1>1, GraphFields DEF Prompt

\* What a task that is not cancelled does: it yields something, and what it
\* yields as an answer, or awaits, is on record; it may hand its call over, if
\* it has none, or receive the answer it awaits.
LEMMA TaskStep ==
  ASSUME GraphInv, NEW s \in Slots, RetrievalFails(s) \/ Ask(s) \/ Receive(s)
  PROVE  /\ UNCHANGED <<claim, graph, saved, process, starts>>
         /\ s \in TasksOf(graph)
         /\ \E got \in Progress(s) :
              /\ work' = [work EXCEPT ![s] = got]
              /\ got \in Answers[s] => Known(ledger', s, got)
              /\ got = Asked => Known(ledger', s, None)
         /\ \/ UNCHANGED <<ledger, paid>>
            \/ \E row \in Row(s) :
                 /\ ledger' = [ledger EXCEPT ![s] = row] /\ row # None
                 /\ \/ ledger[s] = None /\ paid' = [paid EXCEPT ![s] = @ + 1]
                    \/ ledger[s] # None /\ paid' = paid
<1>1. /\ graph \in Graph /\ ledger[s] \in Row(s) \cup {None}
      /\ DOMAIN ledger = Slots /\ DOMAIN paid = Slots
  BY DEF GraphInv, GraphTypes, TypeOK
<1>2. \A row \in Row(s) : row # None /\ row.answer \in Answers[s] \cup {None}
  BY MarkerAssumption DEF Row
<1>3. None \notin Answers[s] /\ Asked \notin Answers[s] /\ Unretrieved \notin Answers[s]
  BY AnswersAreAnswers
<1>4. Mismatch \notin Answers[s] /\ Asked # Mismatch /\ Asked # Unretrieved
  BY AnswersAreAnswers, MarkerAssumption
<1>5. CASE RetrievalFails(s)
  BY <1>3, <1>4, <1>5, ProgressOf DEF RetrievalFails, Running, Unchanged
<1>6. CASE Ask(s)
  <2>1. CASE ledger[s] = None /\ HandOver(s)
    <3> DEFINE row == [prompt |-> Prompt(s), answer |-> None]
    <3>1. row \in Row(s) /\ row.answer = None
      BY <1>1, PromptType DEF Row
    <3>2. ledger' = [ledger EXCEPT ![s] = row] /\ paid' = [paid EXCEPT ![s] = @ + 1]
      BY <2>1 DEF HandOver
    <3>3. /\ work' = [work EXCEPT ![s] = Asked]
          /\ UNCHANGED <<claim, graph, saved, process, starts>> /\ s \in TasksOf(graph)
      BY <1>6, <2>1 DEF HandOver, Yield, Unchanged, Ask, Running
    <3> HIDE DEF row
    <3>4. Known(ledger', s, None)
      BY <1>1, <1>2, <3>1, <3>2 DEF Known
    <3> QED
      BY <1>2, <1>3, <2>1, <3>1, <3>2, <3>3, <3>4, ProgressOf
  <2>2. CASE ledger[s] # None /\ Yield(s, Mismatch) /\ UNCHANGED <<ledger, paid>>
    BY <1>4, <1>6, <2>2, ProgressOf DEF Yield, Unchanged, Ask, Running
  <2>3. CASE /\ ledger[s] # None /\ ledger[s].answer # None
             /\ Yield(s, ledger[s].answer) /\ UNCHANGED <<ledger, paid>>
    <3>1. ledger[s].answer \in Answers[s]
      BY <1>1, <1>2, <2>3
    <3>2. Known(ledger', s, ledger[s].answer)
      BY <2>3 DEF Known
    <3> QED
      BY <1>3, <1>6, <2>3, <3>1, <3>2, ProgressOf DEF Yield, Unchanged, Ask, Running
  <2> QED
    BY <1>6, <2>1, <2>2, <2>3 DEF Ask
<1>7. CASE Receive(s)
  <2>1. PICK got \in Answers[s] :
          ledger' = [ledger EXCEPT ![s].answer = got] /\ Yield(s, got)
    BY <1>7 DEF Receive
  <2>2. Known(ledger, s, None)
    BY <1>7 DEF Receive, GraphInv, Pending
  <2> DEFINE row == [ledger[s] EXCEPT !.answer = got]
  <2>3. ledger[s] \in Row(s) /\ ledger[s] # None
    BY <1>1, <2>2 DEF Known
  <2>4. row \in Row(s) /\ row.answer = got
    BY <2>3 DEF Row
  <2>5. ledger' = [ledger EXCEPT ![s] = row]
    BY <2>1
  <2> HIDE DEF row
  <2>6. Known(ledger', s, got)
    BY <1>1, <1>2, <2>4, <2>5 DEF Known
  <2> QED
    BY <1>2, <1>3, <1>7, <2>1, <2>3, <2>4, <2>5, <2>6, ProgressOf
    DEF Yield, Unchanged, Receive, Running
<1> QED
  BY <1>5, <1>6, <1>7

\* A slot the graph asks for is one the startup estimate has a price for, the
\* recovery of a fixed multi run excepted.
LEMMA TasksPriced ==
  ASSUME graph \in Graph, claim \in Claims, Path(claim, graph), NEW s \in TasksOf(graph)
  PROVE  s \in Priced \/ (s = "single" /\ claim.strategy = "multi" /\ claim.options.recover)
<1>1. claim.strategy \in {"adaptive", "single", "multi"} /\ graph.tasks \subseteq Tasks
  BY DEF Claims, Graph
<1>2. Slots \subseteq Priced \/ claim.strategy # "adaptive"
  BY DEF Priced
<1>3. CASE graph.node = "route"
  <2>1. RuledRoute = None /\ s = "router"
    BY <1>3 DEF TasksOf
  <2>2. claim.strategy = "adaptive"
    BY <1>1, <2>1, NoneIsNoResult DEF RuledRoute
  <2> QED
    BY <1>2, <2>1, <2>2, AnswersOf
<1>4. CASE graph.node \in {"single", "single_recovery"}
  <2>1. s = "single"
    BY <1>4 DEF TasksOf
  <2> QED
    BY <1>1, <1>2, <1>4, <2>1, AnswersOf DEF Path, Priced
<1>5. CASE graph.node \in {"decompose", "worker", "judge"}
  <2>1. s \in {"decomposer", "judge"} \cup Workers
    BY <1>1, <1>5 DEF TasksOf, Workers
  <2>2. claim.strategy # "single"
    BY <1>5 DEF Path
  <2> QED
    BY <1>1, <1>2, <2>1, <2>2, AnswersOf DEF Priced, Workers
<1> QED
  BY <1>3, <1>4, <1>5 DEF TasksOf

(***************************************************************************)
(* Every step keeps the invariant, part by part.                           *)
(***************************************************************************)

\* The steps: a superstep, an end, a task's, a checkpoint, a crash or a start.
LEMMA StepCases ==
  ASSUME GraphInv, [Next]_vars
  PROVE  \/ UNCHANGED vars
         \/ Advance
         \/ Raise \/ Return \/ \E s \in Slots : SafetyStop(s)
         \/ \E s \in Slots : RetrievalFails(s) \/ Ask(s) \/ Receive(s)
         \/ Checkpoint \/ Crash \/ Start
BY DEF Next, Step

\* Types.
LEMMA StepTypes ==
  ASSUME GraphInv, [Next]_vars
  PROVE  GraphTypes'
<1> USE DEF GraphTypes, TypeOK
<1>1. GraphTypes
  BY DEF GraphInv
<1>2. CASE UNCHANGED vars
  BY <1>1, <1>2 DEF vars
<1>3. CASE Advance
  <2>1. graph' \in Graph
    BY <1>3, AdvanceSound
  <2>2. /\ DOMAIN Idle = Slots /\ \A s \in Slots : Idle[s] \in Progress(s)
        /\ work' = Idle
    BY <1>3, ProgressOf DEF Idle, Advance
  <2>3. UNCHANGED <<claim, saved, starts, ledger, paid, process>>
    BY <1>3 DEF Advance, Unchanged
  <2> QED
    BY <1>1, <2>1, <2>2, <2>3
<1>4. CASE Raise \/ Return \/ \E s \in Slots : SafetyStop(s)
  <2>1. UNCHANGED <<claim, saved, starts, ledger, paid, graph, work>>
    BY <1>4 DEF Raise, Return, SafetyStop, Unchanged
  <2>2. process' \in {"internal_error", "returned", "safety_stop"}
    BY <1>4 DEF Raise, Return, SafetyStop
  <2> QED
    BY <1>1, <2>1, <2>2
<1>5. ASSUME NEW s \in Slots, RetrievalFails(s) \/ Ask(s) \/ Receive(s) PROVE GraphTypes'
  <2>1. UNCHANGED <<claim, graph, saved, process, starts>>
    BY <1>5, TaskStep
  <2>2. PICK got \in Progress(s) : work' = [work EXCEPT ![s] = got]
    BY <1>5, TaskStep
  <2>3. \/ UNCHANGED <<ledger, paid>>
        \/ \E row \in Row(s) :
             /\ ledger' = [ledger EXCEPT ![s] = row]
             /\ paid' = [paid EXCEPT ![s] = @ + 1] \/ paid' = paid
    BY <1>5, TaskStep
  <2>4. DOMAIN work' = Slots /\ \A r \in Slots : work'[r] \in Progress(r)
    BY <1>1, <2>2
  <2>5. DOMAIN ledger' = Slots /\ \A r \in Slots : ledger'[r] \in Row(r) \cup {None}
    BY <1>1, <2>3
  <2>6. DOMAIN paid' = Slots /\ \A r \in Slots : paid'[r] \in Nat
    BY <1>1, <2>3
  <2> QED
    BY <1>1, <2>1, <2>4, <2>5, <2>6
<1>6. CASE Checkpoint
  <2> DEFINE w == [s \in Slots |-> IF work[s] = Asked THEN Todo ELSE work[s]]
  <2>1. DOMAIN w = Slots /\ \A s \in Slots : w[s] \in Progress(s)
    BY <1>1, ProgressOf
  <2>2. saved' = [graph |-> graph, work |-> w]
    BY <1>6 DEF Checkpoint
  <2> HIDE DEF w
  <2>3. saved'.graph = graph /\ saved'.work = w
    BY <2>2
  <2>4. UNCHANGED <<claim, graph, work, ledger, paid, process, starts>>
    BY <1>6 DEF Checkpoint
  <2> QED
    BY <1>1, <2>1, <2>3, <2>4
<1>7. CASE Crash
  BY <1>1, <1>7 DEF Crash
<1>8. CASE Start
  <2>1. starts' \in 0 .. MaxStarts /\ process' = "up"
    BY <1>1, <1>8, GraphAssumption DEF Start
  <2>2. saved' = saved \/ saved' = NoCheckpoint
    BY <1>8 DEF Start
  <2>3. NoCheckpoint.graph \in Graph /\ NoCheckpoint.work = Idle
    BY NewGraphSound DEF NoCheckpoint
  <2>4. DOMAIN Idle = Slots /\ \A s \in Slots : Idle[s] \in Progress(s)
    BY ProgressOf DEF Idle
  <2>5. UNCHANGED <<claim, graph, work, ledger, paid>>
    BY <1>8 DEF Start
  <2> QED
    BY <1>1, <2>1, <2>2, <2>3, <2>4, <2>5
<1> QED
  BY <1>2, <1>3, <1>4, <1>5, <1>6, <1>7, <1>8, StepCases

\* A call is handed over once, within the profile.
LEMMA StepPaid ==
  ASSUME GraphInv, [Next]_vars
  PROVE  PaidOnRecord' /\ CallsWithinProfile'
<1> USE DEF PaidOnRecord, CallsWithinProfile
<1>1. /\ PaidOnRecord /\ CallsWithinProfile /\ GraphTypes /\ graph \in Graph
      /\ claim \in Claims /\ Path(claim, graph)
  BY DEF GraphInv, Sound, GraphTypes, TypeOK
<1>2. CASE UNCHANGED <<claim, ledger, paid>>
  BY <1>1, <1>2 DEF Priced
<1>3. ASSUME NEW s \in Slots, RetrievalFails(s) \/ Ask(s) \/ Receive(s), ~UNCHANGED <<ledger, paid>>
      PROVE  PaidOnRecord' /\ CallsWithinProfile'
  <2>1. claim' = claim /\ s \in TasksOf(graph)
    BY <1>3, TaskStep
  <2>2. PICK row : /\ ledger' = [ledger EXCEPT ![s] = row] /\ row # None
                   /\ \/ ledger[s] = None /\ paid' = [paid EXCEPT ![s] = @ + 1]
                      \/ ledger[s] # None /\ paid' = paid
    BY <1>3, TaskStep
  <2>3. s \in Priced \/ (s = "single" /\ claim.strategy = "multi" /\ claim.options.recover)
    BY <1>1, <2>1, TasksPriced
  <2>4. Priced' = Priced
    BY <2>1 DEF Priced
  <2>5. \A r \in Slots : r # s => paid'[r] = paid[r] /\ ledger'[r] = ledger[r]
    BY <1>1, <2>2 DEF GraphTypes
  <2>6. paid'[s] = 1 /\ ledger'[s] # None
    BY <1>1, <2>2 DEF GraphTypes
  <2> QED
    BY <1>1, <2>1, <2>3, <2>4, <2>5, <2>6
<1>4. CASE \E s \in Slots : RetrievalFails(s) \/ Ask(s) \/ Receive(s)
  <2>1. claim' = claim
    BY <1>4, TaskStep
  <2> QED
    BY <1>2, <1>3, <1>4, <2>1
<1> QED
  BY <1>2, <1>4, StepCases DEF vars, Advance, Raise, Return, SafetyStop, Checkpoint, Crash,
     Start, Unchanged

\* What is awaited has no answer, and what was yielded is on record.
LEMMA StepWork ==
  ASSUME GraphInv, [Next]_vars
  PROVE  Pending' /\ WorkKnown(ledger', work') /\ WorkKnown(ledger', saved'.work)
<1>1. /\ GraphTypes /\ Pending
      /\ WorkKnown(ledger, work) /\ WorkKnown(ledger, saved.work)
  BY DEF GraphInv
<1>2. WorkKnown(ledger', work) /\ WorkKnown(ledger', saved.work)
  BY <1>1, LedgerGrows, WorkStays
<1>3. \A s \in Slots : Idle[s] = Todo /\ Todo # Asked /\ Todo \notin Answers[s]
  BY AnswersAreAnswers, MarkerAssumption DEF Idle
<1>4. WorkKnown(ledger', Idle)
  BY <1>3 DEF WorkKnown
<1>5. CASE UNCHANGED <<work, saved, ledger>>
  BY <1>1, <1>5 DEF Pending
<1>6. CASE Advance
  <2>1. work' = Idle /\ saved' = saved
    BY <1>6 DEF Advance, Unchanged
  <2> QED
    BY <1>1, <1>2, <1>3, <1>4, <2>1 DEF Pending
<1>7. ASSUME NEW s \in Slots, RetrievalFails(s) \/ Ask(s) \/ Receive(s)
      PROVE  Pending' /\ WorkKnown(ledger', work') /\ WorkKnown(ledger', saved'.work)
  <2>1. saved' = saved
    BY <1>7, TaskStep
  <2>2. PICK got \in Progress(s) : /\ work' = [work EXCEPT ![s] = got]
                                   /\ got \in Answers[s] => Known(ledger', s, got)
                                   /\ got = Asked => Known(ledger', s, None)
    BY <1>7, TaskStep
  <2>3. work'[s] = got /\ \A r \in Slots : r # s => work'[r] = work[r]
    BY <1>1, <2>2 DEF GraphTypes
  <2>4. \A r \in Slots : r # s => ledger'[r] = ledger[r]
    BY <1>1, <1>7, TaskStep DEF GraphTypes
  <2>5. Pending'
    BY <1>1, <2>1, <2>2, <2>3, <2>4 DEF Pending, Known
  <2>6. WorkKnown(ledger', work')
    BY <1>2, <2>2, <2>3 DEF WorkKnown
  <2> QED
    BY <1>2, <2>1, <2>5, <2>6
<1>8. CASE Checkpoint
  <2> DEFINE w == [s \in Slots |-> IF work[s] = Asked THEN Todo ELSE work[s]]
  <2>1. saved' = [graph |-> graph, work |-> w]
    BY <1>8 DEF Checkpoint
  <2>2. \A s \in Slots : w[s] # Asked /\ (w[s] \in Answers[s] => w[s] = work[s])
    BY <1>3
  <2> HIDE DEF w
  <2>3. saved'.work = w /\ work' = work /\ ledger' = ledger
    BY <1>8, <2>1 DEF Checkpoint
  <2>4. WorkKnown(ledger', w)
    BY <1>2, <2>2 DEF WorkKnown
  <2> QED
    BY <1>1, <1>2, <2>2, <2>3, <2>4 DEF Pending
<1>9. CASE Crash
  <2>1. saved' = saved /\ work' = saved.work
    BY <1>9 DEF Crash
  <2> QED
    BY <1>1, <1>2, <2>1 DEF Pending
<1>10. CASE Start
  <2>1. work' = work /\ ledger' = ledger /\ (saved' = saved \/ saved' = NoCheckpoint)
    BY <1>10 DEF Start
  <2>2. NoCheckpoint.work = Idle
    BY DEF NoCheckpoint
  <2> QED
    BY <1>1, <1>2, <1>3, <1>4, <2>1, <2>2 DEF Pending
<1> QED
  BY <1>5, <1>6, <1>7, <1>8, <1>9, <1>10, StepCases
  DEF vars, Raise, Return, SafetyStop, Unchanged

\* Both graphs stay sound.
LEMMA StepSound ==
  ASSUME GraphInv, [Next]_vars
  PROVE  Sound(claim', ledger', graph') /\ Sound(claim', ledger', saved'.graph)
<1>1. GraphTypes /\ Pending /\ graph \in Graph /\ saved.graph \in Graph
  BY DEF GraphInv, GraphTypes, TypeOK
<1>2. Sound(claim, ledger', graph) /\ Sound(claim, ledger', saved.graph)
  BY <1>1, LedgerGrows, SoundStays DEF GraphInv
<1>3. CASE Advance
  <2>1. UNCHANGED <<claim, ledger, saved>>
    BY <1>3 DEF Advance, Unchanged
  <2> QED
    BY <1>2, <1>3, <2>1, AdvanceSound
<1>4. CASE ~Advance
  <2>1. claim' = claim /\ (graph' = graph \/ graph' = saved.graph)
    BY <1>4, StepCases, TaskStep DEF vars, Raise, Return, SafetyStop, Checkpoint, Crash,
       Start, Unchanged
  <2>2. saved' = saved \/ saved'.graph = graph \/ saved'.graph = NewGraph
    BY <1>4, StepCases, TaskStep DEF vars, Raise, Return, SafetyStop, Checkpoint, Crash,
       Start, Unchanged, NoCheckpoint
  <2>3. Sound(claim, ledger', NewGraph)
    BY NewGraphSound
  <2> QED
    BY <1>2, <2>1, <2>2, <2>3
<1> QED
  BY <1>3, <1>4

\* The invariant holds in every reachable state.
THEOREM GraphInvariant == Spec => []GraphInv
<1>1. GraphInv /\ [Next]_vars => GraphInv'
  BY StepTypes, StepPaid, StepWork, StepSound DEF GraphInv
<1> QED
  BY <1>1, GraphInit, PTL DEF Spec

(***************************************************************************)
(* The theorems.                                                           *)
(***************************************************************************)

\* The state is well-typed, and no process starts beyond the bound.
THEOREM GraphTypeCorrect == Spec => []TypeOK
BY GraphInvariant, PTL DEF GraphInv, GraphTypes

\* No slot is paid for twice, whatever checkpoints a run starts again from.
THEOREM GraphPaysOnce == Spec => []PaidOnce
<1>1. GraphInv => PaidOnce
  BY DEF GraphInv, PaidOnRecord, PaidOnce
<1> QED
  BY <1>1, GraphInvariant, PTL

\* A run pays for nothing the startup estimate left out, except the recovery
\* of a fixed multi run.
THEOREM GraphKeepsProfile == Spec => []CallsWithinProfile
<1>1. GraphInv => CallsWithinProfile
  BY DEF GraphInv
<1> QED
  BY <1>1, GraphInvariant, PTL

\* A graph has a result only at its end.
LEMMA ResultAtEnd ==
  ASSUME GraphInv, graph.final # None
  PROVE  Ended(claim, ledger, graph)
<1>1. graph.node \in Nodes /\ Sound(claim, ledger, graph)
  BY DEF GraphInv, GraphTypes, TypeOK, Graph
<1> QED
  BY <1>1 DEF Sound, Fresh, Escalated, Drafted, Nodes

\* The judge's verdict is accepted only over a valid answer of every worker.
THEOREM JudgeSeesAllAnswers == Spec => []JudgedOnAllAnswers
<1>1. GraphInv => JudgedOnAllAnswers
  <2> SUFFICES ASSUME GraphInv, graph.final # None, graph.final.status = "completed",
                      graph.origin = "multi", NEW t \in graph.tasks
               PROVE  ledger[t] # None /\ ledger[t].answer \in WorkerAnswers
    BY DEF JudgedOnAllAnswers
  <2> QED
    BY ResultAtEnd DEF Ended, Examined, Known
<1> QED
  BY <1>1, GraphInvariant, PTL

\* No single draft found too weak comes back through the recovery.
THEOREM WeakDraftStaysRejected == Spec => []WeakDraftNotResurrected
<1>1. GraphInv => WeakDraftNotResurrected
  BY ResultAtEnd DEF Ended, WeakDraftNotResurrected
<1> QED
  BY <1>1, GraphInvariant, PTL

\* With adjudication, an escalated run takes a side only if both verifiers'
\* answers on record do.
THEOREM SidesAreUnanimous == Spec => []AdjudicatedSideIsUnanimous
<1>1. GraphInv => AdjudicatedSideIsUnanimous
  <2> SUFFICES ASSUME GraphInv, graph.final # None, graph.final.status = "completed",
                      graph.escalations = 1, claim.options.adjudicate,
                      graph.final.verdict \in {Supported, Refuted},
                      NEW s \in {"single", "judge"}
               PROVE  ledger[s].answer.verdict = graph.final.verdict
    BY DEF AdjudicatedSideIsUnanimous
  <2> QED
    BY ResultAtEnd DEF Ended, Known
<1> QED
  BY <1>1, GraphInvariant, PTL

=============================================================================
