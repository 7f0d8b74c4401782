-------------------------- MODULE VerificationGraph --------------------------
(***************************************************************************)
(* One claim through the verification graph (graph.py) over the ledger.    *)
(*                                                                         *)
(* A node of the graph makes a superstep of one task, or of one task per   *)
(* worker.  A task may ask the paid-call client for the answer in its slot *)
(* (node, task_id); the graph moves on when all its tasks have yielded.    *)
(* Its state is checkpointed behind its back, so that a process which dies *)
(* starts again from some earlier checkpoint, with the ledger as it was.   *)
(*                                                                         *)
(* Of a verdict draft the model keeps what decides the path: the verdict,  *)
(* whether its confidence is below the threshold, and whether its          *)
(* citations (projected onto known evidence) leave claim units uncovered.  *)
(***************************************************************************)
EXTENDS Naturals, Sequences, FiniteSets, SequencesExt

CONSTANTS
  Tasks,       \* task ids of a decomposition, at most three
  Drafts,      \* verdict drafts a model may return
  Splits,      \* sets of tasks a claim may be decomposed into
  Hardenings,  \* hardening configurations in use
  MaxStarts,   \* bound: process starts
  None, Todo, Asked,                \* progress of a task
  Unretrieved, Mismatch, Invalid    \* what a task yields besides an answer

Supported == "supported"
Refuted == "refuted"
Conflicting == "conflicting"
NotEnough == "not_enough"
Verdicts == {Supported, Refuted, Conflicting, NotEnough}

ASSUME GraphAssumption ==
  /\ IsFiniteSet(Tasks) /\ Tasks # {} /\ Cardinality(Tasks) <= 3
  /\ Tasks \cap {"router", "single", "decomposer", "judge"} = {}
  /\ Drafts \subseteq [verdict : Verdicts, low : BOOLEAN, uncovered : BOOLEAN]
  /\ Splits \subseteq (SUBSET Tasks) \ {{}}
  /\ Hardenings \subseteq [ambiguous : BOOLEAN, split : BOOLEAN,
                           adjudicate : BOOLEAN, recover : BOOLEAN]
  /\ MaxStarts \in Nat \ {0}

Slots == Tasks \cup {"router", "single", "decomposer", "judge"}
Workers == Tasks

\* What the rules of HybridRouter say of the analyzed claim (they are asked only
\* under the adaptive strategy), and its lexical units in at most three chunks.
Claims ==
  {c \in [strategy : {"adaptive", "single", "multi"},
          shape    : {"clear_multi", "clear_single", "ambiguous"},
          chunks   : Splits,
          options  : Hardenings] :
     /\ c.strategy # "adaptive" => c.shape = "ambiguous"
     /\ c.shape = "clear_multi" => Cardinality(c.chunks) > 1
     /\ c.shape = "clear_single" => Cardinality(c.chunks) = 1}

WorkerAnswers == {"completed", "partial", "insufficient"}  \* the last two carry errors

Answers ==
  [s \in Slots |->
     {Invalid} \cup
     CASE s = "router" -> {"single", "multi"}
       [] s = "decomposer" -> Splits
       [] s \in Workers -> WorkerAnswers
       [] OTHER -> Drafts]

VARIABLES
  claim,    \* the claim, strategy and configuration; constant
  graph,    \* state of the graph in the live process
  work,     \* work[s]: progress of the superstep's task in slot s
  saved,    \* the checkpoint on disk: graph and work
  ledger,   \* ledger[s]: prompt and answer of the slot's call
  paid,     \* paid[s]: times the slot's call was handed over
  process,  \* "down", "up", or how the run ended
  starts    \* process starts so far

vars == <<claim, graph, work, saved, ledger, paid, process, starts>>

Idle == [s \in Slots |-> Todo]

NewGraph ==
  [node |-> "analyze", route |-> None, origin |-> None, draft |-> None,
   candidates |-> <<>>, escalations |-> 0, fallback |-> FALSE,
   tasks |-> {}, results |-> <<>>, final |-> None]

NoCheckpoint == [graph |-> NewGraph, work |-> Idle]

Nodes == {"analyze", "route", "single", "single_recovery", "decompose",
          "worker", "judge", "validate", "end"}

Results ==
  [status : {"completed", "partial", "failed"}, verdict : Verdicts \cup {None},
   low : BOOLEAN, uncovered : BOOLEAN, route : {"single", "multi", None},
   escalated : BOOLEAN, fallback : BOOLEAN]

\* What the workers found, by task.
Findings == UNION {[tasks -> WorkerAnswers \cup {"failed"}] : tasks \in SUBSET Tasks}

Graph ==
  [node : Nodes, route : {"single", "multi", None}, origin : {"single", "multi", None},
   draft : Results \cup {None}, candidates : Seq(Results), escalations : {0, 1},
   fallback : BOOLEAN, tasks : SUBSET Tasks, results : Findings, final : Results \cup {None}]

\* Only the evidence search of a verifier or a worker can fail before the call.
Progress(s) ==
  {Todo, Asked, Mismatch} \cup Answers[s]
    \cup IF s \in Workers \cup {"single"} THEN {Unretrieved} ELSE {}

Row(s) == [prompt : Findings, answer : Answers[s] \cup {None}]

\* The markers stand for no answer, Python's None for no result and no row.
ASSUME MarkerAssumption ==
  /\ Asked \notin {Todo, Mismatch, Unretrieved}
  /\ \A s \in Slots : Answers[s] \cap {None, Todo, Asked, Mismatch, Unretrieved} = {}
  /\ None \notin Results \cup {"single", "multi"}
  /\ \A s \in Slots : None \notin Row(s)

TypeOK ==
  /\ claim \in Claims
  /\ {graph, saved.graph} \subseteq Graph
  /\ \A s \in Slots :
       /\ {work[s], saved.work[s]} \subseteq Progress(s)
       /\ ledger[s] \in Row(s) \cup {None}
       /\ paid[s] \in Nat
  /\ process \in {"down", "up", "returned", "safety_stop", "internal_error"}
  /\ starts \in 0 .. MaxStarts

(***************************************************************************)
(* Results.                                                                *)
(***************************************************************************)
FailedResult(route, escalated, fallback) ==
  [status |-> "failed", verdict |-> None, low |-> FALSE, uncovered |-> FALSE,
   route |-> route, escalated |-> escalated, fallback |-> fallback]

DraftResult(d, status, route, escalated) ==
  [status |-> status, verdict |-> d.verdict, low |-> d.low, uncovered |-> d.uncovered,
   route |-> route, escalated |-> escalated, fallback |-> FALSE]

\* SingleVerifier: every failure but a safety stop becomes a failed result.
SingleResult(got) ==
  CASE got = Unretrieved -> FailedResult(None, FALSE, FALSE)
    [] got \in {Mismatch, Invalid} -> FailedResult("single", FALSE, FALSE)
    [] OTHER -> DraftResult(got, "completed", "single", FALSE)

\* EvidenceWorker: likewise.
WorkerResult(got) == IF got \in WorkerAnswers THEN got ELSE "failed"

\* Slip: a failed worker is overlooked.
JudgedPartialIgnoringFailures(g, d) ==
  /\ \E t \in g.tasks : g.results[t] \in {"partial", "insufficient"}
  /\ ~(d.verdict = NotEnough /\ \A t \in g.tasks : g.results[t] # "partial")

\* VerdictJudge: partial with a failed worker, or with workers that report
\* errors unless they and the judge all found the evidence insufficient.
JudgedPartial(g, d) ==
  \/ \E t \in g.tasks : g.results[t] = "failed"
  \/ /\ \E t \in g.tasks : g.results[t] \in {"partial", "insufficient"}
     /\ ~(d.verdict = NotEnough /\ \A t \in g.tasks : g.results[t] # "partial")

JudgeResult(g, d) ==
  DraftResult(d, IF JudgedPartial(g, d) THEN "partial" ELSE "completed",
              g.route, g.escalations > 0)

\* Slip: one side of a disagreement wins.
AdjudicatedToOneSide(verdicts) == CHOOSE v \in verdicts : TRUE

\* adjudicate_verification_results: everything but verdict and confidence is
\* taken from the candidate that sorts first by citations and wording.
AdjudicatedVerdict(verdicts) ==
  CASE Cardinality(verdicts) = 1 -> CHOOSE v \in verdicts : TRUE
    [] verdicts = {Supported, Refuted} -> Conflicting
    [] OTHER -> NotEnough

Adjudicated(candidates) ==
  LET rs == ToSet(candidates) IN
  {[r EXCEPT !.verdict = AdjudicatedVerdict({c.verdict : c \in rs}),
             !.low = \E c \in rs : c.low] : r \in rs}

(***************************************************************************)
(* The validator.                                                          *)
(***************************************************************************)
Flawed(r) ==
  \/ r.status = "partial"
  \/ r.low
  \/ r.uncovered /\ r.verdict # NotEnough

\* What validate may take for the draft: adjudication needs completed candidates.
Validated(g) ==
  IF /\ claim.options.adjudicate /\ Len(g.candidates) > 1
     /\ \A i \in DOMAIN g.candidates : g.candidates[i].status = "completed"
    THEN Adjudicated(g.candidates)
    ELSE {g.draft}

\* Slip: every strategy escalates.
EscalatesAnyStrategy(g, r) ==
  r.status # "failed" /\ g.origin = "single" /\ g.escalations = 0 /\ ~g.fallback

Escalates(g, r) ==
  /\ r.status # "failed"
  /\ claim.strategy = "adaptive" /\ g.origin = "single"
  /\ g.escalations = 0 /\ ~g.fallback

\* Slip: a failed draft of any origin is recovered.
RecoversAlways(g) == claim.options.recover

Recovers(g) == g.origin = "multi" /\ claim.options.recover /\ ~g.fallback

Failed(r) ==
  IF r.status = "failed" THEN r
  ELSE FailedResult(r.route, r.escalated, FALSE)

Validations(g) ==
  {CASE r.status = "completed" /\ ~Flawed(r) -> [g EXCEPT !.node = "end", !.final = r]
     [] Escalates(g, r) /\ Flawed(r) ->
          [g EXCEPT !.node = "decompose", !.escalations = @ + 1]
     [] Recovers(g) /\ (r.status = "failed" \/ Flawed(r)) ->
          [g EXCEPT !.node = "single_recovery", !.fallback = TRUE]
     [] OTHER -> [g EXCEPT !.node = "end", !.final = Failed(r)]
   : r \in Validated(g)}

(***************************************************************************)
(* The nodes: which slots a superstep asks for, and what it leaves.        *)
(***************************************************************************)

\* HybridRouter: the strategy, then the rules, then the model.
RuledRoute ==
  CASE claim.strategy # "adaptive" -> claim.strategy
    [] claim.strategy = "adaptive" /\ claim.shape = "clear_multi" -> "multi"
    [] claim.strategy = "adaptive" /\ claim.shape = "clear_single" -> "single"
    [] OTHER -> IF claim.options.ambiguous THEN "multi" ELSE None

TasksOf(g) ==
  CASE g.node = "route" /\ RuledRoute = None -> {"router"}
    [] g.node \in {"single", "single_recovery"} -> {"single"}
    [] g.node = "decompose" /\ ~claim.options.split -> {"decomposer"}
    [] g.node = "worker" -> g.tasks
    [] g.node = "judge" -> {"judge"}
    [] OTHER -> {}

Joined == \A s \in TasksOf(graph) : work[s] \notin {Todo, Asked}

\* An exception of the decomposer or the judge leaves the graph.
Raises ==
  \E s \in {"decomposer", "judge"} \cap TasksOf(graph) : work[s] \in {Mismatch, Invalid}

Routed(g) ==
  LET asked == IF work["router"] \in {Mismatch, Invalid} THEN "multi" ELSE work["router"]
      route == IF RuledRoute # None THEN RuledRoute ELSE asked
  IN  [g EXCEPT !.route = route, !.node = IF route = "single" THEN "single" ELSE "decompose"]

AnsweredBySingle(g) ==
  LET r == SingleResult(work["single"])
  IN  [g EXCEPT !.node = "validate", !.origin = "single", !.draft = r, !.candidates = <<r>>]

RecoveredBySingle(g) ==
  LET single == SingleResult(work["single"])
      r == [single EXCEPT !.route = IF @ = None THEN None ELSE "multi",
                          !.escalated = FALSE, !.fallback = TRUE]
  IN  [g EXCEPT !.node = "validate", !.origin = "single", !.draft = r, !.candidates = <<r>>]

Decomposed(g) ==
  [g EXCEPT !.node = "worker",
            !.tasks = IF claim.options.split THEN claim.chunks ELSE work["decomposer"]]

WorkersJoined(g) ==
  [g EXCEPT !.node = "judge", !.results = [t \in g.tasks |-> WorkerResult(work[t])]]

JudgedBy(g) ==
  LET r == JudgeResult(g, work["judge"])
  IN  [g EXCEPT !.node = "validate", !.origin = "multi", !.draft = r,
                !.candidates = Append(@, r)]

After(g) ==
  CASE g.node = "analyze" ->
         {[g EXCEPT !.node = "route"],
          [g EXCEPT !.node = "end", !.final = FailedResult(None, FALSE, FALSE)]}
    [] g.node = "route" -> {Routed(g)}
    [] g.node = "single" -> {AnsweredBySingle(g)}
    [] g.node = "single_recovery" -> {RecoveredBySingle(g)}
    [] g.node = "decompose" -> {Decomposed(g)}
    [] g.node = "worker" -> {WorkersJoined(g)}
    [] g.node = "judge" -> {JudgedBy(g)}
    [] g.node = "validate" -> Validations(g)

Unchanged == UNCHANGED <<claim, saved, starts>>

Advance ==
  /\ process = "up" /\ graph.node # "end" /\ Joined /\ ~Raises
  /\ graph' \in After(graph)
  /\ work' = Idle
  /\ UNCHANGED <<ledger, paid, process>> /\ Unchanged

Raise ==
  /\ process = "up" /\ Raises
  /\ process' = "internal_error"
  /\ UNCHANGED <<graph, work, ledger, paid>> /\ Unchanged

Return ==
  /\ process = "up" /\ graph.node = "end"
  /\ process' = "returned"
  /\ UNCHANGED <<graph, work, ledger, paid>> /\ Unchanged

(***************************************************************************)
(* The tasks of a superstep and the calls they pay for.                    *)
(***************************************************************************)
Running(s) == process = "up" /\ s \in TasksOf(graph)

\* The messages of a call: fixed by the claim and its frozen evidence, but for
\* the judge, who is shown what the workers found.
Prompt(s) == IF s = "judge" THEN graph.results ELSE <<>>

\* The evidence search before a call fails.
RetrievalFails(s) ==
  /\ Running(s) /\ work[s] = Todo
  /\ s \in Workers \cup {"single"}
  /\ work' = [work EXCEPT ![s] = Unretrieved]
  /\ UNCHANGED <<graph, ledger, paid, process>> /\ Unchanged

Yield(s, got) ==
  /\ work' = [work EXCEPT ![s] = got]
  /\ UNCHANGED <<graph, process>> /\ Unchanged

HandOver(s) ==
  /\ ledger' = [ledger EXCEPT ![s] = [prompt |-> Prompt(s), answer |-> None]]
  /\ paid' = [paid EXCEPT ![s] = @ + 1]
  /\ Yield(s, Asked)

\* Slip: an answer on record is not looked for.
AskAgain(s) == Running(s) /\ work[s] = Todo /\ HandOver(s)

\* Slip: a call found open is sent again.
AskOpenAgain(s) ==
  /\ Running(s) /\ work[s] = Todo
  /\ \/ (ledger[s] # None => ledger[s].answer = None) /\ HandOver(s)
     \/ /\ ledger[s] # None /\ ledger[s].answer # None
        /\ Yield(s, ledger[s].answer)
        /\ UNCHANGED <<ledger, paid>>

\* The client: pay, reuse the answer to the same request, or refuse another.
Ask(s) ==
  /\ Running(s) /\ work[s] = Todo
  /\ \/ ledger[s] = None /\ HandOver(s)
     \/ /\ ledger[s] # None
        /\ \/ ledger[s].prompt # Prompt(s) /\ Yield(s, Mismatch)
           \/ /\ ledger[s].prompt = Prompt(s) /\ ledger[s].answer # None
              /\ Yield(s, ledger[s].answer)
        /\ UNCHANGED <<ledger, paid>>

Receive(s) ==
  /\ Running(s) /\ work[s] = Asked
  /\ \E got \in Answers[s] :
       /\ ledger' = [ledger EXCEPT ![s].answer = got]
       /\ Yield(s, got)
  /\ UNCHANGED paid

\* Money, usage or billing of a call is in doubt: its exception cancels the
\* siblings and ends the run.
SafetyStop(s) ==
  /\ Running(s)
  /\ \/ work[s] = Asked
     \/ work[s] = Todo /\ (ledger[s] # None => ledger[s].answer = None)
  /\ process' = "safety_stop"
  /\ UNCHANGED <<graph, work, ledger, paid>> /\ Unchanged

(***************************************************************************)
(* Checkpoints are written behind the graph's back; a process may die, the *)
(* last of MaxStarts processes excepted (its checkpoints are left out).    *)
(***************************************************************************)
\* One is written per superstep, and one per yield of a superstep of several.
Checkpoint ==
  /\ process = "up" /\ starts < MaxStarts
  /\ work = Idle \/ graph.node = "worker"
  /\ saved' = [graph |-> graph,
               work |-> [s \in Slots |-> IF work[s] = Asked THEN Todo ELSE work[s]]]
  /\ UNCHANGED <<claim, graph, work, ledger, paid, process, starts>>

Crash ==
  /\ process = "up" /\ starts < MaxStarts
  /\ process' = "down" /\ graph' = saved.graph /\ work' = saved.work
  /\ UNCHANGED <<claim, saved, ledger, paid, starts>>

Start ==
  /\ process = "down"
  /\ process' = "up" /\ starts' = starts + 1
  /\ saved' = IF starts + 1 < MaxStarts THEN saved ELSE NoCheckpoint
  /\ UNCHANGED <<claim, graph, work, ledger, paid>>

-----------------------------------------------------------------------------
Init ==
  /\ claim \in Claims
  /\ graph = NewGraph /\ work = Idle
  /\ saved = NoCheckpoint
  /\ ledger = [s \in Slots |-> None]
  /\ paid = [s \in Slots |-> 0]
  /\ process = "down" /\ starts = 0

Step ==
  \/ Advance \/ Raise \/ Return
  \/ \E s \in Slots : RetrievalFails(s) \/ Ask(s) \/ Receive(s) \/ SafetyStop(s)

Next == Step \/ Checkpoint \/ Crash \/ Start

Spec == Init /\ [][Next]_vars

\* The event loop runs what is ready, and a silent provider times out.
FairSpec == Spec /\ WF_vars(Step)

(***************************************************************************)
(* Properties.                                                             *)
(***************************************************************************)

\* No slot of a run is paid for twice, whatever checkpoint it starts again
\* from, and though the recovery asks the single verifier a second time.
PaidOnce == \A s \in Slots : paid[s] <= 1

\* The call profile that estimate_campaign_batch_startup reserves money for.
Priced ==
  CASE claim.strategy = "single" -> {"single"}
    [] claim.strategy = "multi" -> {"decomposer", "judge"} \cup Workers
    [] OTHER -> Slots

\* A run pays only for calls the startup estimate has a price for, except the
\* recovery of a fixed multi run.
CallsWithinProfile ==
  \A s \in Slots :
    paid[s] > 0 =>
      \/ s \in Priced
      \/ s = "single" /\ claim.strategy = "multi" /\ claim.options.recover

\* stability-v4-design.md:11 and :26: every recovery call is represented in the
\* call bounds, one for each multi item.
EstimateCoversCalls == \A s \in Slots : paid[s] > 0 => s \in Priced

\* A verdict of the judge is accepted only with a valid answer of every worker
\* on record: no part of the claim went unexamined.
JudgedOnAllAnswers ==
  graph.final # None /\ graph.final.status = "completed" /\ graph.origin = "multi" =>
    \A t \in graph.tasks : ledger[t] # None /\ ledger[t].answer \in WorkerAnswers

\* A single draft the validator found too weak never becomes the result after
\* all, by way of the escalation's own recovery.
WeakDraftNotResurrected ==
  graph.final # None /\ graph.escalations = 1 /\ graph.fallback =>
    graph.final.status = "failed"

\* With adjudication an escalated run takes a side only when both verifiers,
\* as recorded, took it.
AdjudicatedSideIsUnanimous ==
  (/\ graph.final # None /\ graph.final.status = "completed"
   /\ graph.escalations = 1 /\ claim.options.adjudicate
   /\ graph.final.verdict \in {Supported, Refuted}) =>
    \A s \in {"single", "judge"} : ledger[s].answer.verdict = graph.final.verdict

\* Every process that runs the graph comes to an end: no cycle of escalation,
\* recovery and validation is endless, and no join waits for ever.
GraphEnds == process = "up" ~> process # "up"

=============================================================================
