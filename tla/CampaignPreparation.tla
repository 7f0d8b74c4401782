-------------------------- MODULE CampaignPreparation --------------------------
(***************************************************************************)
(* From the closed calibration of an activity to its frozen campaign:      *)
(* "calibrate replay" selects a routing policy from the saved cases and    *)
(* writes the calibrated configuration, the report and the activity's      *)
(* replay metadata, one file after the other; "evaluate" loads the         *)
(* configuration, checks the three files against each other and freezes    *)
(* the plan.                                                               *)
(*                                                                         *)
(* The activities' replays write to the same configuration and report, as  *)
(* two calls of the command with the same options do.  One replay runs at  *)
(* a time; it may die between two writes, and evaluations and commits come *)
(* at any moment.  A file's digest is represented by its content.          *)
(***************************************************************************)
EXTENDS RoutingReplay, CampaignSchedule

CONSTANTS
  Activities,
  Cohorts,     \* what the nodes may draft for the activities' claims
  Manifests,   \* dev and stability manifests an operator may pass
  Orders,      \* orders of the strategies the seeds give
  Price,       \* node -> price of a call at its token limits
  Reserve,     \* reserve ratio in basis points
  MaxHead      \* commits of the checkout

ASSUME PreparationAssumption ==
  /\ Cohorts \subseteq [Activities -> [Claims -> Case]]
  /\ Price \in [Nodes -> Nat] /\ Reserve \in 0 .. 10000 /\ MaxHead \in Nat

VARIABLES
  drafts,      \* activity -> what its nodes drafted, once its calibration is closed
  head,        \* HEAD of the checkout
  config,      \* routing section of the calibrated configuration
  report,      \* calibration report
  metadata,    \* activity -> calibration-replay.json
  replaying,   \* the replay under way
  evaluating,  \* the evaluation that has loaded its inputs
  campaign     \* activity -> plan.json and the policy of its last invocation

vars == <<drafts, head, config, report, metadata, replaying, evaluating, campaign>>

Init ==
  /\ drafts = [a \in Activities |-> None]
  /\ head = 0 /\ config = None /\ report = None
  /\ metadata = [a \in Activities |-> None]
  /\ replaying = None /\ evaluating = None
  /\ campaign = [a \in Activities |-> None]

\* calibrate collect: the activity is closed with a case for every claim.
CloseCalibration(a) ==
  /\ drafts[a] = None
  /\ \E d \in Cohorts :
       /\ \A b \in Activities : drafts[b] \in {None, d[b]}
       /\ drafts' = [drafts EXCEPT ![a] = d[a]]
  /\ UNCHANGED <<head, config, report, metadata, replaying, evaluating, campaign>>

\* The case files of an activity.
SavedCases(a) == [c \in Claims |-> SavedCase(drafts[a][c], Recovering)]

(***************************************************************************)
(* calibrate replay                                                        *)
(***************************************************************************)
BeginReplay(a) ==
  /\ replaying = None /\ drafts[a] # None
  /\ GoldAccepted(SavedCases(a))
  /\ replaying' = [activity |-> a, step |-> "config", commit |-> head,
                   selected |-> Chosen(Outcomes(SavedCases(a))).settings]
  /\ UNCHANGED <<drafts, head, config, report, metadata, evaluating, campaign>>

At(step) == replaying # None /\ replaying.step = step

\* write_calibration_outputs: the configuration ...
WriteConfig ==
  /\ At("config")
  /\ config' = replaying.selected
  /\ replaying' = [replaying EXCEPT !.step = "report"]
  /\ UNCHANGED <<drafts, head, report, metadata, evaluating, campaign>>

\* ... which is read back, and the report.
WriteReport ==
  /\ At("report") /\ config = replaying.selected
  /\ report' = [activity |-> replaying.activity, selected |-> replaying.selected,
                commit |-> replaying.commit]
  /\ replaying' = [replaying EXCEPT !.step = "metadata"]
  /\ UNCHANGED <<drafts, head, config, metadata, evaluating, campaign>>

WriteMetadata ==
  /\ At("metadata")
  /\ metadata' = [metadata EXCEPT ![replaying.activity] =
                    [config |-> config, report |-> report]]
  /\ replaying' = None
  /\ UNCHANGED <<drafts, head, config, report, evaluating, campaign>>

ReplayDies ==
  /\ replaying # None
  /\ replaying' = None
  /\ UNCHANGED <<drafts, head, config, report, metadata, evaluating, campaign>>

Commit ==
  /\ head < MaxHead
  /\ head' = head + 1
  /\ UNCHANGED <<drafts, config, report, metadata, replaying, evaluating, campaign>>

(***************************************************************************)
(* evaluate                                                                *)
(***************************************************************************)
\* The configuration and the manifests are parsed first.
LoadInputs(a) ==
  /\ evaluating = None /\ config # None /\ drafts[a] # None
  /\ \E m \in Manifests, order \in Orders, recovery \in {0, 1} :
       evaluating' = [activity |-> a, policy |-> config, recovery |-> recovery,
                      dev |-> m.dev, stability |-> m.stability, order |-> order]
  /\ UNCHANGED <<drafts, head, config, report, metadata, replaying, campaign>>

Planned(e) == Plan(e.dev, e.stability, e.order)

\* compute_gate_a_call_profile for the cohorts of the plan.
Profile(recovery) ==
  CallProfile(Cardinality(Claims), DevSize, StabilitySize, Len(Repeats), recovery)

\* _validate_replay
FilesAccepted(a) ==
  /\ metadata[a] # None
  /\ metadata[a].config = config /\ metadata[a].report = report

\* Slip: the digests are all that is checked.
PolicyUnchecked(policy) == TRUE

\* _validate_selected_routing_policy
PolicyAccepted(policy) == report.selected = policy

\* mode start_after_calibration
Start(a) ==
  /\ evaluating # None /\ evaluating.activity = a
  /\ campaign[a] = None
  /\ CohortsAccepted(evaluating.dev, evaluating.stability)
  /\ FilesAccepted(a) /\ PolicyAccepted(evaluating.policy)
  /\ PlanAccepted(Planned(evaluating))
  /\ LET bounds == CallBounds(Profile(evaluating.recovery), Price, Reserve) IN
     /\ BoundsAccepted(bounds)
     /\ campaign' = [campaign EXCEPT ![a] =
          [config |-> config, head |-> head, plan |-> Planned(evaluating),
           bounds |-> bounds, recovery |-> evaluating.recovery,
           policy |-> evaluating.policy]]
  /\ evaluating' = None
  /\ UNCHANGED <<drafts, head, config, report, metadata, replaying>>

\* mode resume: the files are checked again, then the frozen identity, of which
\* a billing recovery lets the commit be a later one.
Resume(a, recovery) ==
  /\ evaluating # None /\ evaluating.activity = a
  /\ campaign[a] # None
  /\ FilesAccepted(a) /\ PolicyAccepted(evaluating.policy)
  /\ campaign[a].config = config
  /\ campaign[a].head = head \/ (recovery /\ campaign[a].head < head)
  /\ campaign' = [campaign EXCEPT ![a].policy = evaluating.policy]
  /\ evaluating' = None
  /\ UNCHANGED <<drafts, head, config, report, metadata, replaying>>

\* A check fails, or the process dies.
EvaluationEnds ==
  /\ evaluating # None
  /\ evaluating' = None
  /\ UNCHANGED <<drafts, head, config, report, metadata, replaying, campaign>>

Next ==
  \/ \E a \in Activities :
       \/ CloseCalibration(a) \/ BeginReplay(a) \/ LoadInputs(a) \/ Start(a)
       \/ \E recovery \in BOOLEAN : Resume(a, recovery)
  \/ WriteConfig \/ WriteReport \/ WriteMetadata \/ ReplayDies
  \/ Commit \/ EvaluationEnds

Spec == Init /\ [][Next]_vars

(***************************************************************************)
(* Properties                                                              *)
(***************************************************************************)
\* The replay of the saved results never promises what the deployed graph,
\* drafting the same answers, would not do.  A case it completes takes that path
\* and costs those tokens, whether or not multi runs are recovered, and ends
\* with that verdict, except that an adjudicated escalation may fail or take no
\* side (graph.py:297).  Without recovery, and when the collecting configuration
\* has accepted both drafts, this is so of every case.  It is said only of
\* claims that deterministic_ambiguous leaves alone (routing.py:59) and of
\* replays that use no result the collection has recovered.
KeepsPromise(deployed, replayed, h) ==
  /\ deployed.tokens = replayed.tokens
  /\ deployed.escalated = replayed.escalated
  /\ \/ deployed.verdict = replayed.verdict
     \/ /\ h.adjudicate /\ deployed.escalated
        /\ deployed.verdict \in {None, Conflicting, NotEnough}

AgreesOn(case) ==
  \A s \in Settings, recovering \in BOOLEAN :
    LET saved    == SavedCase(case, recovering)
        replayed == Replay(saved, s)
    IN  \A h \in Hardening :
          /\ replayed.verdict # None \/ (~h.recover /\ saved = case)
          /\ h.deterministic => RouteIsRuled(case, s)
          /\ Recovered(case, recovering) => Route(case, s) = "single" /\ ~replayed.escalated
          => KeepsPromise(Deployed(case, s, h), replayed, h)

ReplayAgrees ==
  [][\A a \in Activities : drafts'[a] # drafts[a] => \A c \in Claims : AgreesOn(drafts'[a][c])]_drafts

\* Raising a threshold never makes a case cheaper, and completes no case the
\* lower one fails: the candidates trade completion and quality against tokens
\* along the thresholds, which is what makes the grid worth searching.
DearerOn(case) ==
  \A s \in Settings :
    LET lax == Replay(case, s) IN
    \A confidence \in {l \in Levels : l >= s.confidence},
       coverage \in {l \in Levels : l >= s.coverage} :
      LET strict == Replay(case, [s EXCEPT !.confidence = confidence, !.coverage = coverage])
      IN  strict.tokens >= lax.tokens /\ (strict.verdict # None => lax.verdict # None)

StricterIsDearer ==
  [][\A a \in Activities : drafts'[a] # drafts[a] =>
       \A c \in Claims :
         \A saved \in {SavedCase(drafts'[a][c], recovering) : recovering \in BOOLEAN} :
           DearerOn(saved)]_drafts

\* Whatever died between two writes, whichever replay wrote last and whenever
\* the evaluation read them, a campaign runs under the routing frozen in its
\* plan, and that routing is within the tolerance of the best candidate on the
\* cases of this activity, with no cheaper candidate that is
\* (specs/2026-08-17-evidence-route-design.md:154).
PolicyFits(a, policy) ==
  LET outcomes == Outcomes(SavedCases(a))
      outcome  == Outcome(SavedCases(a), policy)
  IN  \A o \in outcomes :
        /\ outcome.quality >= o.quality - Tolerance
        /\ o.tokens < outcome.tokens => \E p \in outcomes : o.quality < p.quality - Tolerance

PolicyIsChosen ==
  [][\A a \in Activities : campaign'[a] # campaign[a] =>
       campaign'[a].policy = campaign'[a].config /\ PolicyFits(a, campaign'[a].config)]_campaign

\* Any accepted pair of manifests can be planned (the plan passes the validator
\* of CampaignPlan), runs every claim once with every strategy, and gives no
\* strategy a place in the order more often than another: "seed ... rotates the
\* strategies of each claim" (specs/2026-08-17-evidence-route-design.md:243).
FairOn(e) ==
  LET plan == Planned(e)
      dev  == InPhase(plan, "dev")
      Places(s, p) == Cardinality({k \in 1 .. Len(dev) :
                                     dev[k].strategy = s /\ (k - 1) % 3 = p})
  IN  /\ PlanAccepted(plan)
      /\ ToSet(dev) = {Work("dev", c, s, 0) : c \in ToSet(e.dev), s \in Strategies}
      /\ \A s, t \in Strategies, p \in 0 .. 2 : Places(s, p) - Places(t, p) \in {-1, 0, 1}

ScheduleIsFair ==
  [][evaluating' # None /\ CohortsAccepted(evaluating'.dev, evaluating'.stability)
       => FairOn(evaluating')]_evaluating

\* The calls and the price a campaign is started with cover the worst run of
\* every item and of the calibration, and the sum of what the campaign itself
\* reserves for its items is the same profile (design.md:288).
CoversOn(c) ==
  LET recovery == c.recovery
      schedule == c.plan.schedule
      Sum(F(_)) == MapThenSumSet(LAMBDA k : F(schedule[k].strategy), 1 .. Len(schedule))
      Cases(n) == Cardinality(Claims) * CaseCalls[n]
      Worst(n) == Cases(n) + Sum(LAMBDA s : WorstCalls(s, recovery)[n])
  IN  /\ \A n \in Nodes :
           /\ Worst(n) <= Profile(recovery)[n]
           /\ Cases(n) + Sum(LAMBDA s : BatchCalls(s, recovery)[n]) = Profile(recovery)[n]
      /\ MapThenSumSet(Worst, Nodes) <= c.bounds.calls
      /\ MapThenSumSet(LAMBDA n : Worst(n) * Price[n], Nodes) <= c.bounds.cost
      /\ c.bounds.cost <= c.bounds.startup


=============================================================================
