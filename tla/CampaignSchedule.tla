--------------------------- MODULE CampaignSchedule ---------------------------
(***************************************************************************)
(* The frozen schedule of a campaign and its price: build_campaign_plan    *)
(* and build_dev_schedule, the validator of CampaignPlan, the worst-case   *)
(* call profile and the bounds computed from it (production.py, runner.py, *)
(* activity.py).                                                           *)
(*                                                                         *)
(* A run id is a hash of phase, claim, strategy and repeat, which is       *)
(* represented by these four.                                              *)
(***************************************************************************)
EXTENDS Integers, FiniteSets, Sequences, SequencesExt

CONSTANTS
  DevSize,       \* claims of the dev manifest (80)
  StabilitySize, \* claims of the stability manifest (20)
  Repeats        \* extra repeats of a stability claim: <<1, 2>>

ASSUME ScheduleAssumption ==
  /\ DevSize \in Nat /\ StabilitySize \in Nat
  /\ Repeats \in Seq(Nat \ {0}) /\ IsInjective(Repeats)

Strategies == {"always_single", "always_multi", "adaptive"}

Work(phase, claim, strategy, repeat) ==
  [phase |-> phase, claim |-> claim, strategy |-> strategy, repeat |-> repeat]

\* validate_gate_a_cohorts
CohortsAccepted(dev, stability) ==
  /\ Len(dev) = DevSize /\ IsInjective(dev)
  /\ Len(stability) = StabilitySize /\ IsInjective(stability)
  /\ ToSet(stability) \subseteq ToSet(dev)

(***************************************************************************)
(* The schedule.  "base" is the order of the strategies the seed gives.    *)
(***************************************************************************)
\* Slip: every claim meets the strategies in the same order.
DevScheduleUnrotated(dev, base) ==
  [k \in 1 .. 3 * Len(dev) |->
     Work("dev", dev[((k - 1) \div 3) + 1], base[((k - 1) % 3) + 1], 0)]

\* build_dev_schedule: claim i meets them rotated by i modulo 3.
DevSchedule(dev, base) ==
  [k \in 1 .. 3 * Len(dev) |->
     LET i == (k - 1) \div 3 IN
     Work("dev", dev[i + 1], base[((i + k - 1) % 3) + 1], 0)]

StabilitySchedule(stability) ==
  [k \in 1 .. Len(Repeats) * Len(stability) |->
     Work("stability", stability[((k - 1) \div Len(Repeats)) + 1], "adaptive",
          Repeats[((k - 1) % Len(Repeats)) + 1])]

\* build_campaign_plan: each stability claim is linked to its dev adaptive run.
Plan(dev, stability, base) ==
  [schedule |-> DevSchedule(dev, base) \o StabilitySchedule(stability),
   links    |-> [k \in 1 .. Len(stability) |->
                   [claim |-> stability[k],
                    run   |-> Work("dev", stability[k], "adaptive", 0)]]]

InPhase(plan, phase) == SelectSeq(plan.schedule, LAMBDA w : w.phase = phase)

\* The claims of the stability phase, repeats next to each other taken as one.
RepeatedClaims(plan) ==
  LET repeats == InPhase(plan, "stability")
      firsts  == SelectSeq([k \in 1 .. Len(repeats) |-> k],
                           LAMBDA k : k = 1 \/ repeats[k].claim # repeats[k - 1].claim)
  IN  [k \in 1 .. Len(firsts) |-> repeats[firsts[k]].claim]

\* CampaignPlan.validate_schedule
PlanAccepted(plan) ==
  LET schedule == plan.schedule IN
  /\ IsInjective(schedule)
  /\ \A k \in 1 .. Len(schedule) - 1 :
       schedule[k].phase = "stability" => schedule[k + 1].phase = "stability"
  /\ \A w \in ToSet(InPhase(plan, "stability")) :
       w.strategy = "adaptive" /\ w.repeat \in ToSet(Repeats)
  /\ IsInjective([k \in 1 .. Len(plan.links) |-> plan.links[k].claim])
  /\ \A link \in ToSet(plan.links) :
       /\ link.run \in ToSet(schedule)
       /\ link.run = Work("dev", link.claim, "adaptive", 0)
       /\ \A n \in ToSet(Repeats) :
            Work("stability", link.claim, "adaptive", n) \in ToSet(schedule)
  /\ RepeatedClaims(plan) = [k \in 1 .. Len(plan.links) |-> plan.links[k].claim]

(***************************************************************************)
(* The worst-case calls and their price.                                   *)
(***************************************************************************)
Nodes == {"router", "single", "decomposer", "worker", "judge"}


\* compute_gate_a_call_profile; recovery is 1 when multi_single_recovery is on.
CallProfile(cases, dev, stability, repeats, recovery) ==
  LET extra == stability * repeats IN
  [router     |-> cases + dev + extra,
   single     |-> cases + (2 + recovery) * dev + (1 + recovery) * extra,
   decomposer |-> cases + 2 * dev + extra,
   worker     |-> 3 * cases + 6 * dev + 3 * extra,
   judge      |-> cases + 2 * dev + extra]

Total(profile) ==
  profile.router + profile.single + profile.decomposer + profile.worker + profile.judge

\* estimate_call_bounds; prices are micro-CNY of a call of each node at its
\* token limits, reserve is in basis points.
CallBounds(profile, price, reserve) ==
  LET cost == profile.router * price.router + profile.single * price.single
              + profile.decomposer * price.decomposer + profile.worker * price.worker
              + profile.judge * price.judge
  IN  [calls |-> Total(profile), repairCalls |-> 2 * Total(profile),
       faultCalls |-> 6 * Total(profile),
       cost |-> cost, repairCost |-> 2 * cost, faultCost |-> 6 * cost,
       startup |-> (cost * (10000 + reserve) + 9999) \div 10000]

\* CallBounds.validate_monotonic_bounds
BoundsAccepted(bounds) ==
  /\ bounds.calls <= bounds.repairCalls /\ bounds.repairCalls <= bounds.faultCalls
  /\ bounds.cost <= bounds.repairCost /\ bounds.repairCost <= bounds.faultCost

\* estimate_campaign_batch_startup: what the campaign reserves for one item.
BatchCalls(strategy, recovery) ==
  LET multi == IF strategy = "always_single" THEN 0 ELSE 1
  IN  [router     |-> IF strategy = "adaptive" THEN 1 ELSE 0,
       single     |-> CASE strategy = "always_single" -> 1
                        [] strategy = "always_multi"  -> 0
                        [] strategy = "adaptive"      -> 1 + recovery,
       decomposer |-> multi, worker |-> 3 * multi, judge |-> multi]

\* The most calls one run of the graph makes without repairs: three workers at
\* most, and after a rejected judgement the single call of the recovery, which
\* in an adaptive run takes the slot a routed single call has used.
WorstCalls(strategy, recovery) ==
  [BatchCalls(strategy, 0) EXCEPT
     !.single = IF strategy = "always_multi" THEN recovery ELSE 1]

\* A calibration case: a forced router call, one single and one multi run.
CaseCalls == [router |-> 1, single |-> 1, decomposer |-> 1, worker |-> 3, judge |-> 1]

=============================================================================
