-------------------------- MODULE EvaluationService --------------------------
(***************************************************************************)
(* ProductionCampaignService.evaluate (evaluation/production_evaluation.py)*)
(* around one invocation of the campaign runner, and the record it keeps:  *)
(* activity.json with its SHA-256 sidecar (evaluation/lifecycle.py).       *)
(*                                                                         *)
(* The record names the journal it was derived from by its hash.  It is    *)
(* written when the first item of an invocation is about to be executed,   *)
(* and in a finally clause when the runner comes back; in between only the *)
(* journal moves on.  Calibration is complete and closed; an experiment    *)
(* over a parent activity differs only in where calibration is read.       *)
(***************************************************************************)
EXTENDS CampaignRunner

VARIABLES
  record,   \* activity.json: statuses of its phases and its own, stop reason,
            \* billing flag, and the journal that campaign_state_sha256 names
  sidecar,  \* activity.json.sha256 is the digest of the record
  service   \* the service process

serviceVars == <<record, sidecar, service>>
evaluationVars == <<vars, serviceVars>>

Phases == {"dev", "stability"}

PhaseOf(i) == IF i \in Stability THEN "stability" ELSE "dev"

\* CampaignPlan.validate_schedule: the links of the stability phase name dev
\* items, and the stability items come last.
ASSUME PhasesAssumption ==
  /\ Items \ Stability # {}
  /\ \A i \in Items \ Stability, k \in Stability : i < k

Idle == [pc |-> "down", recovering |-> FALSE, built |-> FALSE]

ServiceTypeOK ==
  /\ TypeOK
  /\ DOMAIN record = {"phases", "status", "reason", "billing", "journal"}
  /\ record.phases \in [Phases -> CampaignStatus]
  /\ record.status \in CampaignStatus
  /\ record.reason \in StopReason \cup {"none"}
  /\ record.billing \in BOOLEAN
  /\ record.journal \in Journal \cup {None}
  /\ sidecar \in BOOLEAN
  /\ service \in [pc : {"down", "serving", "sidecar"}, recovering : BOOLEAN, built : BOOLEAN]
  /\ service.pc = "down" => At("down")

(***************************************************************************)
(* Deriving the record from the journal and the ledger.                    *)
(***************************************************************************)
PhaseStatus(j, phase) ==
  LET items == {i \in Items : PhaseOf(i) = phase}
      reasons == {j.items[i].reason : i \in items}
      statuses == {j.items[i].status : i \in items}
  IN  IF HighestStopReason(reasons) # "none" THEN StopStatus[HighestStopReason(reasons)]
      ELSE IF items = {} THEN "planned"
      ELSE IF statuses \subseteq Scored THEN "complete"
      ELSE IF "interrupted" \in statuses THEN "interrupted"
      ELSE IF "running" \in statuses THEN "running"
      ELSE IF "not_run_budget" \in statuses THEN "incomplete_budget"
      ELSE IF "cancelled" \in statuses THEN "cancelled"
      ELSE "planned"

Derived(phases, reason, billing) ==
  [phases  |-> phases, reason |-> reason, billing |-> billing, journal |-> journal,
   status  |-> DeriveActivityStatus({"complete", phases.dev, phases.stability}, reason, billing)]

AllRowsCompleted == \A i \in Items : RowsIn(i, CallState) = RowsIn(i, {"completed"})

\* The model validator of ActivityRecord.
Valid(r) ==
  /\ r.billing <=> r.reason = "billing_uncertain"
  /\ r.reason # "none" => r.status = StopStatus[r.reason]
  /\ r.status = "complete" =>
       /\ r.phases = [p \in Phases |-> "complete"]
       /\ r.journal # None
       /\ AllRowsCompleted

\* Slip: the billing flag is the journal's, whatever the ledger says.
UnknownBillingOfJournal == journal.billing

\* The journal's flag, or an open call of any run in the ledger.
UnknownBilling == journal.billing \/ \E i \in Items : RowsIn(i, Unknown) # {}

\* Slip: the pause is not attributed to a phase.
UnpausedPhases(j) == [dev |-> PhaseStatus(j, "dev"), stability |-> PhaseStatus(j, "stability")]

PendingItems(j) == {i \in Items : j.items[i].status = "pending"}

UpdatedPhase(j, phase) ==
  IF /\ j.reason = "user_paused" /\ PendingItems(j) # {}
     /\ phase = PhaseOf(Min(PendingItems(j)))
    THEN "paused" ELSE PhaseStatus(j, phase)

\* A pause is attributed to the phase of the next pending item.
UpdatedPhases(j) ==
  [dev |-> UpdatedPhase(j, "dev"), stability |-> UpdatedPhase(j, "stability")]

\* Slip: the stop reason does not follow the billing flag.
UpdatedRecordKeepsReason == Derived(UpdatedPhases(journal), journal.reason, UnknownBilling)

\* _update_activity, after sealing a record that was never sealed.
UpdatedRecord ==
  Derived(UpdatedPhases(journal),
          IF UnknownBilling THEN "billing_uncertain" ELSE journal.reason,
          UnknownBilling)

(***************************************************************************)
(* build_executor: the hook of the first item an invocation executes.      *)
(***************************************************************************)
ResumedReasons == {"process_interruption", "user_paused"}

\* The phase whose stop this invocation lifts.
LiftedPhases ==
  IF record.reason \in ResumedReasons
    THEN {p \in Phases : record.phases[p] \in {"interrupted", "paused"}}
  ELSE IF service.recovering /\ record.reason \in Recoverable
    THEN {p \in Phases :
            /\ record.phases[p] \in {StopStatus[r] : r \in Recoverable}
            /\ p = "stability" =>
                 record.phases["dev"] \notin {StopStatus[r] : r \in Recoverable}}
  ELSE {}

Lifts == record.reason \in ResumedReasons \/ (service.recovering /\ record.reason \in Recoverable)

BuiltPhase(phase) ==
  IF phase \in LiftedPhases \cup {PhaseOf(runner.item)} THEN "running" ELSE PhaseStatus(journal, phase)

BuiltPhases == [dev |-> BuiltPhase("dev"), stability |-> BuiltPhase("stability")]

\* Slip: the stop reason of the record outlives the resume.
BuiltRecordStillStopped ==
  Derived(BuiltPhases, record.reason, record.billing)

BuiltRecord ==
  Derived(BuiltPhases,
          IF Lifts THEN "none" ELSE record.reason,
          IF Lifts THEN FALSE ELSE record.billing)

\* resume_activity_phase and resume_activity_after_billing_recovery want one
\* phase, stopped for the reason on record.
BuildAccepted ==
  /\ Lifts => \E p \in Phases :
                LiftedPhases = {p} /\ record.phases[p] = StopStatus[record.reason]
  /\ Valid(BuiltRecord)

WriteRecord(r) ==
  /\ record' = r /\ sidecar' = FALSE
  /\ service' = [service EXCEPT !.pc = "sidecar", !.built = At("exec")]

BuildExecutor ==
  /\ service.pc = "serving" /\ At("exec") /\ ~service.built
  /\ \/ /\ BuildAccepted
        /\ WriteRecord(BuiltRecord)
        /\ UNCHANGED <<runner, flight>>
     \/ /\ ~BuildAccepted
        /\ StopWith("internal_error")
        /\ UNCHANGED serviceVars
  /\ UNCHANGED <<storeVars, diskVars, starts>>

\* persist_activity replaces the record, then its sidecar.
PersistSidecar ==
  /\ service.pc = "sidecar"
  /\ sidecar' = TRUE
  /\ service' = IF At("exec") THEN [service EXCEPT !.pc = "serving"] ELSE Idle
  /\ UNCHANGED <<vars, record>>

(***************************************************************************)
(* evaluate: the checks before the runner is invoked.                      *)
(***************************************************************************)

\* mode start_after_calibration
StartAccepted == sidecar /\ record.reason = "none"

RecoveryItems ==
  {i \in Items : journal.items[i].reason \in Recoverable \/ Status(i) = "running"}

\* Every unresolved call of the items to recover is authorized, and there is
\* something to recover.
RecoveryAuthorized ==
  /\ \A i \in RecoveryItems : (Status(i) = "running" /\ UnresolvedOf(i) = {}) \/ Authorized(i)
  /\ \E i \in RecoveryItems : UnresolvedOf(i) # {} \/ journal.items[i].reason = "internal_error"

Recovering == record.reason \in Recoverable

\* mode resume
ResumeEntryAccepted ==
  /\ sidecar /\ plan /\ journal # None
  /\ record.reason \in {"none"} \cup ResumedReasons \cup Recoverable
  /\ Recovering => RecoveryAuthorized
  /\ record.journal = journal

Serve(recovering) ==
  /\ service.pc = "down"
  /\ service' = [pc |-> "serving", recovering |-> recovering, built |-> FALSE]
  /\ UNCHANGED <<record, sidecar>>

\* The runner raises before it changes anything.
RunnerRefuses ==
  /\ starts < MaxStarts /\ starts' = starts + 1
  /\ UNCHANGED <<storeVars, diskVars, runner, flight>>

StartService ==
  /\ StartAccepted /\ Serve(FALSE)
  /\ \E batch \in Batches :
       \/ Run(batch)
       \/ /\ plan \/ ~StartupFits(NewJournal.items, batch)
          /\ RunnerRefuses

\* resume of the runner, which a recovery falls back to when the journal is not
\* stopped for a recoverable reason.
RunnerResumes(batch) ==
  \/ ResumeStopped \/ ResumeRunning(batch) \/ ResumeInterrupted(batch)
  \/ ResumePaused(batch) \/ ResumeIdle(batch)

ResumeService ==
  /\ ResumeEntryAccepted /\ Serve(Recovering)
  /\ \E batch \in Batches :
       IF Recovering /\ PersistedReason \in Recoverable
         THEN \/ Recover(batch)
              \/ /\ ~ArtifactsVerified(UNION {UnresolvedOf(i) : i \in RecoveryItems})
                 /\ RunnerRefuses
         ELSE \/ RunnerResumes(batch)
              \/ ~ResumeAccepted /\ RunnerRefuses

(***************************************************************************)
(* The runner at work, its end, and the end of the process.                *)
(***************************************************************************)
RunnerWorks ==
  /\ service.pc = "serving"
  /\ Loop \/ (service.built /\ Executor)
  /\ UNCHANGED serviceVars

\* A signal the runner catches, or one that cancels the await (Ctrl-C under
\* asyncio.run): both leave by the finally clause of evaluate.
Interrupted ==
  /\ service.pc = "serving" /\ service.built
  /\ ExecInterrupted
  /\ UNCHANGED serviceVars

Cancelled ==
  /\ service.pc = "serving" /\ service.built /\ At("exec")
  /\ runner' = Down /\ flight' = {}
  /\ UNCHANGED <<storeVars, diskVars, starts, serviceVars>>

\* The finally clause, of which the update raises when the record is not valid.
Finally ==
  /\ service.pc = "serving" /\ At("down")
  /\ IF plan /\ journal # None /\ Valid(UpdatedRecord)
       THEN WriteRecord(UpdatedRecord)
       ELSE service' = Idle /\ UNCHANGED <<record, sidecar>>
  /\ UNCHANGED vars

Dies ==
  /\ service.pc # "down"
  /\ runner' = Down /\ flight' = {} /\ service' = Idle
  /\ UNCHANGED <<storeVars, diskVars, starts, record, sidecar>>

OperatorActs ==
  /\ service.pc = "down"
  /\ \E c \in CallIds : OperatorAuthorizes(c)
  /\ UNCHANGED serviceVars

-----------------------------------------------------------------------------
\* build_initial_activity, and calibration collected.
InitialRecord ==
  [phases |-> [p \in Phases |-> "planned"], status |-> "planned", reason |-> "none",
   billing |-> FALSE, journal |-> None]

ServiceInit ==
  /\ Init
  /\ record = InitialRecord /\ sidecar = TRUE /\ service = Idle

Works == RunnerWorks \/ BuildExecutor \/ PersistSidecar \/ Finally

ServiceNext ==
  \/ StartService \/ ResumeService
  \/ Works
  \/ Interrupted \/ Cancelled \/ Dies \/ OperatorActs

ServiceSpec == ServiceInit /\ [][ServiceNext]_evaluationVars

(***************************************************************************)
(* Properties.                                                             *)
(***************************************************************************)

\* The record derived in the finally clause always passes its own validator:
\* no order of stops leaves phases and stop reason in contradiction, which
\* would keep the record from being written at all.
UpdateIsAccepted ==
  (service.pc = "serving" /\ At("down") /\ plan /\ journal # None) => Valid(UpdatedRecord)

\* A dead process left an item RUNNING with an open call, and the record was
\* brought up to date afterwards: no phase of it is stopped.
BillingStopWithoutPhase ==
  record.reason = "billing_uncertain" /\ \E p \in Phases : record.phases[p] = "running"

\* The hook of the first item fails only for such a record: otherwise the stop
\* it lifts names one phase.  Where it fails, a legal resume ends as an internal
\* error of an item that was never executed.
ExecutorIsBuilt ==
  (/\ service.pc = "serving" /\ At("exec") /\ ~service.built
   /\ ~BillingStopWithoutPhase) => BuildAccepted

\* No call is paid for while the record says the activity is stopped or closed,
\* or while its sidecar lags behind.
NoPaidCallUnderAStop ==
  [][\A c \in CallIds :
       handed'[c] # handed[c] =>
         sidecar /\ record.reason = "none" /\ record.status = "running"]_evaluationVars

\* Between invocations a record that is up to date does not hide an open call:
\* it says that billing is uncertain, or that a phase is still running.
OpenCallsAreShown ==
  (/\ service.pc = "down" /\ journal # None /\ record.journal = journal
   /\ \E i \in Items : RowsIn(i, Unknown) # {}) =>
     record.billing \/ \E p \in Phases : record.phases[p] = "running"

\* An activity is published as complete only over the items of the journal as
\* they are, every item scored, every call of the ledger completed and priced.
PublishedIsComplete ==
  record.status = "complete" =>
    /\ record.journal.items = journal.items
    /\ \A i \in Items : Status(i) \in Scored
    /\ AllRowsCompleted

\* The stability phase is under way only after the dev phase is complete.
PhasesInOrder ==
  record.phases["stability"] \in {"running", "paused", "interrupted", "complete"} =>
    record.phases["dev"] = "complete"

\* evidence-route-design.md:320: an item a process left RUNNING is converted at
\* the resume entry, and then its calls are checked.  Said here of the mildest
\* such end, a cancelled invocation that still ran its finally clause.
CancelledCampaignIsResumable ==
  [][(PersistSidecar /\ service'.pc = "down" /\ With({"running"}) # {}) =>
       ResumeEntryAccepted']_evaluationVars

=============================================================================
