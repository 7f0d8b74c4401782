------------------------ MODULE CalibrationCollector ------------------------
(***************************************************************************)
(* ProductionCalibrationCollector.collect (production_calibration.py) and  *)
(* the files it keeps (calibration.py, lifecycle.py): the frozen plan, the *)
(* journal calibration-state.json, one self-hashed file per closed case,   *)
(* the replay view, and activity.json with its SHA-256 sidecar, next to    *)
(* the call ledger of RunStore.                                            *)
(*                                                                         *)
(* A case makes three runs one after the other: the forced router call,    *)
(* then the single and the multi graph.  Each file write is one step, and  *)
(* the process can die before any of them (Ctrl-C is the same: it cancels  *)
(* the await, and CancelledError passes "except Exception"), or the write  *)
(* can raise, which the loop treats like any other exception.  The journal *)
(* in memory differs from the file only in the entry of the case in hand,  *)
(* which the next write sets; the activity record is kept apart, since the *)
(* loop goes on with it when its write raises.                             *)
(*                                                                         *)
(* A response is represented by the raw model id it carries.  Freeze       *)
(* inputs (hashes of manifest, prompts, prices, configuration) do not      *)
(* change between the invocations.                                         *)
(***************************************************************************)
EXTENDS RunStore, StopReasons

CONSTANTS
  N,          \* cases, in plan order (32 in the code)
  Tasks,      \* calls a case can make
  RunOf,      \* the run of its case a call belongs to
  Batches,    \* values of --max-cases; 0 is no limit
  MaxStarts   \* bound: process starts

Cases == 1 .. N
Runs == <<"router", "single", "multi">>

ASSUME CollectorAssumption ==
  /\ N \in Nat \ {0} /\ MaxStarts \in Nat /\ Batches \subseteq Nat
  /\ RunOf \in [Tasks -> {"router", "single", "multi"}]
  /\ CallIds = Cases \X Tasks /\ Slots = CallIds
  /\ Requests # {}

VARIABLES
  plan,       \* calibration-plan.json exists
  journal,    \* calibration-state.json: status and artifact of every case, or None
  cases,      \* calibration/cases/<case_id>.json, or None
  view,       \* calibration/runtime-cases.jsonl, or None
  record,     \* activity.json, or None
  sidecar,    \* activity.json.sha256 is the digest of the record
  collector,  \* the collecting process
  flight,     \* calls its executor awaits
  starts      \* process starts so far

fileVars == <<plan, journal, cases, view, record, sidecar>>
collectorVars == <<storeVars, fileVars, collector, flight, starts>>

(***************************************************************************)
(* What the files hold.                                                    *)
(***************************************************************************)
CaseStatus == {"pending", "running", "interrupted", "complete", "stopped"}

\* What a case file says of a call: whether it was made, for which request, at
\* what price, by which model.
SavedCall == [state : CallState \cup {"absent"}, request : Requests \cup {None},
              actual : Nat, payload : Payloads \cup {None}]

\* summarize_run of the three runs of a case.
Accounting(i) ==
  [t \in Tasks |-> LET row == calls[<<i, t>>] IN
     [state |-> row.state, request |-> row.request, actual |-> row.actual, payload |-> row.payload]]

Case == [Tasks -> SavedCall]

\* Only a complete case carries its artifact's hash.
CaseState == [status : CaseStatus, artifact : Case \cup {None}]

Activity ==
  [calibration : CampaignStatus,
   reason      : StopReason \cup {"none"},
   billing     : BOOLEAN,
   links       : [Cases -> Case \cup {None}],
   models      : SUBSET Payloads,
   journal     : [Cases -> CaseState]]     \* what calibration_state_sha256 names

Down == [pc |-> "down", next |-> "down", case |-> 0, run |-> 0, left |-> 0, call |-> None,
         reason |-> "none", activity |-> None]

Collector ==
  [pc : {"down", "newJournal", "newRecord", "sidecar", "audit", "relink", "models", "loop",
         "open", "exec", "hand", "build", "close", "link", "pause", "fail", "failRecord",
         "finish"},
   next : {"down", "models", "loop", "exec", "pause"},
   case : Cases \cup {0}, run : 0 .. Len(Runs), left : Nat, call : CallIds \cup {None},
   reason : StopReason \cup {"none"}, activity : Activity \cup {None}]

\* A file that does not exist is none that does.
ASSUME FilesAssumption ==
  /\ None \notin Case /\ None \notin [Cases -> Case]
  /\ None \notin [Cases -> CaseState] /\ None \notin Activity

CollectorTypeOK ==
  /\ StoreTypeOK
  /\ plan \in BOOLEAN /\ sidecar \in BOOLEAN
  /\ journal \in [Cases -> CaseState] \cup {None}
  /\ cases \in [Cases -> Case \cup {None}]
  /\ view \in [Cases -> Case] \cup {None}
  /\ record \in Activity \cup {None}
  /\ collector \in Collector
  /\ flight \subseteq CallIds
  /\ starts \in 0 .. MaxStarts

At(pc) == collector.pc = pc
Goto(pc) == collector' = [collector EXCEPT !.pc = pc]
Status(i) == journal[i].status
Entry(status) == [status |-> status, artifact |-> None]
Open == {i \in Cases : Status(i) # "complete"}

RowsIn(i, states) == {t \in Tasks : calls[<<i, t>>].state \in states}
RowsOf(i) == {<<i, t>> : t \in Tasks}

\* response_model_ids_raw of a set of calls.
ModelIds(ids) == {calls[c].payload : c \in ids} \ {None}

\* persist_activity: the record is replaced, and in the next step its sidecar.
Persist(activity, next) ==
  /\ record' = activity /\ sidecar' = FALSE
  /\ collector' = [collector EXCEPT !.pc = "sidecar", !.next = next, !.activity = activity]

PersistSidecar ==
  /\ At("sidecar")
  /\ sidecar' = TRUE
  /\ collector' = IF collector.next = "down" THEN Down
                  ELSE [collector EXCEPT !.pc = collector.next]
  /\ UNCHANGED <<storeVars, plan, journal, cases, view, record, flight, starts>>

(***************************************************************************)
(* A fresh collection freezes plan, journal and record before any call.    *)
(***************************************************************************)
NewJournal == [i \in Cases |-> Entry("pending")]

InitialActivity ==
  [calibration |-> "planned", reason |-> "none", billing |-> FALSE,
   links |-> [i \in Cases |-> None], models |-> {}, journal |-> journal]

CollectFresh(batch) ==
  /\ At("down") /\ starts < MaxStarts
  /\ ~plan /\ journal = None /\ record = None
  /\ plan' = TRUE
  /\ collector' = [Down EXCEPT !.pc = "newJournal", !.left = batch]
  /\ starts' = starts + 1
  /\ UNCHANGED <<storeVars, journal, cases, view, record, sidecar, flight>>

CreateJournal ==
  /\ At("newJournal")
  /\ journal' = NewJournal /\ Goto("newRecord")
  /\ UNCHANGED <<storeVars, plan, cases, view, record, sidecar, flight, starts>>

CreateRecord ==
  /\ At("newRecord")
  /\ Persist(InitialActivity, "models")
  /\ UNCHANGED <<storeVars, plan, journal, cases, view, flight, starts>>

(***************************************************************************)
(* A resumed collection reconciles the journal with the case files, audits *)
(* the ledger, and brings the record up to date.                           *)
(***************************************************************************)
\* Slip: the journal wins over the case files.
ReconciledByJournal(j) ==
  [i \in Cases |-> IF j[i].status = "running" THEN Entry("interrupted") ELSE j[i]]

\* reconcile_calibration_state
Reconciled(j) ==
  [i \in Cases |->
     IF cases[i] # None THEN [status |-> "complete", artifact |-> cases[i]]
     ELSE IF j[i].status = "running" THEN Entry("interrupted")
     ELSE j[i]]

ReconcileAccepted(j) ==
  /\ Cardinality({i \in Cases : j[i].status = "running"}) <= 1
  /\ \A i \in Cases :
       /\ cases[i] # None => j[i].artifact \in {None, cases[i]}
       /\ cases[i] = None => j[i].status # "complete"

\* _require_resume_files, load_activity, _validate_activity_identity
ResumeEntryAccepted ==
  /\ plan /\ journal # None /\ record # None /\ sidecar
  /\ ReconcileAccepted(journal)

CollectResume(batch) ==
  /\ At("down") /\ starts < MaxStarts
  /\ ResumeEntryAccepted
  /\ journal' = Reconciled(journal)
  /\ collector' = [Down EXCEPT !.pc = "audit", !.left = batch, !.activity = record]
  /\ starts' = starts + 1
  /\ UNCHANGED <<storeVars, plan, cases, view, record, sidecar, flight>>

\* _verify_resume_ledger: closed cases account for their calls as the ledger
\* does, and no call of an open case may have been paid for unnoticed.
LedgerAccepted(j) ==
  \A i \in Cases :
    IF j[i].status = "complete"
      THEN /\ cases[i] = Accounting(i)
           /\ RowsIn(i, CallState) = RowsIn(i, {"completed"})
      ELSE RowsIn(i, Unknown) = {}

StoppedCases(j) == {i \in Cases : j[i].status = "stopped"}

\* _requeue_authorized_calibration_recovery
RequeueAccepted(j) ==
  /\ StoppedCases(j) # {}
  /\ \A i \in StoppedCases(j) :
       LET unresolved == Unresolved(RowsOf(i)) IN
       /\ unresolved # {}
       /\ \A c \in unresolved : calls[c].state = "reserved" /\ events[c] # None

Requeued(j) == [i \in Cases |-> IF j[i].status = "stopped" THEN Entry("pending") ELSE j[i]]

\* resume_activity_after_billing_recovery, resume_activity_phase
Running(activity) ==
  [activity EXCEPT !.calibration = "running", !.reason = "none", !.billing = FALSE]

AuditLedger ==
  /\ At("audit")
  /\ LET billing == collector.activity.reason = "billing_uncertain" IN
     \/ /\ LedgerAccepted(journal) /\ billing /\ RequeueAccepted(journal)
        /\ journal' = Requeued(journal)
        /\ collector' = [collector EXCEPT !.pc = "relink", !.activity = Running(@)]
     \/ /\ LedgerAccepted(journal) /\ ~billing
        /\ Goto("relink") /\ UNCHANGED journal
     \/ /\ ~LedgerAccepted(journal) \/ (billing /\ ~RequeueAccepted(journal))
        /\ collector' = Down /\ UNCHANGED journal
  /\ UNCHANGED <<storeVars, plan, cases, view, record, sidecar, flight, starts>>

\* link_calibration_artifact: links close in plan order and are never replaced.
LinkAccepted(links, i, artifact) ==
  /\ \A k \in 1 .. i - 1 : links[k] # None
  /\ links[i] \in {None, artifact}

\* _link_reconciled_cases, over the journal the resume reconciled.
Relinked(activity) ==
  [activity EXCEPT !.links = [i \in Cases |-> IF Status(i) = "complete" THEN journal[i].artifact
                                              ELSE @[i]],
                   !.journal = journal]

RelinkAccepted(links, j) ==
  \A i \in Cases : j[i].status = "complete" =>
    /\ \A k \in 1 .. i - 1 : links[k] # None \/ j[k].status = "complete"
    /\ links[i] \in {None, j[i].artifact}

RelinkCases ==
  /\ At("relink")
  /\ LET activity == Relinked(collector.activity) IN
     IF RelinkAccepted(collector.activity.links, journal)
       THEN Persist(IF activity.reason \in {"process_interruption", "user_paused"}
                      THEN Running(activity) ELSE activity, "models")
       ELSE collector' = Down /\ UNCHANGED <<record, sidecar>>
  /\ UNCHANGED <<storeVars, plan, journal, cases, view, flight, starts>>

\* The models of the ledger and of the record must be one; then the record
\* names it.
CheckModels ==
  /\ At("models")
  /\ LET activity == collector.activity
         models == activity.models \cup ModelIds(CallIds)
     IN  IF Cardinality(models) > 1
           THEN collector' = Down /\ UNCHANGED <<record, sidecar>>
         ELSE IF models # activity.models
           THEN Persist([activity EXCEPT !.models = models], "loop")
         ELSE Goto("loop") /\ UNCHANGED <<record, sidecar>>
  /\ UNCHANGED <<storeVars, plan, journal, cases, view, flight, starts>>

(***************************************************************************)
(* The loop over the cases in plan order.                                  *)
(***************************************************************************)
\* An exception inside the try block; awaited calls are cancelled with it.
Fail(reason) ==
  /\ collector' = [collector EXCEPT !.pc = "fail", !.call = None, !.reason = reason]
  /\ flight' = {}

\* Slip: a stopped case is passed over.
BeginCaseSkipsStopped ==
  /\ At("loop") /\ Open # {}
  /\ IF Open = StoppedCases(journal)
       THEN collector' = Down /\ UNCHANGED journal
       ELSE LET i == Min(Open \ StoppedCases(journal)) IN
            /\ journal' = [journal EXCEPT ![i] = Entry("running")]
            /\ collector' = [collector EXCEPT !.pc = "open", !.case = i]
  /\ UNCHANGED <<storeVars, plan, cases, view, record, sidecar, flight, starts>>

\* begin_calibration_case; a stopped case ends the collection.
BeginCase ==
  /\ At("loop") /\ Open # {}
  /\ IF Status(Min(Open)) = "stopped"
       THEN collector' = Down /\ UNCHANGED journal
       ELSE /\ journal' = [journal EXCEPT ![Min(Open)] = Entry("running")]
            /\ collector' = [collector EXCEPT !.pc = "open", !.case = Min(Open)]
  /\ UNCHANGED <<storeVars, plan, cases, view, record, sidecar, flight, starts>>

FailedStatus == {"incomplete_budget", "incomplete_model_drift", "incomplete_usage",
                 "incomplete_cost_uncertain", "cancelled", "failed"}

\* Slip: the stop reason on record does not matter.
MayRunAnyway(activity) == activity.calibration # "complete"

\* transition_activity_phase to RUNNING
MayRun(activity) ==
  activity.reason = "none" /\ activity.calibration \notin FailedStatus \cup {"complete"}

Opened(activity) == [activity EXCEPT !.calibration = "running", !.journal = journal]

OpenPhase ==
  /\ At("open")
  /\ LET activity == Opened(collector.activity) IN
     IF MayRun(collector.activity)
       THEN /\ record' = activity /\ sidecar' = FALSE
            /\ collector' = [collector EXCEPT !.pc = "sidecar", !.next = "exec",
                                              !.activity = activity, !.run = 1]
            /\ UNCHANGED flight
       ELSE Fail("internal_error") /\ UNCHANGED <<record, sidecar>>
  /\ UNCHANGED <<storeVars, plan, journal, cases, view, starts>>

(***************************************************************************)
(* The three runs of a case, as far as the ledger sees them.               *)
(***************************************************************************)
RunTasks == {t \in Tasks : RunOf[t] = Runs[collector.run]}
TheRequest == CHOOSE r \in Requests : TRUE

CallReserve(t) ==
  /\ At("exec") /\ t \in RunTasks
  /\ LET c == <<collector.case, t>> IN
     /\ ResumeDecision(c, TheRequest) = "send"
     /\ \E amount \in Estimates :
          LET outcome == ReserveOutcome(c, TheRequest, c, amount) IN
          \/ /\ outcome = "inserted"
             /\ ReserveCall(c, TheRequest, c, amount)
             /\ collector' = [collector EXCEPT !.pc = "hand", !.call = c]
             /\ UNCHANGED flight
          \/ /\ outcome = "existing"
             /\ collector' = [collector EXCEPT !.pc = "hand", !.call = c]
             /\ UNCHANGED <<storeVars, flight>>
          \/ /\ outcome = "budget_exceeded"
             /\ Fail("budget")
             /\ UNCHANGED storeVars
  /\ UNCHANGED <<fileVars, starts>>

\* A call whose answer came without usage is not asked again, and stops.
CallReuseStops(t) ==
  /\ At("exec") /\ t \in RunTasks
  /\ ResumeDecision(<<collector.case, t>>, TheRequest) = "reuse_and_stop"
  /\ Fail("usage_missing")
  /\ UNCHANGED <<storeVars, fileVars, starts>>

CallHandOver ==
  /\ At("hand")
  /\ MarkSent(collector.call)
  /\ collector' = [collector EXCEPT !.pc = "exec", !.call = None]
  /\ flight' = flight \cup {collector.call}
  /\ UNCHANGED <<fileVars, starts>>

CallAnswer(c) ==
  /\ At("exec") /\ c \in flight
  /\ \E usage \in Usages, model \in Payloads :
       /\ CompleteCall(c, TheRequest, model, usage)
       /\ IF CompleteOutcome(c, TheRequest, usage) = "budget_exceeded" THEN Fail("budget")
          ELSE IF ~usage.complete THEN Fail("usage_missing")
          ELSE flight' = flight \ {c} /\ UNCHANGED collector
  /\ UNCHANGED <<fileVars, starts>>

CallTransportFails(c) ==
  /\ At("exec") /\ c \in flight
  /\ MarkBillingUncertain(c)
  /\ Fail("billing_uncertain")
  /\ UNCHANGED <<fileVars, starts>>

\* Any other exception of retrieval, router or graph.
RunFails ==
  /\ At("exec") /\ flight = {}
  /\ Fail("internal_error")
  /\ UNCHANGED <<storeVars, fileVars, starts>>

\* The router must have been answered; a graph may end early with a failed result.
RunEnds ==
  /\ At("exec") /\ flight = {}
  /\ collector.run = 1 =>
       \E t \in RunTasks : calls[<<collector.case, t>>].state = "completed"
  /\ collector' = IF collector.run < Len(Runs) THEN [collector EXCEPT !.run = @ + 1]
                  ELSE [collector EXCEPT !.pc = "build"]
  /\ UNCHANGED <<storeVars, fileVars, flight, starts>>

(***************************************************************************)
(* Closing a case: its file, its journal entry, its link in the record.    *)
(***************************************************************************)
\* Slip: a case is closed over calls that were never sent.
CaseRefusalIgnoresReserved(i) ==
  IF RowsIn(i, {"usage_missing"} \cup Unknown) # {} THEN "usage_missing" ELSE "none"

\* _require_complete_summary for each run, one model in all of them, and the
\* model of the cases before; or the reason for which the case stops.
CaseRefusal(i) ==
  LET models == ModelIds(RowsOf(i))
      known == collector.activity.models
  IN  IF \/ RowsIn(i, CallState) # RowsIn(i, {"completed"})
         \/ \E n \in 1 .. Len(Runs) : {t \in RowsIn(i, {"completed"}) : RunOf[t] = Runs[n]} = {}
        THEN "usage_missing"
      ELSE IF Cardinality(models) # 1 \/ (known # {} /\ models # known)
        THEN "model_drift"
      ELSE "none"

\* persist_calibration_case, first write.  An equal file is left alone.
WriteCase ==
  /\ At("build")
  /\ LET i == collector.case IN
     \/ /\ CaseRefusal(i) # "none"
        /\ Fail(CaseRefusal(i)) /\ UNCHANGED cases
     \/ /\ CaseRefusal(i) = "none"
        /\ cases[i] \in {None, Accounting(i)}
        /\ cases' = [cases EXCEPT ![i] = Accounting(i)]
        /\ Goto("close") /\ UNCHANGED flight
  /\ UNCHANGED <<storeVars, plan, journal, view, record, sidecar, starts>>

CloseCase ==
  /\ At("close")
  /\ journal' = [journal EXCEPT ![collector.case] =
                   [status |-> "complete", artifact |-> cases[collector.case]]]
  /\ Goto("link")
  /\ UNCHANGED <<storeVars, plan, cases, view, record, sidecar, flight, starts>>

\* Slip: the model of the case is not added to those on record.
LinkedWithoutModel(activity, i) ==
  [activity EXCEPT !.links[i] = cases[i], !.journal = journal]

Linked(activity, i) ==
  [activity EXCEPT !.links[i] = cases[i], !.journal = journal,
                   !.models = @ \cup ModelIds(RowsOf(i))]

\* link_calibration_artifact would raise out of plan order.
LinkCase ==
  /\ At("link")
  /\ LET linked == Linked(collector.activity, collector.case) IN
     IF LinkAccepted(collector.activity.links, collector.case, cases[collector.case])
       THEN /\ record' = linked /\ sidecar' = FALSE
            /\ collector' = [collector EXCEPT
                 !.pc = "sidecar", !.activity = linked,
                 !.next = IF collector.left = 1 /\ Open # {} THEN "pause" ELSE "loop",
                 !.left = IF @ > 0 THEN @ - 1 ELSE 0]
            /\ UNCHANGED flight
       ELSE Fail("internal_error") /\ UNCHANGED <<record, sidecar>>
  /\ UNCHANGED <<storeVars, plan, journal, cases, view, starts>>

Paused(activity) == [activity EXCEPT !.calibration = "paused", !.reason = "user_paused"]

PauseCollection ==
  /\ At("pause")
  /\ Persist(Paused(collector.activity), "down")
  /\ UNCHANGED <<storeVars, plan, journal, cases, view, flight, starts>>

\* The record the loop was about to write, which is what it has in memory.
Pending ==
  CASE At("open")  -> Opened(collector.activity)
    [] At("link")  -> Linked(collector.activity, collector.case)
    [] At("pause") -> Paused(collector.activity)
    [] OTHER       -> collector.activity

\* The write a step is about to make raises (a full or a locked disk).
WriteRaises ==
  /\ collector.pc \in {"open", "build", "close", "link", "pause"}
  /\ At("open") => MayRun(collector.activity)
  /\ collector' = [collector EXCEPT !.pc = "fail", !.reason = "internal_error",
                                    !.activity = Pending]
  /\ flight' = {}
  /\ UNCHANGED <<storeVars, fileVars, starts>>

(***************************************************************************)
(* _persist_failure: the case is stopped in the journal, then the phase in *)
(* the record, unless the record carries another stop already.             *)
(***************************************************************************)
StopCase ==
  /\ At("fail")
  /\ journal' = [journal EXCEPT ![collector.case] = Entry("stopped")]
  /\ Goto("failRecord")
  /\ UNCHANGED <<storeVars, plan, cases, view, record, sidecar, flight, starts>>

MayStop(activity, reason) ==
  /\ activity.calibration \in FailedStatus => activity.calibration = StopStatus[reason]
  /\ activity.reason \in {"none", reason}

StopRecord ==
  /\ At("failRecord")
  /\ LET activity == collector.activity
         reason == collector.reason
     IN  IF MayStop(activity, reason)
           THEN Persist([activity EXCEPT
                   !.calibration = StopStatus[reason], !.reason = reason,
                   !.billing = (reason = "billing_uncertain"),
                   !.models = @ \cup ModelIds(CallIds), !.journal = journal], "down")
           ELSE collector' = Down /\ UNCHANGED <<record, sidecar>>
  /\ UNCHANGED <<storeVars, plan, journal, cases, view, flight, starts>>

(***************************************************************************)
(* _finalize, once every case is complete.                                 *)
(***************************************************************************)
\* load_calibration_cases over the journal, then the replay view.
WriteView ==
  /\ At("loop") /\ Open = {}
  /\ \A i \in Cases : cases[i] # None /\ cases[i] = journal[i].artifact
  /\ view' = cases
  /\ Goto("finish")
  /\ UNCHANGED <<storeVars, plan, journal, cases, record, sidecar, flight, starts>>

\* mark_calibration_complete raises while a link is open.
Finalize ==
  /\ At("finish")
  /\ IF \A i \in Cases : collector.activity.links[i] # None
       THEN Persist([collector.activity EXCEPT !.calibration = "complete", !.journal = journal],
                    "down")
       ELSE collector' = Down /\ UNCHANGED <<record, sidecar>>
  /\ UNCHANGED <<storeVars, plan, journal, cases, view, flight, starts>>

Dies ==
  /\ ~At("down")
  /\ collector' = Down /\ flight' = {}
  /\ UNCHANGED <<storeVars, fileVars, starts>>

OperatorAuthorizes(c) ==
  /\ At("down")
  /\ \E audit \in Audits : AuthorizeBillingUncertainRetry(c, audit)
  /\ UNCHANGED <<fileVars, collector, flight, starts>>

-----------------------------------------------------------------------------
Init ==
  /\ StoreInit
  /\ plan = FALSE /\ journal = None /\ cases = [i \in Cases |-> None] /\ view = None
  /\ record = None /\ sidecar = FALSE
  /\ collector = Down /\ flight = {} /\ starts = 0

Collect ==
  \/ CreateJournal \/ CreateRecord \/ PersistSidecar
  \/ AuditLedger \/ RelinkCases \/ CheckModels
  \/ BeginCase \/ OpenPhase
  \/ \E t \in Tasks : CallReserve(t) \/ CallReuseStops(t)
  \/ CallHandOver
  \/ \E c \in CallIds : CallAnswer(c) \/ CallTransportFails(c)
  \/ RunFails \/ RunEnds
  \/ WriteCase \/ CloseCase \/ LinkCase \/ PauseCollection
  \/ StopCase \/ StopRecord
  \/ WriteView \/ Finalize

Next ==
  \/ \E batch \in Batches : CollectFresh(batch) \/ CollectResume(batch)
  \/ Collect
  \/ WriteRaises \/ Dies
  \/ \E c \in CallIds : OperatorAuthorizes(c)

Spec == Init /\ [][Next]_collectorVars

(***************************************************************************)
(* replay: what the offline replay checks of the collection before it uses *)
(* its cases.                                                              *)
(***************************************************************************)
ReplayAccepted ==
  /\ plan /\ journal # None /\ record # None /\ sidecar
  /\ record.calibration = "complete" /\ record.reason = "none" /\ ~record.billing
  /\ record.journal = journal
  /\ \A i \in Cases :
       /\ Status(i) = "complete"
       /\ cases[i] # None /\ journal[i].artifact = cases[i] /\ record.links[i] = cases[i]
       /\ cases[i] = Accounting(i)
       /\ RowsIn(i, CallState) = RowsIn(i, {"completed"})
  /\ record.models = UNION {ModelIds(RowsOf(i)) : i \in Cases}
  /\ Cardinality(record.models) = 1

(***************************************************************************)
(* Properties.                                                             *)
(***************************************************************************)

\* A case is collected and paid for once: when its file is on disk, neither the
\* file nor the rows of its calls change again, and it is not begun again, be
\* the journal or the record ever so far behind.
ClosedCasesAreFinal ==
  [][\A i \in Cases : cases[i] # None =>
       /\ cases'[i] = cases[i]
       /\ \A c \in RowsOf(i) : calls'[c] = calls[c]
       /\ journal'[i].status = "running" => Status(i) = "running"]_collectorVars

\* The record never vouches for a case that is not on disk as it says, and the
\* cases close in plan order, so that linking one is never refused: not in the
\* loop, and not when a resume catches up with what a dead process left.
LinksFollowCases ==
  /\ record # None =>
       \A i \in Cases : record.links[i] # None => cases[i] = record.links[i]
  /\ At("relink") => RelinkAccepted(collector.activity.links, journal)
  /\ At("link") =>
       LinkAccepted(collector.activity.links, collector.case, cases[collector.case])

\* No call is handed to the provider unless the activity on disk, sealed, says
\* that calibration is running and nothing has stopped it.
NoPaidCallWhileStopped ==
  [][\A c \in CallIds : handed'[c] # handed[c] =>
       sidecar /\ record.calibration = "running" /\ record.reason = "none"]_collectorVars

\* A collection closed without a stop passes every check of the replay.
ClosedIsReplayable ==
  (record # None /\ sidecar /\ record.calibration = "complete" /\ record.reason = "none") =>
    ReplayAccepted /\ view = cases

\* A collection that ended outside a record write, with no case stopped, no call
\* of unknown billing and no second model, is taken up by the next resume as
\* far as the loop.
EndedIsResumable ==
  (/\ At("down") /\ plan /\ journal # None /\ record # None /\ sidecar
   /\ StoppedCases(journal) = {} /\ ~record.billing
   /\ \A c \in CallIds : calls[c].state \notin Unknown
   /\ Cardinality(record.models \cup ModelIds(CallIds)) <= 1) =>
    /\ ReconcileAccepted(journal)
    /\ LedgerAccepted(Reconciled(journal))
    /\ RelinkAccepted(record.links, Reconciled(journal))

=============================================================================
