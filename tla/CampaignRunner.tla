--------------------------- MODULE CampaignRunner ---------------------------
(***************************************************************************)
(* The campaign runner, class CampaignRunner of evaluation/runner.py, with *)
(* the three things it leaves on disk: the plan, the journal campaign.json *)
(* and one artifact file per finished item, next to the call ledger of     *)
(* RunStore.                                                               *)
(*                                                                         *)
(* Every file write is one atomic step (atomic_write_json renames), and so *)
(* is every ledger transaction; the process can die between any two.  What *)
(* the runner holds in memory equals the journal whenever it awaits, so    *)
(* only the journal is state.                                              *)
(*                                                                         *)
(* The executor (the graph of one item) is modelled by what it may do to   *)
(* the ledger: hand over calls of its item in any order, several at a time,*)
(* and end with a result or an exception.  An exception cancels the calls  *)
(* still in flight, which leaves their rows 'sent'.                        *)
(***************************************************************************)
EXTENDS RunStore, StopReasons

CONSTANTS
  N,             \* work items, in schedule order
  Tasks,         \* calls an item can make
  Linked,        \* dev items whose artifact is a stability baseline
  Stability,     \* items of the stability phase
  Batches,       \* values of --max-items; 0 is no limit
  ItemEstimate,  \* startup estimate of one selected item
  MaxStarts      \* bound: process starts

Items == 1 .. N

ASSUME RunnerAssumption ==
  /\ N \in Nat
  /\ CallIds = Items \X Tasks /\ Slots = CallIds
  /\ Linked \subseteq Items /\ Stability \subseteq Items
  /\ \A i \in Linked, j \in Stability : i < j
  /\ Batches \subseteq Nat
  /\ Requests # {} /\ Payloads # {}
  /\ ItemEstimate \in Nat /\ MaxStarts \in Nat

VARIABLES
  plan,     \* plan.json exists
  journal,  \* campaign.json, or None
  files,    \* files[i]: artifacts/<run_id>.json, or None
  runner,   \* the runner process
  flight,   \* calls the executor awaits
  starts    \* process starts so far

diskVars == <<plan, journal, files>>
vars == <<storeVars, diskVars, runner, flight, starts>>

(***************************************************************************)
(* Artifacts and the accounting they carry.                                *)
(***************************************************************************)
RowsIn(i, states) == {t \in Tasks : calls[<<i, t>>].state \in states}

\* Slip: only flagged calls count as uncertain, not those still 'sent'.
AccountingForgetsSent(i) ==
  [completed |-> RowsIn(i, {"completed"}),
   unpriced  |-> RowsIn(i, {"usage_missing"}),
   open      |-> RowsIn(i, {"reserved"} \cup Unknown),
   uncertain |-> RowsIn(i, {"billing_uncertain"}) # {}]

\* summarize_run, as far as _verify_run_store_accounting compares it.
Accounting(i) ==
  [completed |-> RowsIn(i, {"completed"}),
   unpriced  |-> RowsIn(i, {"usage_missing"}),
   open      |-> RowsIn(i, {"reserved"} \cup Unknown),
   uncertain |-> RowsIn(i, Unknown) # {}]

Artifact ==
  [result     : Scored,
   diagnostic : BOOLEAN,
   accounting : [completed : SUBSET Tasks, unpriced : SUBSET Tasks,
                 open : SUBSET Tasks, uncertain : BOOLEAN]]

\* _diagnostic_artifact: a failed result over whatever the ledger holds.
Diagnostic(i) == [result |-> "failed", diagnostic |-> TRUE, accounting |-> Accounting(i)]

Item == [status : WorkStatus, reason : StopReason \cup {"none"}, artifact : Artifact \cup {None}]

Journal ==
  [items     : [Items -> Item],
   status    : CampaignStatus,
   reason    : StopReason \cup {"none"},
   billing   : BOOLEAN,
   baselines : [Linked -> Artifact \cup {None}]]

\* Python's None is neither an artifact nor a journal.
ASSUME NoneAssumption == None \notin Artifact /\ None \notin Journal

Down == [pc |-> "down", item |-> 0, left |-> 0, call |-> None, update |-> None]

Runner ==
  [pc     : {"down", "create", "begin", "loop", "exec", "hand", "stop", "link",
             "pause", "budget", "audit"},
   item   : Items \cup {0},
   left   : Nat,                    \* items left of --max-items; 0 is no limit
   call   : CallIds \cup {None},    \* reserved, about to be marked sent
   update : Item \cup {None}]       \* what the journal is about to say of item

TypeOK ==
  /\ StoreTypeOK
  /\ plan \in BOOLEAN
  /\ journal \in Journal \cup {None}
  /\ files \in [Items -> Artifact \cup {None}]
  /\ runner \in Runner
  /\ flight \subseteq CallIds
  /\ starts \in 0 .. MaxStarts

(***************************************************************************)
(* Reading the journal.                                                    *)
(***************************************************************************)
Status(i) == journal.items[i].status
Statuses(items) == {items[i].status : i \in Items}
Reasons(items) == {items[i].reason : i \in Items}
With(status) == {i \in Items : Status(i) \in status}
PersistedReason == HighestStopReason({journal.reason} \cup Reasons(journal.items))

At(pc) == runner.pc = pc
Goto(pc) == runner' = [runner EXCEPT !.pc = pc]
Write(record) == journal' = record

\* Slip: the billing flag of an earlier stop stays.
StoppedFlagless(j, reason) ==
  [j EXCEPT !.reason = reason,
            !.status = DeriveCampaignStatus(Statuses(j.items), {reason} \cup Reasons(j.items))]

Stopped(j, reason) ==
  [j EXCEPT !.reason = reason, !.billing = (reason = "billing_uncertain"),
            !.status = DeriveCampaignStatus(Statuses(j.items), {reason} \cup Reasons(j.items))]

\* _validate_startup_reservation
StartupFits(items, batch) ==
  LET pending == {i \in Items : items[i].status \notin Terminal}
      selected == IF batch = 0 THEN Cardinality(pending)
                               ELSE Min({batch, Cardinality(pending)})
  IN  pending = {} \/ Committed + selected * ItemEstimate <= Cap

\* _verify_persisted_artifacts.  An artifact of a billing-uncertain stop is not
\* held against the ledger when authorized calls are being recovered.
ArtifactVerified(i, authorized) ==
  LET item == journal.items[i] IN
  /\ item.artifact = files[i]
  /\ (item.artifact # None
        /\ ~(item.reason = "billing_uncertain" /\ item.artifact.diagnostic /\ authorized # {}))
     => item.artifact.accounting = Accounting(i)

ArtifactsVerified(authorized) == \A i \in Items : ArtifactVerified(i, authorized)

\* _verify_stability_baselines
BaselinesVerified ==
  \A i \in Linked :
    /\ journal.baselines[i] # None
    /\ journal.baselines[i] = journal.items[i].artifact
    /\ files[i] = journal.baselines[i]

(***************************************************************************)
(* run: plan, journal, then the execution loop.                            *)
(***************************************************************************)
NewJournal ==
  [items     |-> [i \in Items |-> [status |-> "pending", reason |-> "none", artifact |-> None]],
   status    |-> "planned",
   reason    |-> "none",
   billing   |-> FALSE,
   baselines |-> [i \in Linked |-> None]]

Run(batch) ==
  /\ At("down") /\ starts < MaxStarts
  /\ ~plan /\ journal = None
  /\ StartupFits(NewJournal.items, batch)
  /\ plan' = TRUE
  /\ runner' = [Down EXCEPT !.pc = "create", !.left = batch]
  /\ starts' = starts + 1
  /\ UNCHANGED <<storeVars, journal, files, flight>>

CreateJournal ==
  /\ At("create")
  /\ Write(NewJournal) /\ Goto("begin")
  /\ UNCHANGED <<storeVars, plan, files, flight, starts>>

Begin ==
  /\ At("begin")
  /\ Write([journal EXCEPT !.status = "running"]) /\ Goto("loop")
  /\ UNCHANGED <<storeVars, plan, files, flight, starts>>

Remaining == {i \in Items : Status(i) \notin Terminal}

\* Slip: work is picked in any order.
NextItemAnyOrder ==
  /\ At("loop") /\ Remaining # {}
  /\ \E i \in Remaining :
       /\ Write([journal EXCEPT !.items[i].status = "running", !.items[i].reason = "none"])
       /\ runner' = [runner EXCEPT !.pc = "exec", !.item = i]
  /\ UNCHANGED <<storeVars, plan, files, flight, starts>>

NextItem ==
  /\ At("loop") /\ Remaining # {}
  /\ LET i == Min(Remaining) IN
       /\ i \in Stability => BaselinesVerified
       /\ Write([journal EXCEPT !.items[i].status = "running", !.items[i].reason = "none"])
       /\ runner' = [runner EXCEPT !.pc = "exec", !.item = i]
  /\ UNCHANGED <<storeVars, plan, files, flight, starts>>

Finish ==
  /\ At("loop") /\ Remaining = {}
  /\ Write([journal EXCEPT !.status =
              DeriveCampaignStatus(Statuses(journal.items), Reasons(journal.items))])
  /\ runner' = Down
  /\ UNCHANGED <<storeVars, plan, files, flight, starts>>

(***************************************************************************)
(* The executor of the running item.                                       *)
(***************************************************************************)
StopWith(reason) ==
  /\ runner' = [runner EXCEPT !.pc = "stop", !.call = None,
                              !.update = [status |-> "stopped", reason |-> reason,
                                          artifact |-> None]]
  /\ flight' = {}

TheRequest == CHOOSE r \in Requests : TRUE
ThePayload == CHOOSE p \in Payloads : TRUE

ExecReserve(t) ==
  /\ At("exec")
  /\ LET c == <<runner.item, t>> IN
     /\ ResumeDecision(c, TheRequest) = "send"
     /\ \E amount \in Estimates :
          LET outcome == ReserveOutcome(c, TheRequest, c, amount) IN
          \/ /\ outcome = "inserted"
             /\ ReserveCall(c, TheRequest, c, amount)
             /\ runner' = [runner EXCEPT !.pc = "hand", !.call = c]
             /\ UNCHANGED flight
          \/ /\ outcome = "existing"
             /\ runner' = [runner EXCEPT !.pc = "hand", !.call = c]
             /\ UNCHANGED <<storeVars, flight>>
          \/ /\ outcome = "budget_exceeded"
             /\ StopWith("budget")
             /\ UNCHANGED storeVars
  /\ UNCHANGED <<diskVars, starts>>

ExecHandOver ==
  /\ At("hand")
  /\ MarkSent(runner.call)
  /\ runner' = [runner EXCEPT !.pc = "exec", !.call = None]
  /\ flight' = flight \cup {runner.call}
  /\ UNCHANGED <<diskVars, starts>>

ExecAnswer(c) ==
  /\ At("exec") /\ c \in flight
  /\ \E usage \in Usages :
       /\ CompleteCall(c, TheRequest, ThePayload, usage)
       /\ IF CompleteOutcome(c, TheRequest, usage) = "budget_exceeded" THEN StopWith("budget")
          ELSE IF ~usage.complete THEN StopWith("usage_missing")
          ELSE flight' = flight \ {c} /\ UNCHANGED runner
  /\ UNCHANGED <<diskVars, starts>>

ExecTransportFails(c) ==
  /\ At("exec") /\ c \in flight
  /\ MarkBillingUncertain(c)
  /\ StopWith("billing_uncertain")
  /\ UNCHANGED <<diskVars, starts>>

\* Any other exception: an executor that cannot be built, a run refused before its
\* first call, a judge answer that stays invalid.  Only workers run side by side,
\* and these turn such an exception into a failed result.
ExecFails ==
  /\ At("exec") /\ flight = {}
  /\ StopWith("internal_error")
  /\ UNCHANGED <<storeVars, diskVars, starts>>

ExecInterrupted ==
  /\ At("exec")
  /\ Write([journal EXCEPT !.items[runner.item].status = "interrupted",
                           !.items[runner.item].reason = "process_interruption",
                           !.reason = "process_interruption", !.status = "interrupted"])
  /\ runner' = Down /\ flight' = {}
  /\ UNCHANGED <<storeVars, plan, files, starts>>

(***************************************************************************)
(* The result of an item: classified, persisted, then journaled.           *)
(***************************************************************************)
\* Slip: the journal is written before the artifact file.
PersistLate(i, artifact, status, reason) ==
  /\ UNCHANGED files
  /\ runner' = [runner EXCEPT !.pc = "link", !.item = i,
                  !.update = [status |-> status, reason |-> reason, artifact |-> artifact]]

Persist(i, artifact, status, reason) ==
  /\ files' = [files EXCEPT ![i] = artifact]
  /\ runner' = [runner EXCEPT !.pc = "link", !.item = i,
                  !.update = [status |-> status, reason |-> reason, artifact |-> artifact]]

\* Slip: an artifact over reserved calls is taken for a finished one.
ClassifyOpenAsDone(accounting, drift) ==
  IF accounting.uncertain THEN "billing_uncertain"
  ELSE IF accounting.unpriced # {} THEN "usage_missing"
  ELSE IF drift /\ accounting.completed # {} THEN "model_drift"
  ELSE "none"

\* Why the runner stops on an artifact the executor returned, if it does.
Classify(accounting, drift) ==
  IF accounting.uncertain THEN "billing_uncertain"
  ELSE IF accounting.open \cup accounting.unpriced # {} THEN "usage_missing"
  ELSE IF drift /\ accounting.completed # {} THEN "model_drift"
  ELSE "none"

\* build_run_artifact makes an artifact over unresolved calls diagnostic, and
\* the runner marks a drifted one so.
ExecReturns(result, drift) ==
  /\ At("exec") /\ flight = {}
  /\ LET i == runner.item
         reason == Classify(Accounting(i), drift)
         artifact == [result |-> result, diagnostic |-> reason # "none",
                      accounting |-> Accounting(i)]
     IN  /\ result \in {"completed", "partial"} => RowsIn(i, {"completed"}) # {}
         /\ Persist(i, artifact, IF reason = "none" THEN result ELSE "stopped", reason)
  /\ UNCHANGED <<storeVars, plan, journal, flight, starts>>

\* The except clauses of _execute.  A budget stop of an item that never called
\* has nothing to record and skips the item as well.
StopItem ==
  /\ At("stop")
  /\ LET i == runner.item
         reason == runner.update.reason
     IN  IF reason = "budget" /\ RowsIn(i, CallState) = {}
           THEN Goto("budget") /\ UNCHANGED files
           ELSE Persist(i, Diagnostic(i), "stopped", reason)
  /\ UNCHANGED <<storeVars, plan, journal, flight, starts>>

\* Slip: the baseline of a linked dev item is not recorded.
BaselinesForgotten(i, artifact) == journal.baselines

BaselinesWith(i, artifact) ==
  [l \in Linked |-> IF l = i THEN artifact ELSE journal.baselines[l]]

Link ==
  /\ At("link")
  /\ LET i == runner.item
         update == runner.update
         items == [journal.items EXCEPT ![i] = update]
         linked == [journal EXCEPT !.items = items]
     IN  IF update.reason # "none"
         THEN /\ Write(Stopped(linked, update.reason))
              /\ runner' = IF update.reason = "budget"
                             THEN [runner EXCEPT !.pc = "budget", !.update = None] ELSE Down
         ELSE /\ Write([linked EXCEPT
                   !.baselines = BaselinesWith(i, update.artifact),
                   !.status = DeriveCampaignStatus(Statuses(items), Reasons(items))])
              /\ runner' = [runner EXCEPT
                   !.pc = IF /\ runner.left = 1
                             /\ \E k \in Items : items[k].status = "pending"
                            THEN "pause" ELSE "loop",
                   !.left = IF @ > 0 THEN @ - 1 ELSE 0,
                   !.item = 0, !.update = None]
  /\ UNCHANGED <<storeVars, plan, files, flight, starts>>

Pause ==
  /\ At("pause")
  /\ Write([journal EXCEPT !.reason = "user_paused", !.status = "paused"])
  /\ runner' = Down
  /\ UNCHANGED <<storeVars, plan, files, flight, starts>>

\* _mark_budget
MarkBudget ==
  /\ At("budget")
  /\ Write([journal EXCEPT
       !.items = [i \in Items |->
                    IF i >= runner.item /\ @[i].status \in {"pending", "running", "interrupted"}
                      THEN [@[i] EXCEPT !.status = "not_run_budget", !.reason = "budget"]
                      ELSE @[i]],
       !.reason = "budget", !.status = "incomplete_budget"])
  /\ runner' = Down
  /\ UNCHANGED <<storeVars, plan, files, flight, starts>>

(***************************************************************************)
(* resume: verify what is on disk, normalize, audit the ledger, go on.     *)
(***************************************************************************)
ResumeAccepted == plan /\ journal # None /\ ArtifactsVerified({})

Resumable == PersistedReason \in {"none", "process_interruption", "user_paused"}

Resume ==
  /\ At("down") /\ starts < MaxStarts
  /\ ResumeAccepted
  /\ starts' = starts + 1
  /\ UNCHANGED <<storeVars, plan, files, flight>>

\* Execution goes on only when the selected batch fits under the cap.
Continue(items, batch) ==
  runner' = IF StartupFits(items, batch)
              THEN [Down EXCEPT !.pc = "begin", !.left = batch] ELSE Down

ResumeStopped ==
  /\ Resume /\ ~Resumable
  /\ Write(Stopped(journal, PersistedReason))
  /\ UNCHANGED runner

ResumeRunning(batch) ==
  /\ Resume /\ Resumable
  /\ \E i \in With({"running"}) :
       /\ Write([journal EXCEPT !.items[i].status = "interrupted",
                                !.items[i].reason = "process_interruption",
                                !.reason = "process_interruption", !.status = "interrupted"])
       /\ runner' = [Down EXCEPT !.pc = "audit", !.item = i, !.left = batch]

ResumeInterrupted(batch) ==
  /\ Resume /\ With({"running"}) = {}
  /\ journal.reason = "process_interruption"
  /\ \E i \in With({"interrupted"}) :
       runner' = [Down EXCEPT !.pc = "audit", !.item = i, !.left = batch]
  /\ UNCHANGED journal

ResumePaused(batch) ==
  /\ Resume /\ With({"running"}) = {}
  /\ journal.reason = "user_paused" /\ Resumable
  /\ Write([journal EXCEPT !.reason = "none", !.status = "running"])
  /\ Continue(journal.items, batch)

ResumeIdle(batch) ==
  /\ Resume /\ With({"running"}) = {}
  /\ PersistedReason = "none"
  /\ Continue(journal.items, batch)
  /\ UNCHANGED journal

AuditCall(c) ==
  /\ At("audit") /\ c[1] = runner.item
  /\ MarkBillingUncertain(c)
  /\ UNCHANGED <<diskVars, runner, flight, starts>>

AuditDone ==
  /\ At("audit")
  /\ LET i == runner.item IN
     /\ RowsIn(i, {"sent"}) = {}
     /\ IF RowsIn(i, Unknown) # {}
          THEN Persist(i, Diagnostic(i), "stopped", "billing_uncertain") /\ UNCHANGED journal
        ELSE IF RowsIn(i, {"usage_missing"}) # {}
          THEN Persist(i, Diagnostic(i), "stopped", "usage_missing") /\ UNCHANGED journal
        ELSE LET requeued == [journal EXCEPT !.items[i].status = "pending",
                                             !.items[i].reason = "none",
                                             !.reason = "none", !.status = "running"]
             IN  /\ Write(requeued)
                 /\ Continue(requeued.items, runner.left)
                 /\ UNCHANGED files
  /\ UNCHANGED <<storeVars, plan, flight, starts>>

(***************************************************************************)
(* Recovery of a stop whose paid calls an operator has authorized again.   *)
(***************************************************************************)
Recoverable == {"billing_uncertain", "usage_missing", "internal_error"}

UnresolvedOf(i) == Unresolved({c \in CallIds : c[1] = i})

\* _requeue_authorized_billing_recovery's test of one stopped item.
Authorized(i) ==
  IF UnresolvedOf(i) # {}
    THEN \A c \in UnresolvedOf(i) : calls[c].state = "reserved" /\ events[c] # None
    ELSE journal.items[i].reason = "internal_error"

Recover(batch) ==
  /\ At("down") /\ starts < MaxStarts
  /\ plan /\ journal # None
  /\ LET stopped == {i \in Items : journal.items[i].reason \in Recoverable}
         requeued == [journal EXCEPT
           !.items = [i \in Items |-> IF i \in stopped
                        THEN [status |-> "pending", reason |-> "none", artifact |-> None]
                        ELSE @[i]],
           !.reason = "none", !.billing = FALSE, !.status = "running"]
     IN  /\ stopped # {} /\ PersistedReason \in Recoverable
         /\ \A i \in stopped : Authorized(i)
         /\ ArtifactsVerified(UNION {UnresolvedOf(i) : i \in stopped})
         /\ Write(requeued)
         /\ Continue(requeued.items, batch)
  /\ starts' = starts + 1
  /\ UNCHANGED <<storeVars, plan, files, flight>>

\* The operator records that an uncertain call may be sent again.
OperatorAuthorizes(c) ==
  /\ At("down")
  /\ \E audit \in Audits : AuthorizeBillingUncertainRetry(c, audit)
  /\ UNCHANGED <<diskVars, runner, flight, starts>>

\* The process dies; files and ledger stay as they are.  Ctrl-C is the same:
\* it cancels the await, and CancelledError passes every except clause.
Crash ==
  /\ ~At("down")
  /\ runner' = Down /\ flight' = {}
  /\ UNCHANGED <<storeVars, diskVars, starts>>

-----------------------------------------------------------------------------
Init ==
  /\ StoreInit
  /\ plan = FALSE
  /\ journal = None
  /\ files = [i \in Items |-> None]
  /\ runner = Down
  /\ flight = {}
  /\ starts = 0

Executor ==
  \/ \E t \in Tasks : ExecReserve(t)
  \/ ExecHandOver
  \/ \E c \in CallIds : ExecAnswer(c) \/ ExecTransportFails(c)
  \/ ExecFails
  \/ \E result \in Scored, drift \in BOOLEAN : ExecReturns(result, drift)

Loop ==
  \/ CreateJournal \/ Begin \/ NextItem \/ Finish
  \/ StopItem \/ Link \/ Pause \/ MarkBudget
  \/ AuditDone \/ \E c \in CallIds : AuditCall(c)

Invocation ==
  \/ ResumeStopped
  \/ \E batch \in Batches :
       \/ Run(batch) \/ Recover(batch)
       \/ ResumeRunning(batch) \/ ResumeInterrupted(batch)
       \/ ResumePaused(batch) \/ ResumeIdle(batch)

Next ==
  \/ Executor \/ Loop \/ Invocation
  \/ ExecInterrupted \/ Crash
  \/ \E c \in CallIds : OperatorAuthorizes(c)

Spec == Init /\ [][Next]_vars

\* The event loop runs the runner and its executor, and the client's timeout
\* ends every call.
FairSpec == Spec /\ WF_vars(Executor \/ Loop)

(***************************************************************************)
(* Properties.                                                             *)
(***************************************************************************)

\* Completed work is never redone: once the journal says an item is scored,
\* its entry, its artifact file and its rows of the ledger never change again,
\* through crashes, interruptions, resumes and recoveries.
ScoredItemsAreFinal ==
  [][\A i \in Items :
       (journal # None /\ journal.items[i].status \in Scored) =>
         /\ journal' # None /\ journal'.items[i] = journal.items[i]
         /\ files'[i] = files[i]
         /\ \A t \in Tasks : calls'[<<i, t>>] = calls[<<i, t>>]]_vars

\* An artifact the journal vouches for is on disk, byte for byte.
LinkedArtifactsOnDisk ==
  journal # None =>
    \A i \in Items : journal.items[i].artifact # None => files[i] = journal.items[i].artifact

\* No money is lost sight of: a call whose billing is unknown belongs to the
\* item in hand (which a resume audits), or to a stopped item whose artifact
\* says so, or to a stop that is being journaled.
UnknownBillingIsSurfaced ==
  \A i \in Items :
    RowsIn(i, Unknown) # {} =>
      /\ journal # None
      /\ \/ Status(i) \in {"running", "interrupted"}
         \/ Status(i) = "stopped" /\ journal.items[i].artifact.accounting.uncertain

\* A consequence of ScheduleOrder: at most one item is unsettled, so the requeue and
\* the interruption audit, which look at one item, cannot miss another.
OneItemInHand ==
  journal # None => Cardinality(With({"running", "interrupted", "stopped"})) <= 1

\* The schedule is executed in order, so no stability repeat starts before the
\* dev item it repeats is settled.
ScheduleOrder ==
  journal # None =>
    \A i, k \in Items : i < k /\ Status(k) \notin {"pending", "not_run_budget"} => Status(i) \in Scored

\* When a stability item is next, the baselines it needs are recorded and are
\* still the artifacts on disk, so a campaign never dies on this check.
BaselinesFrozen ==
  (At("loop") /\ Remaining # {} /\ Min(Remaining) \in Stability) => BaselinesVerified

\* A campaign is complete only with every item scored, every call closed and
\* every artifact's accounting that of the ledger.
CompleteIsClosed ==
  (journal # None /\ journal.status = "complete") =>
    \A i \in Items :
      /\ Status(i) \in Scored
      /\ RowsIn(i, CallState) = RowsIn(i, {"completed"})
      /\ journal.items[i].artifact.accounting = Accounting(i)

\* A stop that needs an operator is reported as the most critical reason its
\* items carry, with its own status and billing flag, and stays so.
StopIsConsistent ==
  (journal # None /\ ~Resumable) =>
    /\ journal.reason = PersistedReason
    /\ journal.status = StopStatus[journal.reason]
    /\ journal.billing <=> journal.reason = "billing_uncertain"

\* Every invocation of the runner comes to an end: no cycle of items, audits and
\* requeues keeps a process busy for ever.
RunnerEnds == ~At("down") ~> At("down")

(***************************************************************************)
(* What the documents and comments say and the code does not do.           *)
(***************************************************************************)

\* A work item a dead process left RUNNING is converted to a resumable state at
\* the resume entry: the resume does not refuse before it gets there.
CrashedItemIsResumable ==
  (At("down") /\ journal # None /\ With({"running"}) # {}) => ResumeAccepted

\* Every unresolved call of a billing-uncertain stop can be authorized: it is
\* flagged as uncertain, or authorized already.
UncertainStopIsAuthorizable ==
  (At("down") /\ journal # None /\ journal.reason = "billing_uncertain") =>
    \A i \in With({"stopped"}), c \in CallIds :
      c \in UnresolvedOf(i) =>
        calls[c].state = "billing_uncertain" \/ (calls[c].state = "reserved" /\ events[c] # None)

=============================================================================
