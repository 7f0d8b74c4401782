------------------------ MODULE CampaignOutcomeProofs ------------------------
(***************************************************************************)
(* What becomes of a campaign's work, for any number of items, tasks and   *)
(* process starts.  Completed work is never redone: no step of any         *)
(* invocation changes the journal entry, the artifact file or the ledger   *)
(* rows of a scored item.  Nothing is lost: a call of unknown billing is   *)
(* surfaced, a stop is on record with its reason, and a campaign is        *)
(* complete only when all is scored and accounted for.                     *)
(***************************************************************************)
EXTENDS CampaignRunnerProofs

\* The executor awaits calls of the item in hand only, and none of them is left
\* when it is not running.
FlightSound ==
  /\ runner.pc \notin {"exec", "hand"} => flight = {}
  /\ \A c \in flight : c[1] = runner.item
  /\ runner.pc = "hand" => runner.call[1] = runner.item

\* A diagnostic artifact is linked as a stop.
LEMMA StopIsPersisted ==
  ASSUME runner \in Runner, NEW i, NEW artifact, NEW reason, Persist(i, artifact, "stopped", reason)
  PROVE  runner'.pc = "link" /\ runner'.update.status = "stopped"
<1> DEFINE update == [status |-> "stopped", reason |-> reason, artifact |-> artifact]
<1>1. runner' = [runner EXCEPT !.pc = "link", !.item = i, !.update = update]
  BY DEF Persist
<1>2. update.status = "stopped"
  OBVIOUS
<1> HIDE DEF update
<1> QED
  BY <1>1, <1>2 DEF Runner

\* Wherever the runner goes without the executor, nothing is in flight, and what
\* it is about to link is a stop unless the executor returned.
LEMMA NothingInFlight ==
  ASSUME RunnerInv, FlightSound,
         \/ ExecFails \/ \E result \in Scored, drift \in BOOLEAN : ExecReturns(result, drift)
         \/ Loop \/ Invocation \/ ExecInterrupted \/ Crash
         \/ \E c \in CallIds : ExecTransportFails(c) \/ OperatorAuthorizes(c)
  PROVE  /\ flight' = {} /\ runner'.pc # "hand"
         /\ runner'.pc = "link" =>
              \/ runner'.update.status = "stopped"
              \/ \E result \in Scored, drift \in BOOLEAN : ExecReturns(result, drift)
<1>1. runner \in Runner /\ (runner.pc \notin {"exec", "hand"} => flight = {})
  BY DEF RunnerInv, RunnerTypes, FlightSound
<1>2. CASE ExecFails \/ \E c \in CallIds : ExecTransportFails(c)
  BY <1>1, <1>2 DEF ExecFails, ExecTransportFails, StopWith, Runner
<1>3. CASE \E result \in Scored, drift \in BOOLEAN : ExecReturns(result, drift)
  BY <1>1, <1>3 DEF ExecReturns, Persist, Runner
<1>4. CASE Loop
  <2>1. CASE CreateJournal \/ Begin
    <3>1. runner.pc \in {"create", "begin"} /\ UNCHANGED flight
          /\ \E pc \in {"begin", "loop"} : runner' = [runner EXCEPT !.pc = pc]
      BY <2>1 DEF CreateJournal, Begin, At, Goto
    <3> QED
      BY <1>1, <3>1 DEF Runner
  <2>2. CASE NextItem
    <3>1. runner.pc = "loop" /\ UNCHANGED flight
          /\ runner' = [runner EXCEPT !.pc = "exec", !.item = Min(Remaining)]
      BY <2>2 DEF NextItem, At
    <3> QED
      BY <1>1, <3>1 DEF Runner
  <2>3. CASE Finish \/ Pause \/ MarkBudget
    <3>1. runner.pc \in {"loop", "pause", "budget"} /\ UNCHANGED flight /\ runner' = Down
      BY <2>3 DEF Finish, Pause, MarkBudget, At
    <3> QED
      BY <1>1, <3>1 DEF Down
  <2>4. CASE StopItem
    <3>1. runner.pc = "stop" /\ UNCHANGED flight
          /\ \/ runner' = [runner EXCEPT !.pc = "budget"]
             \/ Persist(runner.item, Diagnostic(runner.item), "stopped", runner.update.reason)
      BY <2>4 DEF StopItem, At, Goto
    <3>2. CASE runner' = [runner EXCEPT !.pc = "budget"]
      BY <1>1, <3>1, <3>2 DEF Runner
    <3> QED
      BY <1>1, <3>1, <3>2, StopIsPersisted
  <2>5. CASE Link
    <3>1. runner.pc = "link" /\ UNCHANGED flight
      BY <2>5 DEF Link, At
    <3>2. runner.update.reason # "none" =>
            runner' = IF runner.update.reason = "budget"
                        THEN [runner EXCEPT !.pc = "budget", !.update = None] ELSE Down
      BY <2>5 DEF Link
    <3>3. runner.update.reason = "none" =>
            \E pc \in {"pause", "loop"} :
              runner' = [runner EXCEPT !.pc = pc, !.left = IF @ > 0 THEN @ - 1 ELSE 0,
                                       !.item = 0, !.update = None]
      BY <2>5 DEF Link
    <3>4. runner.update.reason = "none" => runner'.pc \notin {"hand", "link"}
      BY <1>1, <3>3 DEF Runner
    <3>5. runner.update.reason # "none" => runner'.pc \notin {"hand", "link"}
      <4>1. CASE runner' = [runner EXCEPT !.pc = "budget", !.update = None]
        BY <1>1, <4>1 DEF Runner
      <4>2. CASE runner' = Down
        BY <4>2 DEF Down
      <4> QED
        BY <3>2, <4>1, <4>2
    <3> QED
      BY <1>1, <3>1, <3>4, <3>5
  <2>6. CASE AuditDone
    <3> DEFINE requeued == [journal EXCEPT !.items[runner.item].status = "pending",
                                           !.items[runner.item].reason = "none",
                                           !.reason = "none", !.status = "running"]
    <3>1. runner.pc = "audit" /\ UNCHANGED flight
      BY <2>6 DEF AuditDone, At
    <3>2. \/ \E reason \in {"billing_uncertain", "usage_missing"} :
               Persist(runner.item, Diagnostic(runner.item), "stopped", reason)
          \/ Continue(requeued.items, runner.left)
      BY <2>6 DEF AuditDone
    <3> HIDE DEF requeued
    <3>3. ASSUME NEW reason \in {"billing_uncertain", "usage_missing"},
                 Persist(runner.item, Diagnostic(runner.item), "stopped", reason)
          PROVE  runner'.pc = "link" /\ runner'.update.status = "stopped"
      BY <1>1, <3>3, StopIsPersisted
    <3>4. ASSUME NEW items, NEW batch, Continue(items, batch) PROVE runner'.pc \notin {"hand", "link"}
      BY <3>4 DEF Continue, Down
    <3> QED
      BY <1>1, <3>1, <3>2, <3>3, <3>4
  <2>7. CASE \E c \in CallIds : AuditCall(c)
    BY <1>1, <2>7 DEF AuditCall, At
  <2> QED
    BY <1>4, <2>1, <2>2, <2>3, <2>4, <2>5, <2>6, <2>7 DEF Loop
<1>5. CASE Invocation
  <2>1. runner.pc = "down" /\ UNCHANGED flight
    BY <1>5 DEF Invocation, ResumeStopped, Run, Recover, ResumeRunning, ResumeInterrupted,
                ResumePaused, ResumeIdle, Resume, At
  <2>2. ASSUME NEW items, NEW batch, Continue(items, batch) PROVE runner'.pc \notin {"hand", "link"}
    BY <2>2 DEF Continue, Down
  <2>3. ASSUME NEW batch \in Batches, Run(batch) PROVE runner'.pc \notin {"hand", "link"}
    BY <2>3 DEF Run, Down
  <2>4. ASSUME NEW batch \in Batches, Recover(batch) PROVE runner'.pc \notin {"hand", "link"}
    BY <2>2, <2>4, Zenon DEF Recover
  <2>5. ASSUME NEW batch \in Batches, ResumeRunning(batch) \/ ResumeInterrupted(batch)
        PROVE  runner'.pc \notin {"hand", "link"}
    <3>1. \/ \E i \in With({"running"}) :
               runner' = [Down EXCEPT !.pc = "audit", !.item = i, !.left = batch]
          \/ \E i \in With({"interrupted"}) :
               runner' = [Down EXCEPT !.pc = "audit", !.item = i, !.left = batch]
      BY <2>5 DEF ResumeRunning, ResumeInterrupted
    <3> QED
      BY <3>1 DEF Down
  <2>6. ASSUME NEW batch \in Batches, ResumePaused(batch) \/ ResumeIdle(batch)
        PROVE  runner'.pc \notin {"hand", "link"}
    BY <2>2, <2>6 DEF ResumePaused, ResumeIdle
  <2>7. CASE ResumeStopped
    BY <1>1, <2>1, <2>7 DEF ResumeStopped
  <2> QED
    BY <1>1, <1>5, <2>1, <2>3, <2>4, <2>5, <2>6, <2>7 DEF Invocation
<1>6. CASE ExecInterrupted \/ Crash
  BY <1>6 DEF ExecInterrupted, Crash, Down
<1>7. CASE \E c \in CallIds : OperatorAuthorizes(c)
  BY <1>1, <1>7 DEF OperatorAuthorizes, At
<1> QED
  BY <1>2, <1>3, <1>4, <1>5, <1>6, <1>7

\* The executor adds calls of the item in hand, and takes them away.
LEMMA FlightStep == RunnerInv /\ FlightSound /\ [Next]_vars => FlightSound'
<1> SUFFICES ASSUME RunnerInv, FlightSound, [Next]_vars PROVE FlightSound'
  OBVIOUS
<1>1. runner \in Runner
  BY DEF RunnerInv, RunnerTypes
<1>2. ASSUME NEW t \in Tasks, ExecReserve(t) PROVE FlightSound'
  <2> DEFINE c == <<runner.item, t>>
  <2>1. c[1] = runner.item /\ c \in CallIds /\ runner.pc = "exec"
    BY <1>2, RunnerAssumption DEF ExecReserve, At, RunnerInv, RunnerSound
  <2>2. \/ runner' = [runner EXCEPT !.pc = "hand", !.call = c] /\ UNCHANGED flight
        \/ StopWith("budget")
    BY <1>2 DEF ExecReserve
  <2> HIDE DEF c
  <2> QED
    BY <1>1, <2>1, <2>2 DEF StopWith, FlightSound, Runner
<1>3. CASE ExecHandOver
  BY <1>1, <1>3 DEF ExecHandOver, At, FlightSound, Runner
<1>4. ASSUME NEW c \in CallIds, ExecAnswer(c) PROVE FlightSound'
  <2>1. \/ StopWith("budget") \/ StopWith("usage_missing")
        \/ At("exec") /\ flight' = flight \ {c} /\ UNCHANGED runner
    BY <1>4 DEF ExecAnswer
  <2> QED
    BY <1>1, <2>1 DEF StopWith, FlightSound, At, Runner
<1>5. CASE UNCHANGED vars
  BY <1>5 DEF vars, FlightSound
<1>6. ASSUME flight' = {} /\ runner'.pc # "hand" PROVE FlightSound'
  BY <1>6 DEF FlightSound
<1> QED
  BY <1>2, <1>3, <1>4, <1>5, <1>6, NothingInFlight DEF Next, Executor

\* A row changes only while its item is in hand, or by an authorization.
LEMMA RowsStay ==
  ASSUME RunnerInv, FlightSound, [Next]_vars, NEW c \in CallIds
  PROVE  \/ calls'[c] = calls[c]
         \/ calls[c].state = "billing_uncertain"
         \/ runner.pc \in {"exec", "hand", "audit"} /\ c[1] = runner.item
<1>1. calls \in [CallIds -> Row]
  BY DEF RunnerInv, StoreTypeOK
<1>2. ASSUME NEW t \in Tasks, ExecReserve(t), calls'[c] # calls[c]
      PROVE  runner.pc = "exec" /\ c[1] = runner.item
  <2> DEFINE d == <<runner.item, t>>
  <2>1. runner.pc = "exec" /\ d \in CallIds
    BY <1>2, RunnerAssumption DEF ExecReserve, At, RunnerInv, RunnerSound
  <2>2. \/ \E amount \in Estimates : ReserveCall(d, TheRequest, d, amount)
        \/ UNCHANGED storeVars
    BY <1>2 DEF ExecReserve
  <2>3. d[1] = runner.item
    OBVIOUS
  <2> HIDE DEF d
  <2>4. c = d
    BY <1>1, <1>2, <2>1, <2>2 DEF ReserveCall, storeVars
  <2> QED
    BY <2>1, <2>3, <2>4
<1>3. ASSUME ExecHandOver, calls'[c] # calls[c]
      PROVE  runner.pc = "hand" /\ c[1] = runner.item
  BY <1>1, <1>3 DEF ExecHandOver, At, MarkSent, FlightSound
<1>4. ASSUME NEW d \in CallIds, ExecAnswer(d) \/ ExecTransportFails(d), calls'[c] # calls[c]
      PROVE  runner.pc = "exec" /\ c[1] = runner.item
  BY <1>1, <1>4 DEF ExecAnswer, ExecTransportFails, At, CompleteCall, MarkBillingUncertain, FlightSound
<1>5. ASSUME NEW d \in CallIds, AuditCall(d), calls'[c] # calls[c]
      PROVE  runner.pc = "audit" /\ c[1] = runner.item
  BY <1>1, <1>5 DEF AuditCall, At, MarkBillingUncertain
<1>6. ASSUME NEW d \in CallIds, OperatorAuthorizes(d), calls'[c] # calls[c]
      PROVE  calls[c].state = "billing_uncertain"
  BY <1>1, <1>6 DEF OperatorAuthorizes, AuthorizeBillingUncertainRetry
<1>7. CASE ExecFails \/ \E result \in Scored, drift \in BOOLEAN : ExecReturns(result, drift)
  BY <1>7 DEF ExecFails, ExecReturns, storeVars
<1>8. CASE CreateJournal \/ Begin \/ NextItem \/ Finish \/ StopItem \/ Link \/ Pause \/ MarkBudget \/ AuditDone
  BY <1>8 DEF CreateJournal, Begin, NextItem, Finish, StopItem, Link, Pause, MarkBudget, AuditDone, storeVars
<1>9. CASE Invocation
  BY <1>9 DEF Invocation, ResumeStopped, Run, Recover, ResumeRunning, ResumeInterrupted,
              ResumePaused, ResumeIdle, Resume, storeVars
<1>10. CASE ExecInterrupted \/ Crash \/ UNCHANGED vars
  BY <1>10 DEF ExecInterrupted, Crash, vars, storeVars
<1> QED
  BY <1>2, <1>3, <1>4, <1>5, <1>6, <1>7, <1>8, <1>9, <1>10 DEF Next, Executor, Loop

\* An item that is scored, or about to be, has no call left open.
Settled(i) ==
  \/ journal \in Journal /\ journal.items[i].status \in Scored
  \/ runner.pc = "link" /\ runner.item = i /\ runner.update.status \in Scored

\* What is settled has no open call on record.
RowsSettled ==
  \A i \in Items : Settled(i) => \A t \in Tasks : calls[<<i, t>>].state \in {"absent", "completed"}

\* The rows of a scored item never change.
LEMMA ScoredRowsStay ==
  ASSUME RunnerInv, FlightSound, RowsSettled, [Next]_vars,
         NEW i \in Items, Settled(i), NEW t \in Tasks
  PROVE  calls'[<<i, t>>] = calls[<<i, t>>]
<1> DEFINE c == <<i, t>>
<1>1. c \in CallIds /\ c[1] = i /\ calls[c].state \in {"absent", "completed"}
  BY RunnerAssumption DEF RowsSettled
<1> HIDE DEF c
<1>2. runner.pc \in {"exec", "hand", "audit"} => runner.item # i
  BY DEF RunnerInv, RunnerSound, Settled, Status, Scored
<1> QED
  BY <1>1, <1>2, RowsStay DEF c

\* An item is settled by the executor's result alone, when its calls are.
LEMMA SettledStep ==
  RunnerInv /\ FlightSound /\ RowsSettled /\ [Next]_vars => RowsSettled'
<1> SUFFICES ASSUME RunnerInv, FlightSound, RowsSettled, [Next]_vars,
                    NEW i \in Items, Settled(i)', NEW t \in Tasks
             PROVE  calls'[<<i, t>>].state \in {"absent", "completed"}
  BY DEF RowsSettled
<1> DEFINE c == <<i, t>>
<1>1. c \in CallIds /\ calls \in [CallIds -> Row] /\ runner \in Runner
  BY RunnerAssumption DEF RunnerInv, RunnerTypes, StoreTypeOK
<1>2. CASE Settled(i)
  BY <1>2, ScoredRowsStay DEF RowsSettled
<1>3. CASE ~Settled(i)
  <2>1. /\ runner'.pc = "link" /\ runner'.item = i /\ runner'.update.status \in Scored
        /\ ~(runner.pc = "link" /\ runner.item = i /\ runner.update.status \in Scored)
    BY <1>3, RunnerStep DEF Settled, ScoresKept
  <2>2. ~UNCHANGED vars
    BY <1>3, <2>1 DEF vars, Settled
  <2>3. ASSUME NEW d \in CallIds, ExecAnswer(d) PROVE FALSE
    <3>1. \/ StopWith("budget") \/ StopWith("usage_missing")
          \/ At("exec") /\ UNCHANGED runner
      BY <2>3 DEF ExecAnswer
    <3> QED
      BY <1>1, <2>1, <3>1 DEF StopWith, At, Runner
  <2>4. ASSUME NEW u \in Tasks, ExecReserve(u) PROVE FALSE
    <3>1. \/ \E d : runner' = [runner EXCEPT !.pc = "hand", !.call = d]
          \/ StopWith("budget")
      BY <2>4 DEF ExecReserve
    <3> QED
      BY <1>1, <2>1, <3>1 DEF StopWith, Runner
  <2>5. ASSUME ExecHandOver PROVE FALSE
    BY <1>1, <2>1, <2>5 DEF ExecHandOver, Runner
  <2>6. PICK result \in Scored, drift \in BOOLEAN : ExecReturns(result, drift)
    <3>1. \/ ExecFails \/ \E result \in Scored, drift \in BOOLEAN : ExecReturns(result, drift)
          \/ Loop \/ Invocation \/ ExecInterrupted \/ Crash
          \/ \E d \in CallIds : ExecTransportFails(d) \/ OperatorAuthorizes(d)
      BY <2>2, <2>3, <2>4, <2>5 DEF Next, Executor
    <3>2. runner'.update.status # "stopped"
      BY <2>1 DEF Scored
    <3> QED
      BY <2>1, <3>1, <3>2, NothingInFlight
  <2> DEFINE a == Accounting(i)
             reason == Classify(a, drift)
             artifact == [result |-> result, diagnostic |-> reason # "none", accounting |-> a]
             status == IF reason = "none" THEN result ELSE "stopped"
             update == [status |-> status, reason |-> reason, artifact |-> artifact]
  <2>7. /\ runner.item \in Items /\ UNCHANGED calls
        /\ Persist(runner.item,
             [result |-> result, diagnostic |-> Classify(Accounting(runner.item), drift) # "none",
              accounting |-> Accounting(runner.item)],
             IF Classify(Accounting(runner.item), drift) = "none" THEN result ELSE "stopped",
             Classify(Accounting(runner.item), drift))
    BY <2>6 DEF ExecReturns, At, RunnerInv, RunnerSound, storeVars
  <2>8. runner.item = i
    BY <1>1, <2>1, <2>7 DEF Persist, Runner
  <2>9. runner' = [runner EXCEPT !.pc = "link", !.item = i, !.update = update]
    BY <2>7, <2>8 DEF Persist
  <2>10. update.status = status
    OBVIOUS
  <2> HIDE DEF update
  <2>11. status \in Scored
    BY <1>1, <2>1, <2>9, <2>10 DEF Runner
  <2>12. reason = "none"
    <3> HIDE DEF reason
    <3> QED
      BY <2>11 DEF Scored
  <2>13. ~a.uncertain /\ a.open \cup a.unpriced = {}
    BY <2>12 DEF Classify
  <2>14. RowsIn(i, Unknown) = {} /\ RowsIn(i, {"usage_missing"}) = {}
         /\ RowsIn(i, {"reserved"} \cup Unknown) = {}
    BY <2>13 DEF Accounting
  <2>15. calls[c].state \in CallState \cup {"absent"}
    BY <1>1 DEF Row
  <2>16. calls[c].state \notin {"usage_missing", "reserved"} \cup Unknown
    BY <2>14 DEF RowsIn
  <2> QED
    BY <2>7, <2>15, <2>16 DEF CallState, Unknown
<1> QED
  BY <1>2, <1>3

\* The invariant of what is scored, and that it holds at all times.
FinalInv == RunnerInv /\ FlightSound /\ RowsSettled

\* It holds initially and after every step.
LEMMA FinalInvariant == Spec => []FinalInv
<1>1. Init => FinalInv
  <2> SUFFICES ASSUME Init PROVE FlightSound /\ RowsSettled
    BY RunnerInit DEF FinalInv
  <2>1. runner.pc = "down" /\ flight = {} /\ journal \notin Journal
    BY NoneAssumption DEF Init, Down
  <2> QED
    BY <2>1 DEF FlightSound, RowsSettled, Settled
<1>2. FinalInv /\ [Next]_vars => FinalInv'
  BY RunnerStep, FlightStep, SettledStep DEF FinalInv
<1> QED
  BY <1>1, <1>2, PTL DEF Spec

\* Completed work is never redone: a scored item's journal entry, artifact file
\* and ledger rows are final, through crashes, resumes and recoveries.
THEOREM CompletedIsFinal == Spec => ScoredItemsAreFinal
<1>1. FinalInv /\ [Next]_vars =>
        [\A i \in Items :
           (journal # None /\ journal.items[i].status \in Scored) =>
             /\ journal' # None /\ journal'.items[i] = journal.items[i]
             /\ files'[i] = files[i]
             /\ \A t \in Tasks : calls'[<<i, t>>] = calls[<<i, t>>]]_vars
  <2> SUFFICES ASSUME FinalInv, [Next]_vars, NEW i \in Items,
                      journal # None, journal.items[i].status \in Scored
               PROVE  /\ journal' # None /\ journal'.items[i] = journal.items[i]
                      /\ files'[i] = files[i]
                      /\ \A t \in Tasks : calls'[<<i, t>>] = calls[<<i, t>>]
    OBVIOUS
  <2>1. journal \in Journal
    BY DEF FinalInv, RunnerInv, RunnerTypes
  <2>2. journal' \in Journal /\ journal'.items[i] = journal.items[i] /\ files'[i] = files[i]
    BY <2>1, RunnerStep DEF FinalInv, ScoresKept
  <2>3. \A t \in Tasks : calls'[<<i, t>>] = calls[<<i, t>>]
    BY <2>1, ScoredRowsStay DEF FinalInv, Settled
  <2> QED
    BY <2>2, <2>3, NoneAssumption
<1> QED
  BY <1>1, FinalInvariant, PTL DEF Spec, ScoredItemsAreFinal

(***************************************************************************)
(* What each step writes into the journal.                                 *)
(***************************************************************************)

\* An entry without artifact.
Entry(status, reason) == [status |-> status, reason |-> reason, artifact |-> None]
\* The entries with that of item i replaced.
Put(i, item) == [journal.items EXCEPT ![i] = item]

\* The journal reads so after the step.
Reads(items, reason, billing, status, baselines) ==
  /\ journal'.items = items /\ journal'.reason = reason /\ journal'.billing = billing
  /\ journal'.status = status /\ journal'.baselines = baselines

\* A journal that is written field by field reads as it was written.
LEMMA FieldsRead ==
  ASSUME journal \in Journal, NEW items, NEW reason, NEW billing, NEW status, NEW baselines,
         journal' = [journal EXCEPT !.items = items, !.reason = reason, !.billing = billing,
                                    !.status = status, !.baselines = baselines]
  PROVE  Reads(items, reason, billing, status, baselines)
BY Zenon DEF Journal, Reads

\* A record with the fields of an entry is that entry.
LEMMA EntryOf ==
  ASSUME NEW status, NEW reason, NEW entry \in [status : {status}, reason : {reason}, artifact : {None}]
  PROVE  entry = Entry(status, reason)
BY DEF Entry

\* Beginning, finishing and pausing write the status, and a pause the reason.
LEMMA LoopReads ==
  ASSUME RunnerInv
  PROVE  /\ CreateJournal => 
              /\ journal = None
              /\ Reads([i \in Items |-> Entry("pending", "none")], "none", FALSE, "planned",
                       [l \in Linked |-> None])
         /\ Begin => Reads(journal.items, journal.reason, journal.billing, "running", journal.baselines)
         /\ Finish => Reads(journal.items, journal.reason, journal.billing,
                            DeriveCampaignStatus(Statuses(journal.items), Reasons(journal.items)),
                            journal.baselines)
         /\ Pause => Reads(journal.items, "user_paused", journal.billing, "paused", journal.baselines)
<1>1. runner.pc \in {"begin", "loop", "pause"} => journal \in Journal
  BY DEF RunnerInv, RunnerSound
<1>2. ASSUME CreateJournal
      PROVE  /\ journal = None
             /\ Reads([i \in Items |-> Entry("pending", "none")], "none", FALSE, "planned",
                      [l \in Linked |-> None])
  <2>1. journal' = NewJournal /\ journal = None
    BY <1>2 DEF CreateJournal, Write, At, RunnerInv, RunnerSound
  <2> QED
    BY <2>1, Zenon DEF NewJournal, Reads, Entry
<1>3. ASSUME Begin
      PROVE  Reads(journal.items, journal.reason, journal.billing, "running", journal.baselines)
  <2>1. journal \in Journal /\ journal' = [journal EXCEPT !.status = "running"]
    BY <1>1, <1>3 DEF Begin, Write, At
  <2> QED
    BY <2>1, Zenon DEF Journal, Reads
<1>4. ASSUME Finish
      PROVE  Reads(journal.items, journal.reason, journal.billing,
                   DeriveCampaignStatus(Statuses(journal.items), Reasons(journal.items)),
                   journal.baselines)
  <2> DEFINE status == DeriveCampaignStatus(Statuses(journal.items), Reasons(journal.items))
  <2>1. journal \in Journal /\ journal' = [journal EXCEPT !.status = status]
    BY <1>1, <1>4 DEF Finish, Write, At
  <2> HIDE DEF status
  <2>2. Reads(journal.items, journal.reason, journal.billing, status, journal.baselines)
    BY <2>1, Zenon DEF Journal, Reads
  <2> QED
    BY <2>2 DEF status
<1>5. ASSUME Pause
      PROVE  Reads(journal.items, "user_paused", journal.billing, "paused", journal.baselines)
  <2>1. journal \in Journal /\ journal' = [journal EXCEPT !.reason = "user_paused", !.status = "paused"]
    BY <1>1, <1>5 DEF Pause, Write, At
  <2> QED
    BY <2>1, Zenon DEF Journal, Reads
<1> QED
  BY <1>2, <1>3, <1>4, <1>5

\* The next item is entered as running; it was pending or running.
LEMMA NextItemReads ==
  ASSUME RunnerInv, NextItem
  PROVE  \E i \in Items :
           /\ Status(i) \in {"pending", "running"}
           /\ runner' = [runner EXCEPT !.pc = "exec", !.item = i]
           /\ Reads(Put(i, Entry("running", "none")), journal.reason, journal.billing,
                    journal.status, journal.baselines)
<1> DEFINE i == Min(Remaining)
           entry == [journal.items[i] EXCEPT !.status = "running", !.reason = "none"]
<1>1. journal \in Journal /\ Clean /\ Remaining # {} /\ Remaining \subseteq Nat
  BY ItemsAreNumbers DEF NextItem, At, RunnerInv, RunnerSound, Remaining
<1>2. i \in Items /\ Status(i) \notin Terminal
  BY <1>1, MinIsLeast DEF Remaining
<1>3. /\ journal' = [journal EXCEPT !.items[i].status = "running", !.items[i].reason = "none"]
      /\ runner' = [runner EXCEPT !.pc = "exec", !.item = i]
  BY DEF NextItem, Write
<1> HIDE DEF i
<1>4. journal.items[i] \in Item /\ ItemSound(journal.items[i]) /\ journal.items[i].reason = "none"
  BY <1>1, <1>2, OnRecord DEF Clean
<1>5. Status(i) \in {"pending", "running"}
  BY <1>2, <1>4 DEF Item, WorkStatus, Terminal, Scored, ItemSound, Status
<1>6. entry = Entry("running", "none")
  <2>1. journal.items[i].artifact = None
    BY <1>4, <1>5 DEF ItemSound, Status
  <2>2. entry \in [status : {"running"}, reason : {"none"}, artifact : {None}]
    BY <1>4, <2>1 DEF Item
  <2> HIDE DEF entry
  <2> QED
    BY <2>2, EntryOf
<1>7. journal' = [journal EXCEPT !.items = Put(i, entry)]
  BY <1>1, <1>2, <1>3, Zenon DEF Journal, Item, Put
<1> HIDE DEF entry
<1>8. Reads(Put(i, entry), journal.reason, journal.billing, journal.status, journal.baselines)
  BY <1>1, <1>7, Zenon DEF Journal, Reads
<1> QED
  BY <1>2, <1>3, <1>5, <1>6, <1>8

\* An interruption is entered for the item that was running.
LEMMA InterruptionReads ==
  ASSUME RunnerInv, ExecInterrupted \/ \E batch \in Batches : ResumeRunning(batch)
  PROVE  \E i \in Items :
           /\ Status(i) = "running"
           /\ Reads(Put(i, Entry("interrupted", "process_interruption")), "process_interruption",
                    journal.billing, "interrupted", journal.baselines)
<1>1. PICK i \in Items :
        /\ Status(i) = "running"
        /\ journal' = [journal EXCEPT !.items[i].status = "interrupted",
                                      !.items[i].reason = "process_interruption",
                                      !.reason = "process_interruption", !.status = "interrupted"]
  BY DEF ExecInterrupted, ResumeRunning, With, At, Write, RunnerInv, RunnerSound
<1> DEFINE entry == [journal.items[i] EXCEPT !.status = "interrupted",
                                             !.reason = "process_interruption"]
<1>2. journal \in Journal
  BY ResumeTypes DEF ExecInterrupted, ResumeRunning, At, RunnerInv, RunnerSound
<1>3. entry = Entry("interrupted", "process_interruption")
  <2>1. journal.items[i] \in Item /\ ItemSound(journal.items[i]) /\ journal.items[i].status = "running"
    BY <1>1, <1>2, OnRecord DEF Status
  <2>2. journal.items[i].artifact = None
    BY <2>1 DEF ItemSound
  <2>3. entry \in [status : {"interrupted"}, reason : {"process_interruption"}, artifact : {None}]
    BY <2>1, <2>2 DEF Item
  <2> HIDE DEF entry
  <2> QED
    BY <2>3, EntryOf
<1>4. journal' = [journal EXCEPT !.items = Put(i, entry), !.reason = "process_interruption",
                                 !.status = "interrupted"]
  BY <1>1, <1>2, Zenon DEF Journal, Item, Put
<1> HIDE DEF entry
<1>5. Reads(Put(i, entry), "process_interruption", journal.billing, "interrupted", journal.baselines)
  BY <1>2, <1>4, Zenon DEF Journal, Reads
<1> QED
  BY <1>1, <1>3, <1>5

\* What is linked is the update; a stop is the journal's, a score has its baseline.
LEMMA LinkReads ==
  ASSUME RunnerInv, Link
  PROVE  LET i == runner.item
             update == runner.update
             items == Put(i, update)
         IN  /\ update.reason # "none" =>
                  /\ Reads(items, update.reason, update.reason = "billing_uncertain",
                           DeriveCampaignStatus(Statuses(items), {update.reason} \cup Reasons(items)),
                           journal.baselines)
                  /\ runner'.pc = IF update.reason = "budget" THEN "budget" ELSE "down"
                  /\ update.reason = "budget" => runner'.item = i
             /\ update.reason = "none" =>
                  /\ Reads(items, journal.reason, journal.billing,
                           DeriveCampaignStatus(Statuses(items), Reasons(items)),
                           BaselinesWith(i, update.artifact))
                  /\ runner'.pc \in {"pause", "loop"}
<1> DEFINE i == runner.item
           update == runner.update
           items == Put(i, update)
           linked == [journal EXCEPT !.items = items]
           stop == DeriveCampaignStatus(Statuses(items), {update.reason} \cup Reasons(items))
           go == DeriveCampaignStatus(Statuses(items), Reasons(items))
           billing == (update.reason = "billing_uncertain")
<1>1. journal \in Journal /\ runner \in Runner
  BY DEF Link, At, RunnerInv, RunnerTypes, RunnerSound
<1>2. /\ update.reason # "none" =>
           /\ journal' = Stopped(linked, update.reason)
           /\ runner' = IF update.reason = "budget"
                          THEN [runner EXCEPT !.pc = "budget", !.update = None] ELSE Down
      /\ update.reason = "none" =>
           /\ journal' = [linked EXCEPT !.baselines = BaselinesWith(i, update.artifact), !.status = go]
           /\ \E pc \in {"pause", "loop"} :
                runner' = [runner EXCEPT !.pc = pc, !.left = IF @ > 0 THEN @ - 1 ELSE 0,
                                         !.item = 0, !.update = None]
  BY DEF Link, Write, Put
<1>3. linked.items = items
  BY <1>1 DEF Journal
<1>4. update.reason # "none" =>
        journal' = [linked EXCEPT !.reason = update.reason, !.billing = billing, !.status = stop]
  BY <1>2, <1>3 DEF Stopped
<1> HIDE DEF items, update, stop, go, billing
<1>5. update.reason # "none" => Reads(items, update.reason, billing, stop, journal.baselines)
  BY <1>1, <1>4, Zenon DEF Journal, Reads
<1>6. update.reason = "none" =>
        Reads(items, journal.reason, journal.billing, go, BaselinesWith(i, update.artifact))
  BY <1>1, <1>2, Zenon DEF Journal, Reads
<1>7. update.reason # "none" =>
        /\ runner'.pc = IF update.reason = "budget" THEN "budget" ELSE "down"
        /\ update.reason = "budget" => runner'.item = i
  <2>1. CASE runner' = [runner EXCEPT !.pc = "budget", !.update = None]
    BY <1>1, <1>2, <2>1 DEF Runner, i, Down
  <2>2. CASE runner' = Down
    BY <1>2, <2>2 DEF Down
  <2> QED
    BY <1>2, <2>1, <2>2
<1>8. update.reason = "none" => runner'.pc \in {"pause", "loop"}
  BY <1>1, <1>2 DEF Runner
<1> QED
  BY <1>5, <1>6, <1>7, <1>8 DEF items, update, stop, go, billing

\* The entries after a budget stop: what is left of the schedule is given up.
LEMMA MarkBudgetReads ==
  ASSUME RunnerInv, MarkBudget
  PROVE  \E items :
           /\ Reads(items, "budget", journal.billing, "incomplete_budget", journal.baselines)
           /\ \A k \in Items :
                \/ items[k] = journal.items[k]
                \/ /\ k >= runner.item
                   /\ Status(k) \in {"pending", "running", "interrupted"}
                   /\ items[k].status = "not_run_budget" /\ items[k].reason = "budget"
<1> DEFINE i == runner.item
           skipped(k) == [journal.items[k] EXCEPT !.status = "not_run_budget", !.reason = "budget"]
           skip(k) == k >= i /\ journal.items[k].status \in {"pending", "running", "interrupted"}
           items == [k \in Items |-> IF skip(k) THEN skipped(k) ELSE journal.items[k]]
<1>1. journal \in Journal
  BY DEF MarkBudget, At, RunnerInv, RunnerSound
<1>2. journal' = [journal EXCEPT !.items = items, !.reason = "budget", !.status = "incomplete_budget"]
  <2>1. journal.items \in [Items -> Item]
    BY <1>1, OnRecord
  <2> QED
    BY <1>1, <2>1, Zenon DEF MarkBudget, Write, Journal
<1>3. ASSUME NEW k \in Items PROVE skipped(k).status = "not_run_budget" /\ skipped(k).reason = "budget"
  BY <1>1, OnRecord DEF Item
<1> HIDE DEF skipped
<1>4. \A k \in Items :
        \/ items[k] = journal.items[k]
        \/ /\ skip(k) /\ items[k].status = "not_run_budget" /\ items[k].reason = "budget"
  BY <1>3
<1> HIDE DEF items
<1>5. Reads(items, "budget", journal.billing, "incomplete_budget", journal.baselines)
  BY <1>1, <1>2, Zenon DEF Journal, Reads
<1> QED
  BY <1>4, <1>5 DEF Status

\* An audit that finds no open call gives the item back.
LEMMA AuditReads ==
  ASSUME RunnerInv, AuditDone
  PROVE  \/ UNCHANGED journal
         \/ /\ Reads(Put(runner.item, Entry("pending", "none")), "none", journal.billing, "running",
                     journal.baselines)
            /\ RowsIn(runner.item, Unknown) = {}
<1> DEFINE i == runner.item
           entry == [journal.items[i] EXCEPT !.status = "pending", !.reason = "none"]
           requeued == [journal EXCEPT !.items[i].status = "pending", !.items[i].reason = "none",
                                       !.reason = "none", !.status = "running"]
<1>1. journal \in Journal /\ i \in Items /\ Status(i) = "interrupted"
  BY DEF AuditDone, At, RunnerInv, RunnerSound
<1>2. \/ UNCHANGED journal
      \/ journal' = requeued /\ RowsIn(i, Unknown) = {}
  BY DEF AuditDone, Write
<1>3. requeued = [journal EXCEPT !.items = Put(i, entry), !.reason = "none", !.status = "running"]
  BY <1>1, Zenon DEF Journal, Item, Put
<1>4. entry = Entry("pending", "none")
  <2>1. journal.items[i] \in Item /\ ItemSound(journal.items[i]) /\ journal.items[i].status = "interrupted"
    BY <1>1, OnRecord DEF Status
  <2>2. journal.items[i].artifact = None
    BY <2>1 DEF ItemSound
  <2>3. entry \in [status : {"pending"}, reason : {"none"}, artifact : {None}]
    BY <2>1, <2>2 DEF Item
  <2> HIDE DEF entry
  <2> QED
    BY <2>3, EntryOf
<1> HIDE DEF entry, requeued
<1>5. journal' = requeued => Reads(Put(i, entry), "none", journal.billing, "running", journal.baselines)
  BY <1>1, <1>3, Zenon DEF Journal, Reads
<1> QED
  BY <1>2, <1>4, <1>5

\* A resume writes the stop again, or that the pause is over.
LEMMA ResumeReads ==
  ASSUME RunnerInv
  PROVE  /\ ResumeStopped =>
              Reads(journal.items, PersistedReason, PersistedReason = "billing_uncertain",
                    DeriveCampaignStatus(Statuses(journal.items),
                                         {PersistedReason} \cup Reasons(journal.items)),
                    journal.baselines)
         /\ (\E batch \in Batches : ResumePaused(batch)) =>
              Reads(journal.items, "none", journal.billing, "running", journal.baselines)
<1>1. Resume => journal \in Journal
  BY ResumeTypes
<1> DEFINE status == DeriveCampaignStatus(Statuses(journal.items),
                                          {PersistedReason} \cup Reasons(journal.items))
           billing == (PersistedReason = "billing_uncertain")
<1>2. ASSUME ResumeStopped
      PROVE  Reads(journal.items, PersistedReason, billing, status, journal.baselines)
  <2>1. /\ journal \in Journal
        /\ journal' = [journal EXCEPT !.reason = PersistedReason, !.billing = billing, !.status = status]
    BY <1>1, <1>2 DEF ResumeStopped, Write, Stopped
  <2> HIDE DEF status, billing
  <2> QED
    BY <2>1, Zenon DEF Journal, Reads
<1>3. ASSUME NEW batch \in Batches, ResumePaused(batch)
      PROVE  Reads(journal.items, "none", journal.billing, "running", journal.baselines)
  <2>1. journal \in Journal /\ journal' = [journal EXCEPT !.reason = "none", !.status = "running"]
    BY <1>1, <1>3 DEF ResumePaused, Write
  <2> QED
    BY <2>1, Zenon DEF Journal, Reads
<1> QED
  BY <1>2, <1>3

\* A recovery gives back the items it found authorized.
LEMMA RecoverReads ==
  ASSUME RunnerInv, NEW batch \in Batches, Recover(batch)
  PROVE  \E items :
           /\ Reads(items, "none", FALSE, "running", journal.baselines)
           /\ \A k \in Items :
                \/ items[k] = journal.items[k] /\ journal.items[k].reason \notin Recoverable
                \/ items[k] = Entry("pending", "none") /\ Authorized(k)
<1> DEFINE stopped == {i \in Items : journal.items[i].reason \in Recoverable}
           items == [i \in Items |-> IF i \in stopped THEN Entry("pending", "none") ELSE journal.items[i]]
<1>1. journal \in Journal
  BY DEF Recover, RunnerInv, RunnerTypes
<1>2. journal' = [journal EXCEPT !.items = items, !.reason = "none", !.billing = FALSE,
                                 !.status = "running"]
      /\ \A i \in stopped : Authorized(i)
  <2>1. journal.items \in [Items -> Item]
    BY <1>1, OnRecord
  <2> QED
    BY <2>1, Zenon DEF Recover, Write, Entry
<1>3. \A k \in Items :
        \/ items[k] = journal.items[k] /\ journal.items[k].reason \notin Recoverable
        \/ items[k] = Entry("pending", "none") /\ Authorized(k)
  BY <1>2
<1> HIDE DEF items
<1>4. Reads(items, "none", FALSE, "running", journal.baselines)
  BY <1>1, <1>2, Zenon DEF Journal, Reads
<1> QED
  BY <1>3, <1>4

\* Every other step leaves the journal as it is.
LEMMA OthersRead ==
  ASSUME [Next]_vars, ~UNCHANGED journal
  PROVE  \/ CreateJournal \/ Begin \/ NextItem \/ Finish \/ Link \/ Pause \/ MarkBudget \/ AuditDone
         \/ ExecInterrupted \/ ResumeStopped
         \/ \E batch \in Batches : Recover(batch) \/ ResumeRunning(batch) \/ ResumePaused(batch)
<1>1. ASSUME Executor PROVE FALSE
  BY <1>1 DEF Executor, ExecReserve, ExecHandOver, ExecAnswer, ExecTransportFails, ExecFails,
              ExecReturns, diskVars
<1>2. ASSUME NEW c \in CallIds, AuditCall(c) \/ OperatorAuthorizes(c) PROVE FALSE
  BY <1>2 DEF AuditCall, OperatorAuthorizes, diskVars
<1>3. ASSUME StopItem \/ Crash \/ UNCHANGED vars PROVE FALSE
  BY <1>3 DEF StopItem, Crash, diskVars, vars
<1>4. ASSUME NEW batch \in Batches, Run(batch) \/ ResumeInterrupted(batch) \/ ResumeIdle(batch)
      PROVE  FALSE
  BY <1>4 DEF Run, ResumeInterrupted, ResumeIdle
<1> QED
  BY <1>1, <1>2, <1>3, <1>4 DEF Next, Loop, Invocation

(***************************************************************************)
(* The stop on record.                                                     *)
(***************************************************************************)

\* A stop that needs an operator is the journal's, with its status.
StopKept ==
  \/ Resumable
  \/ journal.reason = PersistedReason /\ journal.status = StopStatus[journal.reason]

\* A campaign is called complete when every item is scored.
CompleteIsScored == journal.status = "complete" => \A k \in Items : Status(k) \in Scored

\* What the journal says of its stop.
StopRecorded ==
  journal \in Journal =>
    /\ journal.billing <=> journal.reason = "billing_uncertain"
    /\ StopKept /\ CompleteIsScored

\* The stop reason on record at each step of the loop.
ReasonInHand ==
  /\ runner.pc \in {"begin", "loop", "exec", "hand", "stop", "pause"} => journal.reason = "none"
  /\ runner.pc = "audit" => journal.reason = "process_interruption"
  /\ runner.pc = "link" /\ runner.update.status \in Scored => journal.reason = "none"
  /\ runner.pc = "budget" => journal.reason \in {"none", "budget"}

\* Reasons that need no operator make a campaign resumable.
LEMMA MildReasons ==
  ASSUME NEW R, R \cap StopReason \subseteq {"process_interruption", "user_paused"}
  PROVE  HighestStopReason(R) \in {"none", "process_interruption", "user_paused"}
BY HighestIsAReason

\* A reason alone is the highest.
LEMMA OneReason ==
  ASSUME NEW R, NEW r \in StopReason, R \cap StopReason = {r}
  PROVE  HighestStopReason(R) = r
BY HighestIsAReason

\* No stop has the status of a complete campaign, and a derived one has it only
\* when all is scored.
LEMMA DerivedStatus ==
  ASSUME NEW items, NEW reasons, DeriveCampaignStatus(Statuses(items), reasons) = "complete"
  PROVE  \A k \in Items : items[k].status \in Scored
<1>1. \A r \in StopReason : StopStatus[r] # "complete"
  BY TheReasons DEF StopStatus
<1>2. HighestStopReason(reasons) \in StopReason \cup {"none"}
  BY HighestIsAReason
<1>3. Statuses(items) \subseteq Scored
  BY <1>1, <1>2 DEF DeriveCampaignStatus
<1> QED
  BY <1>3 DEF Statuses

\* A journal whose reasons need no operator is resumable.
LEMMA ResumableRead ==
  ASSUME NEW items, NEW reason \in {"none", "process_interruption", "user_paused"},
         \A k \in Items : items[k].reason \in {"none", "process_interruption"},
         journal'.items = items, journal'.reason = reason
  PROVE  Resumable'
<1> DEFINE R == {reason} \cup Reasons(items)
<1>1. R \subseteq {"none", "process_interruption", "user_paused"}
  BY DEF Reasons
<1>2. "none" \notin StopReason
  BY TheReasons
<1> HIDE DEF R
<1>3. R \cap StopReason \subseteq {"process_interruption", "user_paused"}
  BY <1>1, <1>2
<1>4. HighestStopReason(R) \in {"none", "process_interruption", "user_paused"}
  BY <1>3, MildReasons
<1>5. PersistedReason' = HighestStopReason(R)
  BY DEF PersistedReason, Reasons, R
<1> QED
  BY <1>4, <1>5 DEF Resumable

\* A stop written with the reason its items carry is kept.
LEMMA StopRead ==
  ASSUME NEW items, NEW reason \in StopReason,
         \A k \in Items : items[k].reason \in {"none", reason},
         journal'.items = items, journal'.reason = reason,
         journal'.status \in {StopStatus[reason],
                              DeriveCampaignStatus(Statuses(items), {reason} \cup Reasons(items))}
  PROVE  StopKept'
<1> DEFINE R == {reason} \cup Reasons(items)
<1>1. R \subseteq {"none", reason} /\ reason \in R
  BY DEF Reasons
<1>2. "none" \notin StopReason
  BY TheReasons
<1> HIDE DEF R
<1>3. R \cap StopReason = {reason}
  BY <1>1, <1>2
<1>4. HighestStopReason(R) = reason
  BY <1>3, OneReason
<1>5. PersistedReason' = HighestStopReason(R)
  BY DEF PersistedReason, Reasons, R
<1>6. DeriveCampaignStatus(Statuses(items), R) = StopStatus[reason]
  BY <1>2, <1>4 DEF DeriveCampaignStatus
<1> QED
  BY <1>4, <1>5, <1>6 DEF StopKept, R

\* The reasons of the items in a journal, while the runner is at work.
LEMMA ReasonsInHand ==
  ASSUME RunnerInv
  PROVE  /\ runner.pc \in {"begin", "loop", "exec", "pause"} =>
              journal \in Journal /\ \A k \in Items : journal.items[k].reason = "none"
         /\ runner.pc \in {"link", "audit", "budget"} =>
              /\ journal \in Journal /\ runner.item \in Items
              /\ \A k \in Items : k # runner.item => journal.items[k].reason = "none"
BY DEF RunnerInv, RunnerSound, Clean, OthersClean

\* While nothing is left that needs an operator, no item has a reason of its own.
LEMMA PausedReasons ==
  ASSUME RunnerInv, journal \in Journal, Resumable, journal.reason # "process_interruption"
  PROVE  \A k \in Items : journal.items[k].reason = "none"
BY OnRecord, ResumableReasons DEF ReasonAlone

\* A new entry replaces one entry.
LEMMA PutReads ==
  ASSUME journal.items \in [Items -> Item], NEW i \in Items, NEW item
  PROVE  Put(i, item)[i] = item /\ \A k \in Items : k # i => Put(i, item)[k] = journal.items[k]
BY DEF Put

\* Every step records its stop, in the loop.
LEMMA LoopStops ==
  ASSUME RunnerInv, StopRecorded, ReasonInHand, CreateJournal \/ Begin \/ Finish \/ Pause \/ NextItem
  PROVE  StopRecorded'
<1>1. ASSUME journal'.billing = FALSE, journal'.reason \in {"none", "user_paused"},
             \A k \in Items : journal'.items[k].reason = "none", CompleteIsScored'
      PROVE  StopRecorded'
  BY <1>1, ResumableRead DEF StopRecorded, StopKept
<1>2. CASE CreateJournal
  <2>1. \A k \in Items : journal'.items[k].reason = "none"
    BY <1>2, LoopReads DEF Reads, Entry
  <2>2. journal'.billing = FALSE /\ journal'.reason = "none" /\ journal'.status = "planned"
    BY <1>2, LoopReads DEF Reads
  <2> QED
    BY <1>1, <2>1, <2>2 DEF CompleteIsScored
<1>3. ASSUME runner.pc \in {"begin", "loop", "pause"}
      PROVE  /\ journal \in Journal /\ \A k \in Items : journal.items[k].reason = "none"
             /\ journal.reason = "none" /\ journal.billing = FALSE /\ CompleteIsScored
  <2>1. journal \in Journal /\ journal.reason = "none" /\ \A k \in Items : journal.items[k].reason = "none"
    BY <1>3, ReasonsInHand DEF ReasonInHand
  <2>2. journal.billing \in BOOLEAN
    BY <2>1 DEF Journal
  <2> QED
    BY <2>1, <2>2 DEF StopRecorded
<1>4. CASE Begin \/ Pause
  <2>1. /\ journal'.items = journal.items /\ journal'.billing = journal.billing
        /\ journal'.reason \in {journal.reason, "user_paused"} /\ journal'.status \in {"running", "paused"}
    BY <1>4, LoopReads DEF Reads
  <2>2. CompleteIsScored'
    BY <2>1 DEF CompleteIsScored
  <2> QED
    BY <1>1, <1>3, <1>4, <2>1, <2>2 DEF Begin, Pause, At
<1>5. CASE Finish
  <2>1. /\ journal'.items = journal.items /\ journal'.billing = journal.billing
        /\ journal'.reason = journal.reason
        /\ journal'.status = DeriveCampaignStatus(Statuses(journal.items), Reasons(journal.items))
    BY <1>5, LoopReads DEF Reads
  <2>2. CompleteIsScored'
    BY <2>1, DerivedStatus DEF CompleteIsScored, Status
  <2> QED
    BY <1>1, <1>3, <1>5, <2>1, <2>2 DEF Finish, At
<1>6. CASE NextItem
  <2> DEFINE entry == Entry("running", "none")
  <2>1. PICK i \in Items :
          /\ Status(i) \in {"pending", "running"}
          /\ Reads(Put(i, entry), journal.reason, journal.billing, journal.status, journal.baselines)
    BY <1>6, NextItemReads
  <2>2. /\ journal \in Journal /\ \A k \in Items : journal.items[k].reason = "none"
        /\ journal.reason = "none" /\ journal.billing = FALSE /\ CompleteIsScored
    BY <1>3, <1>6 DEF NextItem, At
  <2>3. entry.reason = "none"
    BY DEF Entry
  <2> HIDE DEF entry
  <2>4. \A k \in Items : journal'.items[k].reason = "none"
    BY <2>1, <2>2, <2>3, OnRecord, PutReads DEF Reads
  <2>5. journal.status # "complete"
    BY <2>1, <2>2 DEF CompleteIsScored, Scored
  <2>6. CompleteIsScored'
    BY <2>1, <2>5 DEF CompleteIsScored, Reads
  <2> QED
    BY <1>1, <2>1, <2>2, <2>4, <2>6 DEF Reads
<1> QED
  BY <1>2, <1>4, <1>5, <1>6

\* A result is linked without a stop, a stop with its reason, and a budget stop
\* is recorded with the rest of the schedule.
LEMMA LinkStops ==
  ASSUME RunnerInv, StopRecorded, ReasonInHand, Link \/ MarkBudget
  PROVE  StopRecorded'
<1>1. CASE Link
  <2> DEFINE i == runner.item
             update == runner.update
             items == Put(i, update)
  <2>1. /\ journal \in Journal /\ journal.items \in [Items -> Item] /\ i \in Items
        /\ \A k \in Items : k # i => journal.items[k].reason = "none"
    BY <1>1, ReasonsInHand, OnRecord DEF Link, At
  <2>2. ItemSound(update) /\ update \in Item /\ update.status \in Scored \cup {"stopped"}
    BY <1>1 DEF Link, At, RunnerInv, RunnerSound
  <2>3. items[i] = update /\ \A k \in Items : k # i => items[k] = journal.items[k]
    BY <2>1, PutReads
  <2>4. \A k \in Items : items[k].reason \in {"none", update.reason}
    BY <2>1, <2>3
  <2>5. /\ update.reason # "none" =>
             Reads(items, update.reason, update.reason = "billing_uncertain",
                   DeriveCampaignStatus(Statuses(items), {update.reason} \cup Reasons(items)),
                   journal.baselines)
        /\ update.reason = "none" =>
             Reads(items, journal.reason, journal.billing,
                   DeriveCampaignStatus(Statuses(items), Reasons(items)),
                   BaselinesWith(i, update.artifact))
    BY <1>1, LinkReads
  <2>6. update.reason = "none" => journal.reason = "none"
    <3>1. update.reason = "none" => update.status \in Scored
      BY <2>2 DEF ItemSound
    <3> QED
      BY <1>1, <3>1 DEF ReasonInHand, Link, At
  <2> HIDE DEF i, update, items
  <2>7. CompleteIsScored'
    BY <2>5, DerivedStatus DEF CompleteIsScored, Status, Reads
  <2>8. CASE update.reason # "none"
    <3>1. update.reason \in StopReason
      BY <2>2, <2>8 DEF Item
    <3>2. StopKept'
      BY <2>4, <2>5, <2>8, <3>1, StopRead DEF Reads
    <3>3. journal'.billing <=> journal'.reason = "billing_uncertain"
      BY <2>5, <2>8, Zenon DEF Reads
    <3> QED
      BY <2>7, <3>2, <3>3 DEF StopRecorded
  <2>9. CASE update.reason = "none"
    <3>1. Resumable'
      BY <2>4, <2>5, <2>6, <2>9, ResumableRead DEF Reads
    <3>2. journal'.billing <=> journal'.reason = "billing_uncertain"
      BY <2>1, <2>5, <2>9, Zenon DEF Reads, StopRecorded
    <3> QED
      BY <2>7, <3>1, <3>2 DEF StopRecorded, StopKept
  <2> QED
    BY <2>8, <2>9
<1>2. CASE MarkBudget
  <2>1. PICK items :
          /\ Reads(items, "budget", journal.billing, "incomplete_budget", journal.baselines)
          /\ \A k \in Items : items[k] = journal.items[k] \/ items[k].reason = "budget"
    BY <1>2, MarkBudgetReads
  <2>2. /\ journal \in Journal /\ journal.reason \in {"none", "budget"}
        /\ \A k \in Items : journal.items[k].reason \in {"none", "budget"}
    BY <1>2, ReasonsInHand DEF MarkBudget, At, ReasonInHand, RunnerInv, RunnerSound
  <2>3. "budget" \in StopReason /\ StopStatus["budget"] = "incomplete_budget"
    BY TheReasons DEF StopStatus
  <2>4. StopKept'
    <3>1. \A k \in Items : items[k].reason \in {"none", "budget"}
      BY <2>1, <2>2
    <3>2. journal'.items = items /\ journal'.reason = "budget" /\ journal'.status = StopStatus["budget"]
      BY <2>1, <2>3 DEF Reads
    <3> QED
      BY <2>3, <3>1, <3>2, StopRead
  <2>5. CompleteIsScored'
    BY <2>1 DEF CompleteIsScored, Reads
  <2>6. journal'.billing <=> journal'.reason = "billing_uncertain"
    BY <2>1, <2>2 DEF Reads, StopRecorded
  <2> QED
    BY <2>4, <2>5, <2>6 DEF StopRecorded
<1> QED
  BY <1>1, <1>2

\* What an interruption, an audit or an invocation records is resumable, unless
\* it is the stop there was.
LEMMA ResumeStops ==
  ASSUME RunnerInv, StopRecorded, ReasonInHand,
         \/ AuditDone \/ ExecInterrupted \/ ResumeStopped
         \/ \E batch \in Batches : Recover(batch) \/ ResumeRunning(batch) \/ ResumePaused(batch)
  PROVE  StopRecorded'
<1>1. ASSUME journal'.billing = FALSE, journal'.reason \in {"none", "process_interruption"},
             \A k \in Items : journal'.items[k].reason \in {"none", "process_interruption"},
             journal'.status \in {"running", "interrupted"}
      PROVE  StopRecorded'
  <2>1. CompleteIsScored'
    BY <1>1 DEF CompleteIsScored
  <2>2. Resumable'
    BY <1>1, ResumableRead
  <2> QED
    BY <1>1, <2>1, <2>2 DEF StopRecorded, StopKept
<1>2. ASSUME journal \in Journal, journal.reason # "billing_uncertain" PROVE journal.billing = FALSE
  BY <1>2 DEF StopRecorded, Journal
<1>3. CASE AuditDone
  <2> DEFINE entry == Entry("pending", "none")
  <2>1. /\ journal \in Journal /\ journal.items \in [Items -> Item] /\ runner.item \in Items
        /\ \A k \in Items : k # runner.item => journal.items[k].reason = "none"
        /\ journal.reason = "process_interruption"
    BY <1>3, ReasonsInHand, OnRecord DEF AuditDone, At, ReasonInHand
  <2>2. \/ UNCHANGED journal
        \/ Reads(Put(runner.item, entry), "none", journal.billing, "running", journal.baselines)
    BY <1>3, AuditReads
  <2>3. entry.reason = "none"
    BY DEF Entry
  <2> HIDE DEF entry
  <2>4. CASE UNCHANGED journal
    BY <2>4 DEF StopRecorded, StopKept, CompleteIsScored, Resumable, PersistedReason, Status
  <2>5. CASE Reads(Put(runner.item, entry), "none", journal.billing, "running", journal.baselines)
    <3>1. \A k \in Items : journal'.items[k].reason = "none"
      BY <2>1, <2>3, <2>5, PutReads DEF Reads
    <3> QED
      BY <1>1, <1>2, <2>1, <2>5, <3>1 DEF Reads
  <2> QED
    BY <2>2, <2>4, <2>5
<1>4. CASE ExecInterrupted \/ \E batch \in Batches : ResumeRunning(batch)
  <2> DEFINE entry == Entry("interrupted", "process_interruption")
  <2>1. PICK i \in Items :
          Reads(Put(i, entry), "process_interruption", journal.billing, "interrupted", journal.baselines)
    BY <1>4, InterruptionReads
  <2>2. /\ journal \in Journal /\ journal.items \in [Items -> Item]
        /\ \A k \in Items : journal.items[k].reason \in {"none", "process_interruption"}
        /\ journal.reason # "billing_uncertain"
    <3>1. CASE ExecInterrupted
      BY <3>1, ReasonsInHand, OnRecord DEF ExecInterrupted, At, ReasonInHand
    <3>2. ASSUME NEW batch \in Batches, ResumeRunning(batch)
          PROVE  /\ journal \in Journal /\ journal.items \in [Items -> Item]
                 /\ \A k \in Items : journal.items[k].reason \in {"none", "process_interruption"}
                 /\ journal.reason # "billing_uncertain"
      <4>1. journal \in Journal /\ Resumable
        BY <3>2, ResumeTypes DEF ResumeRunning
      <4>2. journal.reason # "billing_uncertain"
        BY <4>1, HighestIsHighest DEF Resumable, PersistedReason
      <4> QED
        BY <4>1, <4>2, OnRecord, ResumableReasons
    <3> QED
      BY <1>4, <3>1, <3>2
  <2>3. entry.reason = "process_interruption"
    BY DEF Entry
  <2> HIDE DEF entry
  <2>4. \A k \in Items : journal'.items[k].reason \in {"none", "process_interruption"}
    BY <2>1, <2>2, <2>3, PutReads DEF Reads
  <2> QED
    BY <1>1, <1>2, <2>1, <2>2, <2>4 DEF Reads
<1>5. CASE ResumeStopped
  <2>1. journal \in Journal /\ ~Resumable
    BY <1>5, ResumeTypes DEF ResumeStopped
  <2>2. journal.reason = PersistedReason /\ journal.status = StopStatus[journal.reason]
    BY <2>1 DEF StopRecorded, StopKept
  <2>3. journal.reason \in StopReason
    BY <2>1, <2>2, OnRecord DEF Resumable
  <2> DEFINE R == {journal.reason} \cup Reasons(journal.items)
             status == DeriveCampaignStatus(Statuses(journal.items), R)
             billing == (journal.reason = "billing_uncertain")
  <2>4. HighestStopReason(R) = journal.reason
    BY <2>2 DEF PersistedReason
  <2>5. status = StopStatus[journal.reason]
    <3>1. journal.reason # "none"
      BY <2>1, <2>2 DEF Resumable
    <3> HIDE DEF R
    <3> QED
      BY <2>4, <3>1 DEF DeriveCampaignStatus
  <2>6. Reads(journal.items, journal.reason, billing, status, journal.baselines)
    BY <1>5, <2>2, ResumeReads
  <2> HIDE DEF status, billing
  <2>7. /\ journal'.items = journal.items /\ journal'.reason = journal.reason
        /\ journal'.status = journal.status /\ journal'.billing = billing
    BY <2>2, <2>5, <2>6 DEF Reads
  <2>8. StopKept' /\ CompleteIsScored'
    BY <2>1, <2>2, <2>7 DEF StopRecorded, StopKept, CompleteIsScored, PersistedReason, Status
  <2> QED
    BY <2>7, <2>8 DEF StopRecorded, billing
<1>6. ASSUME NEW batch \in Batches, Recover(batch) PROVE StopRecorded'
  <2>1. PICK items :
          /\ Reads(items, "none", FALSE, "running", journal.baselines)
          /\ \A k \in Items :
               \/ items[k] = journal.items[k] /\ journal.items[k].reason \notin Recoverable
               \/ items[k] = Entry("pending", "none")
    BY <1>6, RecoverReads
  <2>2. journal \in Journal
    BY <1>6 DEF Recover, RunnerInv, RunnerTypes
  <2>3. Entry("pending", "none").reason = "none"
    BY DEF Entry
  <2>4. \A k \in Items : items[k].reason = "none"
    <3>1. PICK i \in Items : journal.items[i].reason \in Recoverable
      BY <1>6, Zenon DEF Recover
    <3>2. \A k \in Items : k # i => journal.items[k].reason = "none"
      BY <2>2, <3>1, OnRecord DEF ReasonAlone, Recoverable
    <3> QED
      BY <2>1, <2>3, <3>1, <3>2
  <2> QED
    BY <1>1, <2>1, <2>4 DEF Reads
<1>7. ASSUME NEW batch \in Batches, ResumePaused(batch) PROVE StopRecorded'
  <2>1. /\ journal \in Journal /\ Resumable /\ journal.reason = "user_paused"
        /\ Reads(journal.items, "none", journal.billing, "running", journal.baselines)
    BY <1>7, ResumeTypes, ResumeReads DEF ResumePaused
  <2>2. \A k \in Items : journal.items[k].reason = "none"
    BY <2>1, PausedReasons
  <2> QED
    BY <1>1, <1>2, <2>1, <2>2 DEF Reads
<1> QED
  BY <1>3, <1>4, <1>5, <1>6, <1>7

\* Going on leads to the begin of a loop, or ends the process.
LEMMA GoesOn ==
  ASSUME NEW items, NEW batch, Continue(items, batch)
  PROVE  runner'.pc \in {"begin", "down"}
BY DEF Continue, Down

\* The reason on record at each step of the loop stays known.
LEMMA ReasonInHandStep ==
  RunnerInv /\ ReasonInHand /\ [Next]_vars => ReasonInHand'
<1> SUFFICES ASSUME RunnerInv, ReasonInHand, [Next]_vars PROVE ReasonInHand'
  OBVIOUS
<1>1. runner \in Runner
  BY DEF RunnerInv, RunnerTypes
<1>2. ASSUME runner'.pc = "down" PROVE ReasonInHand'
  BY <1>2 DEF ReasonInHand
<1>3. ASSUME runner'.pc \in {"begin", "loop", "exec", "hand", "stop", "pause", "link", "budget", "down"},
             journal'.reason = "none"
      PROVE  ReasonInHand'
  BY <1>3 DEF ReasonInHand
<1>4. CASE Executor
  <2>1. runner.pc \in {"exec", "hand"} /\ journal' = journal
    BY <1>4 DEF Executor, ExecReserve, ExecHandOver, ExecAnswer, ExecTransportFails, ExecFails,
                ExecReturns, At, diskVars
  <2>2. journal'.reason = "none"
    BY <2>1 DEF ReasonInHand
  <2>3. ASSUME NEW reason, StopWith(reason) PROVE runner'.pc = "stop"
    BY <1>1, <2>3 DEF StopWith, Runner
  <2>4. ASSUME NEW t \in Tasks, ExecReserve(t) PROVE runner'.pc \in {"hand", "stop"}
    <3>1. StopWith("budget") \/ \E c : runner' = [runner EXCEPT !.pc = "hand", !.call = c]
      BY <2>4 DEF ExecReserve
    <3> QED
      BY <1>1, <2>3, <3>1 DEF Runner
  <2>5. ASSUME NEW c \in CallIds, ExecAnswer(c) \/ ExecTransportFails(c)
        PROVE  runner'.pc \in {"exec", "stop"}
    <3>1. \/ At("exec") /\ UNCHANGED runner
          \/ StopWith("budget") \/ StopWith("usage_missing") \/ StopWith("billing_uncertain")
      BY <2>5 DEF ExecAnswer, ExecTransportFails
    <3> QED
      BY <2>3, <3>1 DEF At
  <2>6. ASSUME NEW result \in Scored, NEW drift \in BOOLEAN, ExecReturns(result, drift)
        PROVE  runner'.pc = "link"
    BY <1>1, <2>6 DEF ExecReturns, Persist, Runner
  <2>7. ExecHandOver => runner'.pc = "exec"
    BY <1>1 DEF ExecHandOver, Runner
  <2>8. ExecFails => runner'.pc = "stop"
    BY <2>3 DEF ExecFails
  <2>9. runner'.pc \in {"exec", "hand", "stop", "link"}
    BY <1>4, <2>4, <2>5, <2>6, <2>7, <2>8 DEF Executor
  <2> QED
    BY <1>3, <2>2, <2>9
<1>5. CASE CreateJournal \/ Begin \/ NextItem
  <2>1. runner'.pc \in {"begin", "loop", "exec"}
    BY <1>1, <1>5 DEF CreateJournal, Begin, NextItem, Goto, Runner
  <2>2. journal'.reason = "none"
    BY <1>5, LoopReads, NextItemReads DEF Reads, ReasonInHand, CreateJournal, Begin, NextItem, At
  <2> QED
    BY <1>3, <2>1, <2>2
<1>6. CASE Finish \/ Pause \/ MarkBudget \/ ExecInterrupted \/ Crash
  BY <1>2, <1>6 DEF Finish, Pause, MarkBudget, ExecInterrupted, Crash, Down
<1>7. CASE StopItem
  <2>1. journal'.reason = "none"
    BY <1>7 DEF StopItem, At, ReasonInHand
  <2>2. runner'.pc \in {"link", "budget"}
    <3>1. runner' = [runner EXCEPT !.pc = "budget"]
          \/ \E update : runner' = [runner EXCEPT !.pc = "link", !.item = runner.item, !.update = update]
      BY <1>7 DEF StopItem, Goto, Persist
    <3> QED
      BY <1>1, <3>1 DEF Runner
  <2> QED
    BY <1>3, <2>1, <2>2
<1>8. CASE Link
  <2>1. CASE runner.update.reason = "none"
    <3>1. runner.update.status \in Scored
      BY <1>8, <2>1 DEF Link, At, RunnerInv, RunnerSound, ItemSound
    <3>2. journal'.reason = "none" /\ runner'.pc \in {"pause", "loop"}
      BY <1>8, <2>1, <3>1, LinkReads DEF Reads, ReasonInHand, Link, At
    <3> QED
      BY <1>3, <3>2
  <2>2. CASE runner.update.reason # "none"
    <3>1. /\ journal'.reason = runner.update.reason
          /\ runner'.pc = IF runner.update.reason = "budget" THEN "budget" ELSE "down"
      BY <1>8, <2>2, LinkReads DEF Reads
    <3> QED
      BY <1>2, <3>1 DEF ReasonInHand
  <2> QED
    BY <2>1, <2>2
<1>9. CASE AuditDone
  <2>1. CASE UNCHANGED journal
    <3>1. \/ \E reason \in {"billing_uncertain", "usage_missing"} :
               Persist(runner.item, Diagnostic(runner.item), "stopped", reason)
          \/ \E items : Continue(items, runner.left) /\ journal'.reason = "none"
      <4> DEFINE requeued == [journal EXCEPT !.items[runner.item].status = "pending",
                                             !.items[runner.item].reason = "none",
                                             !.reason = "none", !.status = "running"]
      <4>1. journal \in Journal
        BY <1>9 DEF AuditDone, At, RunnerInv, RunnerSound
      <4>2. requeued.reason = "none"
        BY <4>1 DEF Journal
      <4>3. \/ \E reason \in {"billing_uncertain", "usage_missing"} :
                 Persist(runner.item, Diagnostic(runner.item), "stopped", reason)
            \/ Continue(requeued.items, runner.left) /\ journal' = requeued
        BY <1>9 DEF AuditDone, Write
      <4> HIDE DEF requeued
      <4> QED
        BY <4>2, <4>3
    <3>2. ASSUME NEW items, Continue(items, runner.left), journal'.reason = "none" PROVE ReasonInHand'
      BY <1>3, <3>2, GoesOn
    <3>3. ASSUME NEW reason, Persist(runner.item, Diagnostic(runner.item), "stopped", reason)
          PROVE  ReasonInHand'
      <4>1. runner'.pc = "link" /\ runner'.update.status = "stopped"
        BY <1>1, <3>3, StopIsPersisted
      <4> QED
        BY <4>1 DEF ReasonInHand, Scored
    <3> QED
      BY <3>1, <3>2, <3>3
  <2>2. CASE ~UNCHANGED journal
    <3>1. journal'.reason = "none"
      BY <1>9, <2>2, AuditReads DEF Reads
    <3>2. \E items : Continue(items, runner.left)
      BY <1>9, <2>2 DEF AuditDone
    <3> QED
      BY <1>3, <3>1, <3>2, GoesOn
  <2> QED
    BY <2>1, <2>2
<1>10. CASE (\E c \in CallIds : AuditCall(c) \/ OperatorAuthorizes(c)) \/ UNCHANGED vars
  BY <1>10 DEF AuditCall, OperatorAuthorizes, diskVars, vars, ReasonInHand
<1>11. ASSUME NEW batch \in Batches, Run(batch) PROVE ReasonInHand'
  <2>1. runner'.pc = "create"
    BY <1>11 DEF Run, Down
  <2> QED
    BY <2>1 DEF ReasonInHand
<1>12. ASSUME NEW batch \in Batches, Recover(batch) PROVE ReasonInHand'
  <2>1. journal'.reason = "none"
    BY <1>12, RecoverReads DEF Reads
  <2>2. \E items : Continue(items, batch)
    BY <1>12, Zenon DEF Recover
  <2> QED
    BY <1>3, <2>1, <2>2, GoesOn
<1>13. ASSUME NEW batch \in Batches, ResumePaused(batch) \/ ResumeIdle(batch) PROVE ReasonInHand'
  <2>1. journal'.reason = "none"
    <3>1. CASE ResumePaused(batch)
      BY <3>1, ResumeReads DEF Reads
    <3>2. CASE ResumeIdle(batch)
      <4> DEFINE R == {journal.reason} \cup Reasons(journal.items)
      <4>1. journal \in Journal /\ journal' = journal /\ HighestStopReason(R) = "none"
        BY <3>2, ResumeTypes DEF ResumeIdle, PersistedReason
      <4>2. "none" \notin StopReason
        BY TheReasons
      <4>3. R \cap StopReason = {}
        BY <4>1, <4>2, HighestIsAReason
      <4> QED
        BY <4>1, <4>3, OnRecord
    <3> QED
      BY <1>13, <3>1, <3>2
  <2>2. Continue(journal.items, batch)
    BY <1>13 DEF ResumePaused, ResumeIdle
  <2> QED
    BY <1>3, <2>1, <2>2, GoesOn
<1>14. ASSUME NEW batch \in Batches, ResumeRunning(batch) \/ ResumeInterrupted(batch) PROVE ReasonInHand'
  <2>1. journal'.reason = "process_interruption"
    BY <1>14, InterruptionReads DEF Reads, ResumeInterrupted
  <2>2. \E i : runner' = [Down EXCEPT !.pc = "audit", !.item = i, !.left = batch]
    BY <1>14 DEF ResumeRunning, ResumeInterrupted
  <2>3. runner'.pc = "audit"
    BY <2>2 DEF Down
  <2> QED
    BY <2>1, <2>3 DEF ReasonInHand
<1>15. CASE ResumeStopped
  <2>1. runner'.pc = "down"
    BY <1>15 DEF ResumeStopped, Resume, At
  <2> QED
    BY <1>2, <2>1
<1> QED
  BY <1>4, <1>5, <1>6, <1>7, <1>8, <1>9, <1>10, <1>11, <1>12, <1>13, <1>14, <1>15
     DEF Next, Loop, Invocation

\* The stop on record stays consistent.
LEMMA StopStep ==
  RunnerInv /\ StopRecorded /\ ReasonInHand /\ [Next]_vars => StopRecorded' /\ ReasonInHand'
<1> SUFFICES ASSUME RunnerInv, StopRecorded, ReasonInHand, [Next]_vars PROVE StopRecorded'
  BY ReasonInHandStep
<1>1. CASE UNCHANGED journal
  BY <1>1 DEF StopRecorded, StopKept, CompleteIsScored, Resumable, PersistedReason, Status
<1>2. CASE ~UNCHANGED journal
  BY <1>2, OthersRead, LoopStops, LinkStops, ResumeStops
<1> QED
  BY <1>1, <1>2

(***************************************************************************)
(* The accounting that artifacts carry.                                    *)
(***************************************************************************)

\* The artifact of a scored item, and the one to be linked, accounts for the
\* item's rows, and a linked item's artifact is the baseline on record.
Accounted ==
  /\ runner.pc = "link" =>
       /\ runner.update.artifact # None
       /\ runner.update.artifact.accounting = Accounting(runner.item)
  /\ \A i \in Items : journal \in Journal /\ Status(i) \in Scored =>
       /\ journal.items[i].artifact # None
       /\ journal.items[i].artifact.accounting = Accounting(i)
       /\ i \in Linked => journal.baselines[i] = journal.items[i].artifact

\* What is persisted accounts for the rows of its item.
LEMMA PersistAccounts ==
  ASSUME runner \in Runner, NEW i, NEW result \in Scored, NEW diagnostic \in BOOLEAN,
         NEW status, NEW reason,
         Persist(i, [result |-> result, diagnostic |-> diagnostic, accounting |-> Accounting(i)],
                 status, reason)
  PROVE  /\ runner'.pc = "link" /\ runner'.item = i /\ runner'.update.artifact # None
         /\ runner'.update.artifact.accounting = Accounting(i)
<1> DEFINE artifact == [result |-> result, diagnostic |-> diagnostic, accounting |-> Accounting(i)]
           update == [status |-> status, reason |-> reason, artifact |-> artifact]
<1>1. artifact \in Artifact /\ artifact.accounting = Accounting(i)
  BY ArtifactTyped
<1>2. runner' = [runner EXCEPT !.pc = "link", !.item = i, !.update = update]
  BY DEF Persist
<1>3. update.artifact = artifact
  OBVIOUS
<1> HIDE DEF artifact, update
<1>4. runner'.pc = "link" /\ runner'.item = i /\ runner'.update = update
  BY <1>2 DEF Runner
<1> QED
  BY <1>1, <1>3, <1>4, NoneAssumption

\* A diagnostic artifact is one of them.
LEMMA DiagnosticAccounts ==
  ASSUME runner \in Runner, NEW i, NEW reason, Persist(i, Diagnostic(i), "stopped", reason)
  PROVE  /\ runner'.pc = "link" /\ runner'.item = i /\ runner'.update.artifact # None
         /\ runner'.update.artifact.accounting = Accounting(i)
<1>1. "failed" \in Scored /\ TRUE \in BOOLEAN
  BY DEF Scored
<1> QED
  BY <1>1, PersistAccounts DEF Diagnostic

\* The runner comes to link with what it persisted, and to give up the schedule
\* with an item that stopped or never called.
LEMMA ComesToLink ==
  ASSUME RunnerInv, [Next]_vars, ~UNCHANGED vars
  PROVE  /\ runner'.pc = "link" =>
              /\ UNCHANGED calls
              /\ runner'.update.artifact # None
              /\ runner'.update.artifact.accounting = Accounting(runner'.item)
         /\ runner'.pc = "budget" =>
              /\ UNCHANGED calls
              /\ \/ Link /\ runner.update.reason = "budget"
                 \/ /\ runner'.item = runner.item /\ UNCHANGED journal
                    /\ RowsIn(runner.item, CallState) = {}
<1> DEFINE Elsewhere == runner'.pc \notin {"link", "budget"}
           Linking == /\ UNCHANGED calls
                      /\ runner'.pc = "link" /\ runner'.update.artifact # None
                      /\ runner'.update.artifact.accounting = Accounting(runner'.item)
<1>1. runner \in Runner
  BY DEF RunnerInv, RunnerTypes
<1>2. ASSUME NEW t \in Tasks, ExecReserve(t) PROVE Elsewhere
  <2>1. StopWith("budget") \/ \E c : runner' = [runner EXCEPT !.pc = "hand", !.call = c]
    BY <1>2 DEF ExecReserve
  <2> QED
    BY <1>1, <2>1 DEF StopWith, Runner
<1>3. ASSUME NEW c \in CallIds, ExecAnswer(c) \/ ExecTransportFails(c) PROVE Elsewhere
  <2>1. \/ At("exec") /\ UNCHANGED runner
        \/ StopWith("budget") \/ StopWith("usage_missing") \/ StopWith("billing_uncertain")
    BY <1>3 DEF ExecAnswer, ExecTransportFails
  <2> QED
    BY <1>1, <2>1 DEF StopWith, At, Runner
<1>4. ASSUME ExecHandOver \/ ExecFails \/ CreateJournal \/ Begin \/ NextItem PROVE Elsewhere
  BY <1>1, <1>4 DEF ExecHandOver, ExecFails, StopWith, CreateJournal, Begin, NextItem, Goto, Runner
<1>5. ASSUME NEW result \in Scored, NEW drift \in BOOLEAN, ExecReturns(result, drift) PROVE Linking
  <2> DEFINE reason == Classify(Accounting(runner.item), drift)
             diagnostic == (reason # "none")
             status == IF reason = "none" THEN result ELSE "stopped"
  <2>1. diagnostic \in BOOLEAN
    OBVIOUS
  <2>2. /\ UNCHANGED calls
        /\ Persist(runner.item,
             [result |-> result, diagnostic |-> diagnostic, accounting |-> Accounting(runner.item)],
             status, reason)
    BY <1>5 DEF ExecReturns, storeVars
  <2> HIDE DEF reason, diagnostic, status
  <2> QED
    BY <1>1, <2>1, <2>2, PersistAccounts
<1>6. ASSUME StopItem
      PROVE  \/ Linking
             \/ /\ runner'.pc = "budget" /\ runner'.item = runner.item
                /\ UNCHANGED <<calls, journal>> /\ RowsIn(runner.item, CallState) = {}
  <2>1. UNCHANGED <<calls, journal>>
    BY <1>6 DEF StopItem, storeVars
  <2>2. \/ runner' = [runner EXCEPT !.pc = "budget"] /\ RowsIn(runner.item, CallState) = {}
        \/ Persist(runner.item, Diagnostic(runner.item), "stopped", runner.update.reason)
    BY <1>6 DEF StopItem, Goto
  <2>3. CASE runner' = [runner EXCEPT !.pc = "budget"] /\ RowsIn(runner.item, CallState) = {}
    BY <1>1, <2>1, <2>3 DEF Runner
  <2>4. CASE Persist(runner.item, Diagnostic(runner.item), "stopped", runner.update.reason)
    BY <1>1, <2>1, <2>4, DiagnosticAccounts
  <2> QED
    BY <2>2, <2>3, <2>4
<1>7. ASSUME AuditDone PROVE Linking \/ Elsewhere
  <2>1. UNCHANGED calls
    BY <1>7 DEF AuditDone, storeVars
  <2>2. \/ \E reason : Persist(runner.item, Diagnostic(runner.item), "stopped", reason)
        \/ \E items : Continue(items, runner.left)
    BY <1>7 DEF AuditDone
  <2> QED
    BY <1>1, <2>1, <2>2, DiagnosticAccounts, GoesOn
<1>8. ASSUME Link
      PROVE  \/ Elsewhere
             \/ UNCHANGED calls /\ runner'.pc = "budget" /\ runner.update.reason = "budget"
  BY <1>8, LinkReads DEF Link, storeVars
<1>9. ASSUME Finish \/ Pause \/ MarkBudget \/ ExecInterrupted \/ Crash \/ ResumeStopped PROVE Elsewhere
  BY <1>9 DEF Finish, Pause, MarkBudget, ExecInterrupted, Crash, Down, ResumeStopped, Resume, At
<1>10. ASSUME NEW c \in CallIds, AuditCall(c) \/ OperatorAuthorizes(c) PROVE Elsewhere
  BY <1>10 DEF AuditCall, OperatorAuthorizes, At
<1>11. ASSUME NEW batch \in Batches,
              Run(batch) \/ ResumeRunning(batch) \/ ResumeInterrupted(batch)
       PROVE  Elsewhere
  <2>1. \/ runner' = [Down EXCEPT !.pc = "create", !.left = batch]
        \/ \E i : runner' = [Down EXCEPT !.pc = "audit", !.item = i, !.left = batch]
    BY <1>11 DEF Run, ResumeRunning, ResumeInterrupted
  <2> QED
    BY <2>1 DEF Down
<1>12. ASSUME NEW batch \in Batches, Recover(batch) \/ ResumePaused(batch) \/ ResumeIdle(batch)
       PROVE  Elsewhere
  <2>1. \E items : Continue(items, batch)
    BY <1>12, Zenon DEF Recover, ResumePaused, ResumeIdle
  <2> QED
    BY <2>1, GoesOn
<1> HIDE DEF Linking
<1>13. \/ Elsewhere \/ Linking
       \/ Link /\ UNCHANGED calls /\ runner'.pc = "budget" /\ runner.update.reason = "budget"
       \/ /\ runner'.pc = "budget" /\ runner'.item = runner.item
          /\ UNCHANGED <<calls, journal>> /\ RowsIn(runner.item, CallState) = {}
  <2> HIDE DEF Elsewhere
  <2> QED
    BY <1>2, <1>3, <1>4, <1>5, <1>6, <1>7, <1>8, <1>9, <1>10, <1>11, <1>12
       DEF Next, Executor, Loop, Invocation
<1> QED
  BY <1>13 DEF Linking

\* While an item's rows stay, its accounting does.
LEMMA AccountingStays ==
  ASSUME NEW i, \A t \in Tasks : calls'[<<i, t>>] = calls[<<i, t>>]
  PROVE  /\ Accounting(i)' = Accounting(i)
         /\ \A states : {t \in Tasks : calls'[<<i, t>>].state \in states} = RowsIn(i, states)
BY DEF Accounting, RowsIn

\* What a scored item's artifact accounts for stays so.
LEMMA AccountedStep ==
  FinalInv /\ Accounted /\ [Next]_vars => Accounted'
<1> SUFFICES ASSUME FinalInv, Accounted, [Next]_vars PROVE Accounted'
  OBVIOUS
<1>1. RunnerInv /\ RunnerInv' /\ ScoresKept
  BY RunnerStep DEF FinalInv
<1>2. ASSUME runner'.pc = "link"
      PROVE  /\ runner'.update.artifact # None
             /\ runner'.update.artifact.accounting = Accounting(runner.item)'
  <2>1. CASE UNCHANGED vars
    BY <1>2, <2>1 DEF vars, storeVars, Accounted, Accounting, RowsIn
  <2>2. CASE ~UNCHANGED vars
    <3>1. UNCHANGED calls /\ runner'.update.artifact # None
          /\ runner'.update.artifact.accounting = Accounting(runner'.item)
      BY <1>1, <1>2, <2>2, ComesToLink
    <3>2. Accounting(runner.item)' = Accounting(runner'.item)
      BY <3>1 DEF Accounting, RowsIn
    <3> QED
      BY <3>1, <3>2
  <2> QED
    BY <2>1, <2>2
<1>3. ASSUME NEW i \in Items, journal' \in Journal, Status(i)' \in Scored
      PROVE  /\ journal'.items[i].artifact # None
             /\ journal'.items[i].artifact.accounting = Accounting(i)'
             /\ i \in Linked => journal'.baselines[i] = journal'.items[i].artifact
  <2>1. CASE journal \in Journal /\ Status(i) \in Scored
    <3>1. journal'.items[i] = journal.items[i]
      BY <1>1, <2>1 DEF ScoresKept, Status
    <3>2. Accounting(i)' = Accounting(i)
      BY <2>1, ScoredRowsStay, AccountingStays DEF FinalInv, Settled, Status
    <3>3. ASSUME i \in Linked PROVE journal'.baselines[i] = journal.baselines[i]
      <4>1. CASE UNCHANGED journal
        BY <4>1
      <4>2. ASSUME NEW items, NEW reason, NEW billing, NEW status,
                   Reads(items, reason, billing, status, journal.baselines)
            PROVE  journal'.baselines[i] = journal.baselines[i]
        BY <4>2 DEF Reads
      <4>3. CASE Link
        <5>1. i # runner.item
          BY <1>1, <2>1, <4>3 DEF Link, At, RunnerInv, RunnerSound, Scored
        <5>2. runner.update.reason = "none" =>
                journal'.baselines = BaselinesWith(runner.item, runner.update.artifact)
          BY <1>1, <4>3, LinkReads DEF Reads
        <5>3. runner.update.reason # "none" => journal'.baselines = journal.baselines
          BY <1>1, <4>3, LinkReads DEF Reads
        <5> QED
          BY <3>3, <5>1, <5>2, <5>3 DEF BaselinesWith
      <4>4. CASE CreateJournal
        BY <1>1, <2>1, <4>4, NoneAssumption DEF CreateJournal, At, RunnerInv, RunnerSound
      <4>5. CASE ~UNCHANGED journal /\ ~Link /\ ~CreateJournal
        <5>1. \E items, reason, billing, status : Reads(items, reason, billing, status, journal.baselines)
          <6>1. CASE Begin \/ Finish \/ Pause
            BY <1>1, <6>1, LoopReads
          <6>2. CASE NextItem
            BY <1>1, <6>2, NextItemReads
          <6>3. CASE MarkBudget
            BY <1>1, <6>3, MarkBudgetReads
          <6>4. CASE AuditDone
            BY <1>1, <4>5, <6>4, AuditReads
          <6>5. CASE ExecInterrupted \/ \E batch \in Batches : ResumeRunning(batch)
            BY <1>1, <6>5, InterruptionReads
          <6>6. CASE ResumeStopped \/ \E batch \in Batches : ResumePaused(batch)
            BY <1>1, <6>6, ResumeReads
          <6>7. CASE \E batch \in Batches : Recover(batch)
            BY <1>1, <6>7, RecoverReads
          <6> QED
            BY <4>5, <6>1, <6>2, <6>3, <6>4, <6>5, <6>6, <6>7, OthersRead
        <5> QED
          BY <4>2, <5>1
      <4> QED
        BY <4>1, <4>3, <4>4, <4>5
    <3> QED
      BY <2>1, <3>1, <3>2, <3>3 DEF Accounted
  <2>2. CASE ~(journal \in Journal /\ Status(i) \in Scored)
    <3>1. runner.pc = "link" /\ runner.item = i /\ runner.update.status \in Scored
      BY <1>1, <1>3, <2>2 DEF ScoresKept, Status
    <3>2. Link
      <4>1. ~UNCHANGED journal
        BY <1>3, <2>2 DEF Status
      <4> QED
        BY <3>1, <4>1, OthersRead DEF CreateJournal, Begin, NextItem, Finish, Pause, MarkBudget,
           AuditDone, ExecInterrupted, ResumeStopped, Recover, ResumeRunning, ResumePaused, Resume, At
    <3>3. runner.update.reason = "none" /\ journal.items \in [Items -> Item]
      BY <1>1, <3>1, OnRecord DEF RunnerInv, RunnerSound, ItemSound
    <3>4. /\ journal'.items = Put(i, runner.update)
          /\ journal'.baselines = BaselinesWith(i, runner.update.artifact)
      BY <1>1, <3>1, <3>2, <3>3, LinkReads DEF Reads
    <3>5. journal'.items[i] = runner.update
      BY <3>3, <3>4, PutReads
    <3>6. i \in Linked => journal'.baselines[i] = runner.update.artifact
      BY <3>4 DEF BaselinesWith
    <3>7. UNCHANGED calls
      BY <3>2 DEF Link, storeVars
    <3>8. Accounting(i)' = Accounting(i)
      BY <3>7 DEF Accounting, RowsIn
    <3> QED
      BY <3>1, <3>5, <3>6, <3>8 DEF Accounted
  <2> QED
    BY <2>1, <2>2
<1> QED
  BY <1>2, <1>3 DEF Accounted

(***************************************************************************)
(* Calls whose billing is unknown.                                         *)
(***************************************************************************)

\* A budget stop skips the item in hand only if it never called.
BudgetUncalled ==
  runner.pc = "budget" /\ Status(runner.item) = "running" => RowsIn(runner.item, CallState) = {}

\* The entry of item i is the one in hand, or a stop whose artifact says so.
Surfaced(i) ==
  /\ journal \in Journal
  /\ \/ Status(i) \in {"running", "interrupted"}
     \/ Status(i) = "stopped" /\ journal.items[i].artifact.accounting.uncertain

\* Every item with a call of unknown billing is surfaced.
AllSurfaced == \A i \in Items : RowsIn(i, Unknown) # {} => Surfaced(i)

\* A step that changes rows leaves the journal alone.
LEMMA StoreOrDisk ==
  ASSUME [Next]_vars, ~UNCHANGED journal
  PROVE  UNCHANGED calls
BY OthersRead DEF CreateJournal, Begin, NextItem, Finish, Link, Pause, MarkBudget, AuditDone,
   ExecInterrupted, ResumeStopped, Recover, ResumeRunning, ResumePaused, Resume, storeVars

\* An entry stays, is in hand, or leaves for a reason that closed its calls.
LEMMA EntriesMove ==
  ASSUME FinalInv, Accounted, AllSurfaced, BudgetUncalled, [Next]_vars, ~UNCHANGED journal,
         NEW i \in Items, RowsIn(i, Unknown) # {}
  PROVE  Surfaced(i)'
<1>1. RunnerInv /\ RunnerInv' /\ ScoresKept /\ Surfaced(i) /\ journal \in Journal
  BY RunnerStep DEF FinalInv, AllSurfaced, Surfaced
<1>2. journal' \in Journal
  BY <1>1 DEF ScoresKept
<1>3. journal.items \in [Items -> Item]
  BY <1>1, OnRecord
<1>4. ASSUME journal'.items[i] = journal.items[i] PROVE Surfaced(i)'
  BY <1>1, <1>2, <1>4 DEF Surfaced, Status
<1>5. ASSUME journal'.items[i].status \in {"running", "interrupted"} PROVE Surfaced(i)'
  BY <1>2, <1>5 DEF Surfaced, Status
<1>6. ASSUME CreateJournal PROVE FALSE
  BY <1>1, <1>6, LoopReads, NoneAssumption
<1>7. CASE \/ Begin \/ Finish \/ Pause \/ ResumeStopped \/ \E batch \in Batches : ResumePaused(batch)
  BY <1>1, <1>4, <1>7, LoopReads, ResumeReads DEF Reads
<1>8. ASSUME NEW k \in Items, NEW status \in {"running", "interrupted"}, NEW reason,
             journal'.items = Put(k, Entry(status, reason))
      PROVE  Surfaced(i)'
  <2>1. Entry(status, reason).status = status
    BY DEF Entry
  <2> QED
    BY <1>3, <1>4, <1>5, <1>8, <2>1, PutReads
<1>9. CASE NextItem \/ ExecInterrupted \/ \E batch \in Batches : ResumeRunning(batch)
  BY <1>1, <1>8, <1>9, NextItemReads, InterruptionReads DEF Reads
<1>10. CASE AuditDone
  <2>1. /\ journal'.items = Put(runner.item, Entry("pending", "none")) /\ runner.item # i
        /\ runner.item \in Items
    BY <1>1, <1>10, AuditReads DEF Reads, AuditDone, At, RunnerInv, RunnerSound
  <2> QED
    BY <1>3, <1>4, <2>1, PutReads
<1>11. ASSUME NEW batch \in Batches, Recover(batch) PROVE Surfaced(i)'
  <2>1. ~Authorized(i)
    <3>1. PICK t \in Tasks : calls[<<i, t>>].state \in Unknown
      BY DEF RowsIn
    <3>2. <<i, t>> \in UnresolvedOf(i)
      BY <3>1, RunnerAssumption DEF UnresolvedOf, Unresolved, Unknown
    <3>3. calls[<<i, t>>].state # "reserved"
      BY <3>1 DEF Unknown
    <3> QED
      BY <3>2, <3>3 DEF Authorized
  <2> QED
    BY <1>1, <1>4, <1>11, <2>1, RecoverReads DEF Reads
<1>12. CASE MarkBudget
  <2>1. PICK items :
          /\ Reads(items, "budget", journal.billing, "incomplete_budget", journal.baselines)
          /\ \/ items[i] = journal.items[i]
             \/ i >= runner.item /\ Status(i) \in {"pending", "running", "interrupted"}
    BY <1>1, <1>12, MarkBudgetReads
  <2>2. ASSUME i >= runner.item, Status(i) \in {"pending", "running", "interrupted"} PROVE FALSE
    <3>1. /\ runner.pc = "budget" /\ runner.item \in Items
          /\ Status(runner.item) \in {"running", "stopped"}
      BY <1>1, <1>12 DEF MarkBudget, At, RunnerInv, RunnerSound
    <3>2. Status(i) \in {"running", "interrupted"}
      BY <1>1, <2>2 DEF Surfaced
    <3>3. i = runner.item
      <4>1. i > runner.item => Status(i) \in {"pending", "not_run_budget"}
        BY <1>1, <3>1, OnRecord, InHandAlone DEF Status
      <4>2. i \in Nat /\ runner.item \in Nat /\ Status(i) \notin {"pending", "not_run_budget"}
        BY <3>1, <3>2, ItemsAreNumbers
      <4> QED
        BY <2>2, <4>1, <4>2
    <3>4. RowsIn(i, CallState) = {}
      BY <3>1, <3>2, <3>3 DEF BudgetUncalled
    <3> QED
      BY <3>4 DEF RowsIn, Unknown, CallState
  <2> QED
    BY <1>4, <2>1, <2>2 DEF Reads
<1>13. CASE Link
  <2> DEFINE update == runner.update
  <2>1. /\ runner.pc = "link" /\ runner.item \in Items /\ update.status \in Scored \cup {"stopped"}
    BY <1>1, <1>13 DEF Link, At, RunnerInv, RunnerSound
  <2>2. journal'.items = Put(runner.item, update)
    BY <1>1, <1>13, LinkReads DEF Reads
  <2>3. CASE i # runner.item
    BY <1>3, <1>4, <2>1, <2>2, <2>3, PutReads
  <2>4. CASE i = runner.item
    <3>1. journal'.items[i] = update
      BY <1>3, <2>1, <2>2, <2>4, PutReads
    <3>2. update.status = "stopped"
      BY <2>1, <2>4 DEF FinalInv, RowsSettled, Settled, RowsIn, Unknown
    <3>3. update.artifact.accounting = Accounting(i)
      BY <2>1, <2>4 DEF Accounted
    <3>4. Accounting(i).uncertain
      BY DEF Accounting
    <3> QED
      BY <1>2, <3>1, <3>2, <3>3, <3>4 DEF Surfaced, Status
  <2> QED
    BY <2>3, <2>4
<1> QED
  BY <1>6, <1>7, <1>9, <1>10, <1>11, <1>12, <1>13, OthersRead

\* A call comes to have unknown billing while its item is in hand.
LEMMA SurfacedStep ==
  FinalInv /\ Accounted /\ AllSurfaced /\ BudgetUncalled /\ [Next]_vars
    => AllSurfaced' /\ BudgetUncalled'
<1> SUFFICES ASSUME FinalInv, Accounted, AllSurfaced, BudgetUncalled, [Next]_vars
             PROVE  AllSurfaced' /\ BudgetUncalled'
  OBVIOUS
<1>1. RunnerInv /\ RunnerInv' /\ FlightSound
  BY RunnerStep DEF FinalInv
<1>2. ASSUME NEW i \in Items, RowsIn(i, Unknown)' # {} PROVE Surfaced(i)'
  <2>1. CASE ~UNCHANGED journal
    <3>1. RowsIn(i, Unknown) # {}
      BY <1>2, <2>1, StoreOrDisk DEF RowsIn
    <3> QED
      BY <2>1, <3>1, EntriesMove
  <2>2. CASE UNCHANGED journal /\ RowsIn(i, Unknown) # {}
    BY <2>2 DEF AllSurfaced, Surfaced, Status
  <2>3. CASE UNCHANGED journal /\ RowsIn(i, Unknown) = {}
    <3>1. PICK t \in Tasks : calls'[<<i, t>>].state \in Unknown
      BY <1>2 DEF RowsIn
    <3>2. <<i, t>> \in CallIds /\ calls[<<i, t>>].state \notin Unknown
      BY <2>3, RunnerAssumption DEF RowsIn
    <3>3. runner.pc \in {"exec", "hand", "audit"} /\ runner.item = i
      BY <1>1, <3>1, <3>2, RowsStay DEF Unknown
    <3>4. journal \in Journal /\ Status(i) \in {"running", "interrupted"}
      BY <1>1, <3>3 DEF RunnerInv, RunnerSound
    <3> QED
      BY <2>3, <3>4 DEF Surfaced, Status
  <2> QED
    BY <2>1, <2>2, <2>3
<1>3. ASSUME runner'.pc = "budget", Status(runner.item)' = "running"
      PROVE  RowsIn(runner.item, CallState)' = {}
  <2>1. CASE UNCHANGED vars
    <3>1. UNCHANGED <<calls, journal, runner>>
      BY <2>1 DEF vars, storeVars, diskVars
    <3>2. RowsIn(runner.item, CallState) = {}
      BY <1>3, <3>1 DEF BudgetUncalled, Status
    <3> QED
      BY <3>1, <3>2 DEF RowsIn
  <2>2. CASE ~UNCHANGED vars
    <3>1. /\ UNCHANGED calls
          /\ \/ Link /\ runner.update.reason = "budget"
             \/ /\ runner'.item = runner.item /\ UNCHANGED journal
                /\ RowsIn(runner.item, CallState) = {}
      BY <1>1, <1>3, <2>2, ComesToLink
    <3>2. ~(Link /\ runner.update.reason = "budget")
      <4> SUFFICES ASSUME Link, runner.update.reason = "budget" PROVE FALSE
        OBVIOUS
      <4>1. /\ runner.item \in Items /\ journal.items \in [Items -> Item]
            /\ ItemSound(runner.update) /\ runner.update.status \in Scored \cup {"stopped"}
        BY <1>1, OnRecord DEF Link, At, RunnerInv, RunnerSound
      <4>2. journal'.items = Put(runner.item, runner.update) /\ runner'.item = runner.item
        BY <1>1, LinkReads DEF Reads
      <4>3. journal'.items[runner'.item] = runner.update
        BY <4>1, <4>2, PutReads
      <4> QED
        BY <1>3, <4>1, <4>3 DEF Status, Scored
    <3>3. runner'.item = runner.item /\ RowsIn(runner.item, CallState) = {}
      BY <3>1, <3>2
    <3> QED
      BY <3>1, <3>3 DEF RowsIn
  <2> QED
    BY <2>1, <2>2
<1> QED
  BY <1>2, <1>3 DEF AllSurfaced, BudgetUncalled

(***************************************************************************)
(* What holds at all times.                                                *)
(***************************************************************************)

\* The invariant of stops, accountings and unknown billing.
StopInv == FinalInv /\ StopRecorded /\ ReasonInHand /\ Accounted /\ AllSurfaced /\ BudgetUncalled

\* It holds initially.
LEMMA StopInit == Init => StopInv
<1> SUFFICES ASSUME Init PROVE StopInv
  OBVIOUS
<1>1. RunnerInv /\ runner.pc = "down" /\ flight = {} /\ journal \notin Journal
  BY RunnerInit, NoneAssumption DEF Init, Down
<1>2. FinalInv
  BY <1>1 DEF FinalInv, FlightSound, RowsSettled, Settled
<1>3. \A i \in Items : RowsIn(i, Unknown) = {}
  BY RunnerAssumption DEF Init, StoreInit, Absent, RowsIn, Unknown
<1> QED
  BY <1>1, <1>2, <1>3 DEF StopInv, StopRecorded, ReasonInHand, Accounted, AllSurfaced, BudgetUncalled

\* Every step of the runner keeps it.
LEMMA StopInvStep == StopInv /\ [Next]_vars => StopInv'
<1>1. FinalInv /\ [Next]_vars => FinalInv'
  BY RunnerStep, FlightStep, SettledStep DEF FinalInv
<1> QED
  BY <1>1, StopStep, AccountedStep, SurfacedStep DEF StopInv, FinalInv

\* It holds at all times.
LEMMA StopInvariant == Spec => []StopInv
BY StopInit, StopInvStep, PTL DEF Spec

\* No money is lost sight of: a call whose billing is unknown belongs to the item
\* in hand, or to a stopped item whose artifact says so.
THEOREM UnknownBillingSurfaced == Spec => []UnknownBillingIsSurfaced
<1>1. StopInv => UnknownBillingIsSurfaced
  BY NoneAssumption DEF StopInv, AllSurfaced, Surfaced, UnknownBillingIsSurfaced
<1> QED
  BY <1>1, StopInvariant, PTL

\* A stop that needs an operator is reported as the most critical reason its
\* items carry, with its own status and billing flag, and stays so.
THEOREM StopsAreConsistent == Spec => []StopIsConsistent
<1>1. StopInv => StopIsConsistent
  BY DEF StopInv, FinalInv, RunnerInv, RunnerTypes, StopRecorded, StopKept, StopIsConsistent
<1> QED
  BY <1>1, StopInvariant, PTL

\* A complete campaign has every item scored, every call closed and every
\* artifact's accounting that of the ledger.
THEOREM CompleteIsSettled == Spec => []CompleteIsClosed
<1>1. StopInv => CompleteIsClosed
  <2> SUFFICES ASSUME StopInv, journal # None, journal.status = "complete", NEW i \in Items
               PROVE  /\ Status(i) \in Scored
                      /\ RowsIn(i, CallState) = RowsIn(i, {"completed"})
                      /\ journal.items[i].artifact.accounting = Accounting(i)
    BY DEF CompleteIsClosed
  <2>1. journal \in Journal /\ Status(i) \in Scored
    BY DEF StopInv, FinalInv, RunnerInv, RunnerTypes, StopRecorded, CompleteIsScored
  <2>2. \A t \in Tasks : calls[<<i, t>>].state \in {"absent", "completed"}
    BY <2>1 DEF StopInv, FinalInv, RowsSettled, Settled, Status
  <2>3. RowsIn(i, CallState) = RowsIn(i, {"completed"})
    BY <2>2 DEF RowsIn, CallState
  <2> QED
    BY <2>1, <2>3 DEF StopInv, Accounted
<1> QED
  BY <1>1, StopInvariant, PTL

\* When a stability item is next, the baselines it needs are recorded and are
\* still the artifacts on disk.
THEOREM BaselinesAreFrozen == Spec => []BaselinesFrozen
<1>1. StopInv => BaselinesFrozen
  <2> SUFFICES ASSUME StopInv, At("loop"), Remaining # {}, Min(Remaining) \in Stability,
                      NEW i \in Linked
               PROVE  /\ journal.baselines[i] # None
                      /\ journal.baselines[i] = journal.items[i].artifact
                      /\ files[i] = journal.baselines[i]
    BY DEF BaselinesFrozen, BaselinesVerified
  <2>1. RunnerInv /\ journal \in Journal /\ Clean /\ i \in Items
    BY RunnerAssumption DEF StopInv, FinalInv, RunnerInv, RunnerSound, At
  <2>2. i < Min(Remaining) /\ Min(Remaining) \in Remaining /\ \A n \in Remaining : Min(Remaining) <= n
    BY ItemsAreNumbers, RunnerAssumption, MinIsLeast DEF Remaining
  <2>3. Status(i) \in Terminal
    <3>1. i \in Nat /\ Min(Remaining) \in Nat
      BY <2>1, <2>2, ItemsAreNumbers DEF Remaining
    <3>2. i \notin Remaining
      <4> HIDE DEF Remaining
      <4> QED
        BY <2>2, <3>1
    <3> QED
      BY <2>1, <3>2 DEF Remaining
  <2>4. Status(i) \in Scored
    <3>1. ItemSound(journal.items[i]) /\ journal.items[i].reason = "none"
      BY <2>1, OnRecord DEF Clean
    <3> QED
      BY <2>3, <3>1 DEF Terminal, ItemSound, Status
  <2>5. /\ journal.items[i].artifact # None
        /\ journal.baselines[i] = journal.items[i].artifact
    BY <2>1, <2>4 DEF StopInv, Accounted
  <2>6. files[i] = journal.items[i].artifact
    BY <2>1, <2>5, OnRecord DEF FiledIn
  <2> QED
    BY <2>5, <2>6
<1> QED
  BY <1>1, StopInvariant, PTL

=============================================================================
