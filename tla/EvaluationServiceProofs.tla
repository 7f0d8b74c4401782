----------------------- MODULE EvaluationServiceProofs -----------------------
(***************************************************************************)
(* What holds of the evaluation service for any number of items, tasks and *)
(* process starts.  The service drives the runner through its own steps    *)
(* and a few that leave the campaign alone, so everything proved of the    *)
(* campaign holds under the service; and the record it keeps forbids a     *)
(* paid call whenever it says that the activity is stopped.                *)
(***************************************************************************)
EXTENDS EvaluationService, CampaignOutcomeProofs

(***************************************************************************)
(* The campaign under the service.                                         *)
(***************************************************************************)

\* What the service does to the runner beyond the runner's own steps: it is
\* refused before it starts, it is gone, or the hook of its first item fails.
SideStep ==
  /\ UNCHANGED <<storeVars, diskVars>>
  /\ \/ RunnerRefuses
     \/ runner' = Down /\ flight' = {} /\ UNCHANGED starts
     \/ At("exec") /\ StopWith("internal_error") /\ UNCHANGED starts

\* Every step of the service is one of the runner, or leaves the campaign alone.
LEMMA ServiceMoves == [ServiceNext]_evaluationVars => [Next]_vars \/ SideStep
<1> SUFFICES ASSUME [ServiceNext]_evaluationVars PROVE [Next]_vars \/ SideStep
  OBVIOUS
<1>1. CASE StartService
  <2>1. (\E batch \in Batches : Run(batch)) \/ RunnerRefuses
    BY <1>1 DEF StartService
  <2> QED
    BY <2>1 DEF Next, Invocation, SideStep, RunnerRefuses
<1>2. CASE ResumeService
  <2>1. (\E batch \in Batches : Recover(batch) \/ RunnerResumes(batch)) \/ RunnerRefuses
    BY <1>2 DEF ResumeService
  <2> QED
    BY <2>1 DEF Next, Invocation, RunnerResumes, SideStep, RunnerRefuses
<1>3. CASE RunnerWorks
  BY <1>3 DEF RunnerWorks, Next
<1>4. CASE BuildExecutor
  <2>1. UNCHANGED <<storeVars, diskVars, starts>> /\ At("exec")
        /\ (UNCHANGED <<runner, flight>> \/ StopWith("internal_error"))
    BY <1>4 DEF BuildExecutor
  <2> QED
    BY <2>1 DEF SideStep, vars
<1>5. CASE PersistSidecar \/ Finally \/ UNCHANGED evaluationVars
  BY <1>5 DEF PersistSidecar, Finally, evaluationVars
<1>6. CASE Interrupted
  BY <1>6 DEF Interrupted, Next
<1>7. CASE Cancelled \/ Dies
  BY <1>7 DEF Cancelled, Dies, SideStep
<1>8. CASE OperatorActs
  BY <1>8 DEF OperatorActs, Next
<1> QED
  BY <1>1, <1>2, <1>3, <1>4, <1>5, <1>6, <1>7, <1>8 DEF ServiceNext, Works

\* While ledger and disk stay as they are, only the runner has to be looked at.
LEMMA SideStepSound == StopInv /\ SideStep => StopInv'
<1> SUFFICES ASSUME StopInv, SideStep PROVE StopInv'
  OBVIOUS
<1>1. RunnerInv /\ UNCHANGED <<storeVars, diskVars>>
  BY DEF StopInv, FinalInv, SideStep
<1>2. UNCHANGED <<calls, journal, files>> /\ \A i \in Items : UNCHANGED journal.items[i]
  BY <1>1 DEF storeVars, diskVars
<1>3. StoreTypeOK'
  BY <1>1, StoreTypeStep DEF RunnerInv
<1>4. /\ \A i, states : RowsIn(i, states)' = RowsIn(i, states)
      /\ \A i : Accounting(i)' = Accounting(i)
      /\ \A i : Status(i)' = Status(i)
  BY <1>2 DEF RowsIn, Accounting, Status
<1>5. /\ RunnerInv' /\ FlightSound'
      /\ UNCHANGED runner \/ runner'.pc = "down" \/ (runner'.pc = "stop" /\ runner.pc = "exec")
  <2>1. CASE RunnerRefuses
    <3>1. UNCHANGED <<runner, flight>> /\ starts' = starts + 1 /\ starts < MaxStarts
      BY <2>1 DEF RunnerRefuses
    <3>2. starts' \in 0 .. MaxStarts
      BY <1>1, <3>1, RunnerAssumption DEF RunnerInv, RunnerTypes
    <3>3. RunnerTypes' /\ RunnerSound'
      BY <1>1, <1>2, <3>1, <3>2 DEF RunnerInv, RunnerTypes, RunnerSound, diskVars, Status, Clean, OthersClean
    <3> QED
      BY <1>1, <1>3, <3>1, <3>3, DiskStays DEF RunnerInv, StopInv, FinalInv, FlightSound
  <2>2. CASE runner' = Down /\ flight' = {} /\ UNCHANGED starts
    <3>1. runner' \in Runner /\ RunnerSound' /\ runner'.pc = "down"
      BY <2>2, DownSound DEF Down
    <3>2. RunnerTypes'
      BY <1>1, <2>2, <3>1 DEF RunnerInv, RunnerTypes, diskVars
    <3> QED
      BY <1>1, <1>3, <2>2, <3>1, <3>2, DiskStays DEF RunnerInv, FlightSound
  <2>3. CASE At("exec") /\ StopWith("internal_error") /\ UNCHANGED starts
    <3>1. RunnerTypes' /\ RunnerSound'
      BY <1>1, <2>3, StopWithSound DEF diskVars
    <3>2. runner'.pc = "stop" /\ flight' = {} /\ runner.pc = "exec"
      BY <1>1, <2>3 DEF StopWith, At, RunnerInv, RunnerTypes, Runner
    <3> QED
      BY <1>1, <1>3, <3>1, <3>2, DiskStays DEF RunnerInv, FlightSound
  <2> QED
    BY <2>1, <2>2, <2>3 DEF SideStep
<1>6. FinalInv'
  BY <1>2, <1>5 DEF StopInv, FinalInv, RowsSettled, Settled
<1>7. StopRecorded'
  BY <1>2 DEF StopInv, StopRecorded, StopKept, Resumable, PersistedReason, Reasons,
              CompleteIsScored, Status
<1>8. ReasonInHand'
  BY <1>2, <1>5 DEF StopInv, ReasonInHand
<1>9. Accounted'
  BY <1>2, <1>4, <1>5 DEF StopInv, Accounted
<1>10. AllSurfaced' /\ BudgetUncalled'
  BY <1>2, <1>4, <1>5 DEF StopInv, AllSurfaced, Surfaced, BudgetUncalled
<1> QED
  BY <1>6, <1>7, <1>8, <1>9, <1>10 DEF StopInv

\* The campaign's inductive invariant holds under the service too.
LEMMA CampaignUnderService ==
  /\ ServiceInit => StopInv
  /\ StopInv /\ [ServiceNext]_evaluationVars => StopInv'
BY StopInit, StopInvStep, ServiceMoves, SideStepSound DEF ServiceInit

(***************************************************************************)
(* One stop at a time: what a journal says of its stop.                    *)
(***************************************************************************)

\* The items of a journal carry its stop reason and no other; a stop other than
\* a pause is some item's; and while an item runs there is none.
ReasonsAgree(j) ==
  /\ \A i \in Items : j.items[i].reason \in {"none", j.reason}
  /\ j.reason \notin {"none", "user_paused"} => \E i \in Items : j.items[i].reason = j.reason
  /\ \A i \in Items : j.items[i].status = "running" => j.reason = "none"

\* Between two items none is running.
Quiet == runner.pc \in {"begin", "loop", "pause"} => \A i \in Items : Status(i) # "running"

\* The journal on disk agrees with itself.
Agreed == journal \in Journal => ReasonsAgree(journal)

\* A journal without any reason, or a pause of one that rests, agrees.
LEMMA CleanAgrees ==
  ASSUME \A i \in Items : journal'.items[i].reason = "none",
         \/ journal'.reason = "none"
         \/ journal'.reason = "user_paused" /\ \A i \in Items : journal'.items[i].status # "running"
  PROVE  Agreed'
BY DEF Agreed, ReasonsAgree

\* A journal of which one item in hand has been given the journal's reason agrees.
LEMMA StopAgrees ==
  ASSUME RunnerInv', NEW i \in Items, journal'.reason # "none",
         journal'.items[i].reason = journal'.reason,
         \A k \in Items : journal'.items[k].reason \in {"none", journal'.reason},
         \A k \in Items : journal'.items[k].status # "running"
  PROVE  Agreed'
BY DEF Agreed, ReasonsAgree

\* An unfinished item is the only one there is.
LEMMA NoneRunsBeside ==
  ASSUME RunnerInv, journal \in Journal, NEW i \in Items,
         Status(i) \in {"running", "interrupted", "stopped"}
  PROVE  \A k \in Items : k # i => Status(k) \in Scored \cup {"pending", "not_run_budget"}
<1>1. /\ \A k \in Items : k < i => journal.items[k].status \in Scored
      /\ \A k \in Items : k > i => journal.items[k].status \in {"pending", "not_run_budget"}
  BY OnRecord, InHandAlone DEF Status
<1> QED
  BY <1>1, ItemsAreNumbers DEF Status

\* A stop that an operator can lift belongs to a stopped item.
LEMMA RecoverableStopped ==
  ASSUME RunnerInv, journal \in Journal, NEW i \in Items, journal.items[i].reason \in Recoverable
  PROVE  Status(i) = "stopped"
<1>1. journal.items[i] \in Item /\ ItemSound(journal.items[i])
  BY OnRecord
<1> QED
  BY <1>1 DEF ItemSound, Item, WorkStatus, Scored, Recoverable, Status

\* The loop's own writes agree.
LEMMA LoopAgrees ==
  ASSUME StopInv, Quiet, CreateJournal \/ Begin \/ Finish \/ Pause \/ NextItem
  PROVE  Agreed'
<1>1. RunnerInv /\ ReasonInHand
  BY DEF StopInv, FinalInv
<1>2. ASSUME runner.pc \in {"begin", "loop", "pause"}
      PROVE  /\ journal \in Journal /\ journal.reason = "none"
             /\ \A k \in Items : journal.items[k].reason = "none" /\ Status(k) # "running"
  BY <1>1, <1>2, ReasonsInHand DEF ReasonInHand, Quiet
<1>3. CASE CreateJournal
  <2>1. journal'.reason = "none" /\ \A k \in Items : journal'.items[k].reason = "none"
    BY <1>1, <1>3, LoopReads DEF Reads, Entry
  <2> QED
    BY <2>1, CleanAgrees
<1>4. CASE Begin \/ Finish \/ Pause
  <2>1. /\ journal'.items = journal.items /\ journal'.reason \in {journal.reason, "user_paused"}
        /\ runner.pc \in {"begin", "loop", "pause"}
    BY <1>1, <1>4, LoopReads DEF Reads, Begin, Finish, Pause, At
  <2> QED
    BY <1>2, <2>1, CleanAgrees DEF Status
<1>5. CASE NextItem
  <2> DEFINE entry == Entry("running", "none")
  <2>1. PICK i \in Items :
          Reads(Put(i, entry), journal.reason, journal.billing, journal.status, journal.baselines)
    BY <1>1, <1>5, NextItemReads
  <2>2. /\ journal \in Journal /\ journal.reason = "none" /\ journal.items \in [Items -> Item]
        /\ \A k \in Items : journal.items[k].reason = "none"
    BY <1>1, <1>2, <1>5, OnRecord DEF NextItem, At
  <2>3. entry.reason = "none"
    BY DEF Entry
  <2> HIDE DEF entry
  <2>4. \A k \in Items : journal'.items[k].reason = "none"
    BY <2>1, <2>2, <2>3, PutReads DEF Reads
  <2> QED
    BY <2>1, <2>2, <2>4, CleanAgrees DEF Reads
<1> QED
  BY <1>3, <1>4, <1>5

\* A linked stop and a stop of the whole schedule agree with the item's.
LEMMA LinkAgrees ==
  ASSUME StopInv, RunnerInv', Link \/ MarkBudget
  PROVE  Agreed'
<1>1. RunnerInv /\ ReasonInHand
  BY DEF StopInv, FinalInv
<1>2. CASE Link
  <2> DEFINE i == runner.item
             update == runner.update
             items == Put(i, update)
  <2>1. /\ journal \in Journal /\ journal.items \in [Items -> Item] /\ i \in Items
        /\ \A k \in Items : k # i => journal.items[k].reason = "none"
    BY <1>1, <1>2, ReasonsInHand, OnRecord DEF Link, At
  <2>2. /\ ItemSound(update) /\ update \in Item /\ update.status \in Scored \cup {"stopped"}
        /\ Status(i) \in {"running", "interrupted"}
    BY <1>1, <1>2 DEF Link, At, RunnerInv, RunnerSound
  <2>3. items[i] = update /\ \A k \in Items : k # i => items[k] = journal.items[k]
    BY <2>1, PutReads
  <2>4. journal'.items = items
        /\ journal'.reason = IF update.reason # "none" THEN update.reason ELSE journal.reason
    BY <1>1, <1>2, LinkReads DEF Reads
  <2>5. update.reason = "none" => journal.reason = "none"
    <3>1. update.reason = "none" => update.status \in Scored
      BY <2>2 DEF ItemSound
    <3> QED
      BY <1>1, <1>2, <3>1 DEF ReasonInHand, Link, At
  <2>6. \A k \in Items : k # i => Status(k) # "running"
    BY <1>1, <2>1, <2>2, NoneRunsBeside DEF Scored
  <2> HIDE DEF i, update, items
  <2>7. \A k \in Items : items[k].status # "running" /\ items[k].reason \in {"none", update.reason}
    BY <2>1, <2>2, <2>3, <2>6 DEF Scored, Status
  <2>8. CASE update.reason # "none"
    BY <2>1, <2>3, <2>4, <2>7, <2>8, StopAgrees
  <2>9. CASE update.reason = "none"
    BY <2>4, <2>5, <2>7, <2>9, CleanAgrees
  <2> QED
    BY <2>8, <2>9
<1>3. CASE MarkBudget
  <2>1. PICK items :
          /\ Reads(items, "budget", journal.billing, "incomplete_budget", journal.baselines)
          /\ \A k \in Items :
               \/ items[k] = journal.items[k]
               \/ /\ k >= runner.item
                  /\ Status(k) \in {"pending", "running", "interrupted"}
                  /\ items[k].status = "not_run_budget" /\ items[k].reason = "budget"
    BY <1>1, <1>3, MarkBudgetReads
  <2>2. /\ journal \in Journal /\ runner.item \in Items
        /\ \A k \in Items : journal.items[k].reason \in {"none", "budget"}
        /\ Status(runner.item) \in {"running", "stopped"}
    BY <1>1, <1>3, ReasonsInHand DEF MarkBudget, At, RunnerInv, RunnerSound
  <2>3. journal' \in Journal /\ journal'.items = items /\ journal'.reason = "budget"
    BY <1>1, <1>3, <2>1, <2>2, RunnerStep DEF Reads, ScoresKept, Next, Loop
  <2>4. \A k \in Items : items[k].reason \in {"none", "budget"}
    BY <2>1, <2>2
  <2> DEFINE i == runner.item
             skip(k) == k >= i /\ Status(k) \in {"pending", "running", "interrupted"}
  <2>5. items[i].status # "running" /\ items[i].reason = "budget"
    <3>1. CASE Status(i) = "running"
      <4>1. journal'.items = [k \in Items |-> IF skip(k)
                THEN [journal.items[k] EXCEPT !.status = "not_run_budget", !.reason = "budget"]
                ELSE journal.items[k]]
        <5>1. journal.items \in [Items -> Item]
          BY <1>1, <2>2, OnRecord
        <5> QED
          BY <1>3, <2>2, <5>1, Zenon DEF MarkBudget, Write, Journal, Status
      <4>2. skip(i) /\ i \in Items /\ journal.items[i] \in Item
        <5>1. runner.item \in Nat
          BY <2>2, ItemsAreNumbers
        <5>2. runner.item >= runner.item
          BY <5>1
        <5>3. journal.items[runner.item] \in Item
          BY <1>1, <2>2, OnRecord
        <5> QED
          BY <2>2, <3>1, <5>2, <5>3
      <4>3. items[i] = [journal.items[i] EXCEPT !.status = "not_run_budget", !.reason = "budget"]
        <5> HIDE DEF skip, i
        <5> QED
          BY <2>3, <4>1, <4>2
      <4> QED
        BY <4>2, <4>3 DEF Item
    <3>2. CASE Status(i) = "stopped"
      <4>1. items[i] = journal.items[i]
        BY <2>1, <2>2, <3>2
      <4>2. journal.items[i].reason # "none"
        BY <1>1, <2>2, <3>2, OnRecord DEF ItemSound, Status
      <4> QED
        BY <2>2, <3>2, <4>1, <4>2 DEF Status
    <3> QED
      BY <2>2, <3>1, <3>2
  <2>6. \A k \in Items : k # i => items[k].status # "running"
    <3>1. \A k \in Items : k # i => Status(k) # "running"
      BY <1>1, <2>2, NoneRunsBeside DEF Scored
    <3> QED
      BY <2>1, <3>1 DEF Status
  <2> QED
    BY <2>2, <2>3, <2>4, <2>5, <2>6, StopAgrees
<1> QED
  BY <1>2, <1>3

\* What invocations, audits and interruptions write agrees.
LEMMA ResumeAgrees ==
  ASSUME StopInv, Agreed, RunnerInv',
         \/ AuditDone \/ ExecInterrupted \/ ResumeStopped
         \/ \E batch \in Batches : Recover(batch) \/ ResumeRunning(batch) \/ ResumePaused(batch)
  PROVE  Agreed'
<1>1. RunnerInv /\ ReasonInHand /\ StopRecorded
  BY DEF StopInv, FinalInv
<1>2. CASE AuditDone
  <2> DEFINE entry == Entry("pending", "none")
  <2>1. /\ journal \in Journal /\ journal.items \in [Items -> Item] /\ runner.item \in Items
        /\ \A k \in Items : k # runner.item => journal.items[k].reason = "none"
    BY <1>1, <1>2, ReasonsInHand, OnRecord DEF AuditDone, At
  <2>2. \/ UNCHANGED journal
        \/ Reads(Put(runner.item, entry), "none", journal.billing, "running", journal.baselines)
    BY <1>1, <1>2, AuditReads
  <2>3. entry.reason = "none"
    BY DEF Entry
  <2> HIDE DEF entry
  <2>4. CASE UNCHANGED journal
    BY <2>4 DEF Agreed, ReasonsAgree
  <2>5. CASE Reads(Put(runner.item, entry), "none", journal.billing, "running", journal.baselines)
    <3>1. \A k \in Items : journal'.items[k].reason = "none"
      BY <2>1, <2>3, <2>5, PutReads DEF Reads
    <3> QED
      BY <2>5, <3>1, CleanAgrees DEF Reads
  <2> QED
    BY <2>2, <2>4, <2>5
<1>3. CASE ExecInterrupted \/ \E batch \in Batches : ResumeRunning(batch)
  <2> DEFINE entry == Entry("interrupted", "process_interruption")
  <2>1. PICK i \in Items :
          /\ Status(i) = "running"
          /\ Reads(Put(i, entry), "process_interruption", journal.billing, "interrupted", journal.baselines)
    BY <1>1, <1>3, InterruptionReads
  <2>2. journal \in Journal /\ journal.items \in [Items -> Item]
    BY <1>1, <1>3, ResumeTypes, OnRecord DEF ExecInterrupted, ResumeRunning, At, RunnerInv, RunnerSound
  <2>3. journal.reason = "none" /\ \A k \in Items : journal.items[k].reason = "none"
    BY <2>1, <2>2 DEF Agreed, ReasonsAgree, Status
  <2>4. \A k \in Items : k # i => Status(k) # "running"
    BY <1>1, <2>1, <2>2, NoneRunsBeside DEF Scored
  <2>5. entry.reason = "process_interruption" /\ entry.status = "interrupted"
    BY DEF Entry
  <2> HIDE DEF entry
  <2>6. /\ journal'.items[i] = entry /\ journal'.reason = "process_interruption"
        /\ \A k \in Items : k # i => journal'.items[k] = journal.items[k]
    BY <2>1, <2>2, PutReads DEF Reads
  <2> QED
    BY <2>3, <2>4, <2>5, <2>6, StopAgrees DEF Status
<1>4. CASE ResumeStopped
  <2>1. /\ journal \in Journal /\ ~Resumable
        /\ journal'.items = journal.items /\ journal'.reason = PersistedReason
    BY <1>1, <1>4, ResumeTypes, ResumeReads DEF ResumeStopped, Reads
  <2>2. journal.reason = PersistedReason
    BY <1>1, <2>1 DEF StopRecorded, StopKept
  <2> QED
    BY <2>1, <2>2 DEF Agreed, ReasonsAgree
<1>5. ASSUME NEW batch \in Batches, Recover(batch) PROVE Agreed'
  <2>1. PICK items :
          /\ Reads(items, "none", FALSE, "running", journal.baselines)
          /\ \A k \in Items :
               \/ items[k] = journal.items[k] /\ journal.items[k].reason \notin Recoverable
               \/ items[k] = Entry("pending", "none")
    BY <1>1, <1>5, RecoverReads
  <2>2. journal \in Journal
    BY <1>1, <1>5 DEF Recover, RunnerInv, RunnerTypes
  <2>3. Entry("pending", "none").reason = "none"
    BY DEF Entry
  <2>4. \A k \in Items : items[k].reason = "none"
    <3>1. PICK i \in Items : journal.items[i].reason \in Recoverable
      BY <1>5, Zenon DEF Recover
    <3>2. \A k \in Items : k # i => journal.items[k].reason = "none"
      BY <1>1, <2>2, <3>1, OnRecord DEF ReasonAlone, Recoverable
    <3> QED
      BY <2>1, <2>3, <3>1, <3>2
  <2> QED
    BY <2>1, <2>4, CleanAgrees DEF Reads
<1>6. ASSUME NEW batch \in Batches, ResumePaused(batch) PROVE Agreed'
  <2>1. /\ journal \in Journal /\ Resumable /\ journal.reason = "user_paused"
        /\ journal'.items = journal.items /\ journal'.reason = "none"
    BY <1>1, <1>6, ResumeTypes, ResumeReads DEF ResumePaused, Reads
  <2>2. \A k \in Items : journal.items[k].reason = "none"
    BY <1>1, <2>1, PausedReasons
  <2> QED
    BY <2>1, <2>2, CleanAgrees
<1> QED
  BY <1>2, <1>3, <1>4, <1>5, <1>6

\* The executor leaves its item running, or comes to an end of it.
LEMMA ExecutorMoves ==
  ASSUME runner \in Runner, Executor
  PROVE  runner'.pc \in {"exec", "hand", "stop", "link"}
<1>1. ASSUME NEW t \in Tasks, ExecReserve(t) PROVE runner'.pc \in {"hand", "stop"}
  <2>1. (\E c : runner' = [runner EXCEPT !.pc = "hand", !.call = c]) \/ StopWith("budget")
    BY <1>1 DEF ExecReserve
  <2> QED
    BY <2>1 DEF StopWith, Runner
<1>2. ASSUME NEW c \in CallIds, ExecAnswer(c) PROVE runner'.pc \in {"exec", "stop"}
  <2>1. \/ StopWith("budget") \/ StopWith("usage_missing")
        \/ At("exec") /\ UNCHANGED runner
    BY <1>2 DEF ExecAnswer
  <2> QED
    BY <2>1 DEF StopWith, At, Runner
<1>3. ASSUME ExecHandOver \/ ExecFails \/ \E c \in CallIds : ExecTransportFails(c)
      PROVE  runner'.pc \in {"exec", "stop"}
  BY <1>3 DEF ExecHandOver, ExecFails, ExecTransportFails, StopWith, Runner
<1>4. ASSUME NEW result \in Scored, NEW drift \in BOOLEAN, ExecReturns(result, drift)
      PROVE  runner'.pc = "link"
  BY <1>4 DEF ExecReturns, Persist, Runner
<1> QED
  BY <1>1, <1>2, <1>3, <1>4 DEF Executor

\* The loop goes on with nothing running.
LEMMA QuietStep ==
  StopInv /\ Agreed /\ Quiet /\ [Next]_vars => Quiet'
<1> SUFFICES ASSUME StopInv, Agreed, Quiet, [Next]_vars,
                    runner'.pc \in {"begin", "loop", "pause"}, NEW k \in Items
             PROVE  journal'.items[k].status # "running"
  BY DEF Quiet, Status
<1>1. RunnerInv /\ runner \in Runner
  BY DEF StopInv, FinalInv, RunnerInv, RunnerTypes
<1>2. ASSUME Executor PROVE FALSE
  BY <1>1, <1>2, ExecutorMoves
<1>3. ASSUME NextItem \/ Finish \/ StopItem \/ Pause \/ MarkBudget \/ ExecInterrupted \/ Crash PROVE FALSE
  <2>1. \/ runner' = Down
        \/ \E i : runner' = [runner EXCEPT !.pc = "exec", !.item = i]
        \/ runner' = [runner EXCEPT !.pc = "budget"]
        \/ Persist(runner.item, Diagnostic(runner.item), "stopped", runner.update.reason)
    BY <1>3 DEF NextItem, Finish, StopItem, Pause, MarkBudget, ExecInterrupted, Crash, Goto
  <2>2. Persist(runner.item, Diagnostic(runner.item), "stopped", runner.update.reason) => runner'.pc = "link"
    BY <1>1, StopIsPersisted
  <2>3. ASSUME NEW i, runner' = [runner EXCEPT !.pc = "exec", !.item = i] PROVE runner'.pc = "exec"
    BY <1>1, <2>3 DEF Runner
  <2>4. runner' = [runner EXCEPT !.pc = "budget"] => runner'.pc = "budget"
    BY <1>1 DEF Runner
  <2>5. runner' = Down => runner'.pc = "down"
    BY DEF Down
  <2>6. runner'.pc \in {"exec", "budget", "down", "link"}
    BY <2>1, <2>2, <2>3, <2>4, <2>5, Zenon
  <2> QED
    BY <2>6
<1>4. CASE UNCHANGED vars \/ \E c \in CallIds : AuditCall(c) \/ OperatorAuthorizes(c)
  BY <1>4 DEF vars, AuditCall, OperatorAuthorizes, diskVars, Quiet, Status
<1>5. CASE CreateJournal
  BY <1>1, <1>5, LoopReads DEF Reads, Entry
<1>6. CASE Begin
  BY <1>1, <1>6, LoopReads DEF Reads, Begin, At, Quiet, Status
<1>7. CASE Link
  <2>1. /\ journal \in Journal /\ journal.items \in [Items -> Item] /\ runner.item \in Items
        /\ Status(runner.item) \in {"running", "interrupted"}
        /\ runner.update.status \in Scored \cup {"stopped"}
    BY <1>1, <1>7, OnRecord DEF Link, At, RunnerInv, RunnerSound
  <2>2. journal'.items = Put(runner.item, runner.update)
    BY <1>1, <1>7, LinkReads DEF Reads
  <2> QED
    BY <1>1, <2>1, <2>2, PutReads, NoneRunsBeside DEF Scored, Status
<1>8. CASE AuditDone
  <2>1. /\ journal \in Journal /\ journal.items \in [Items -> Item] /\ runner.item \in Items
        /\ Status(runner.item) = "interrupted"
    BY <1>1, <1>8, OnRecord DEF AuditDone, At, RunnerInv, RunnerSound
  <2>2. \/ UNCHANGED journal
        \/ journal'.items = Put(runner.item, Entry("pending", "none"))
    BY <1>1, <1>8, AuditReads DEF Reads
  <2>3. Entry("pending", "none").status = "pending"
    BY DEF Entry
  <2> QED
    BY <1>1, <2>1, <2>2, <2>3, PutReads, NoneRunsBeside DEF Scored, Status
<1>9. ASSUME NEW batch \in Batches,
             Run(batch) \/ ResumeRunning(batch) \/ ResumeInterrupted(batch)
      PROVE  FALSE
  <2>1. \E pc \in {"create", "audit"} : \E i, left :
          runner' = [Down EXCEPT !.pc = pc, !.left = left]
          \/ runner' = [Down EXCEPT !.pc = pc, !.item = i, !.left = left]
    BY <1>9 DEF Run, ResumeRunning, ResumeInterrupted
  <2> QED
    BY <2>1 DEF Down
<1>10. ASSUME NEW batch \in Batches, ResumePaused(batch) \/ ResumeIdle(batch)
       PROVE  journal'.items[k].status # "running"
  <2>1. With({"running"}) = {} /\ journal'.items = journal.items
    BY <1>1, <1>10, ResumeReads DEF ResumePaused, ResumeIdle, Reads
  <2> QED
    BY <2>1 DEF With, Status
<1>11. CASE ResumeStopped
  BY <1>11 DEF ResumeStopped, Resume, At
<1>12. ASSUME NEW batch \in Batches, Recover(batch)
       PROVE  journal'.items[k].status # "running"
  <2>1. PICK items :
          /\ Reads(items, "none", FALSE, "running", journal.baselines)
          /\ \A i \in Items :
               \/ items[i] = journal.items[i] /\ journal.items[i].reason \notin Recoverable
               \/ items[i] = Entry("pending", "none")
    BY <1>1, <1>12, RecoverReads
  <2>2. journal \in Journal
    BY <1>1, <1>12 DEF Recover, RunnerInv, RunnerTypes
  <2>3. Entry("pending", "none").status = "pending"
    BY DEF Entry
  <2>4. PICK i \in Items : journal.items[i].reason \in Recoverable
    BY <1>12, Zenon DEF Recover
  <2>5. k # i => Status(k) # "running"
    BY <1>1, <2>2, <2>4, RecoverableStopped, NoneRunsBeside DEF Scored
  <2> QED
    BY <2>1, <2>3, <2>4, <2>5 DEF Reads, Status
<1> QED
  BY <1>2, <1>3, <1>4, <1>5, <1>6, <1>7, <1>8, <1>9, <1>10, <1>11, <1>12 DEF Next, Loop, Invocation

\* Every step keeps the journal in agreement with itself.
LEMMA AgreesStep ==
  StopInv /\ Agreed /\ Quiet /\ [Next]_vars => Agreed'
<1> SUFFICES ASSUME StopInv, Agreed, Quiet, [Next]_vars PROVE Agreed'
  OBVIOUS
<1>1. RunnerInv'
  BY RunnerStep DEF StopInv, FinalInv
<1>2. CASE UNCHANGED journal
  BY <1>2 DEF Agreed, ReasonsAgree
<1> QED
  BY <1>1, <1>2, OthersRead, LoopAgrees, LinkAgrees, ResumeAgrees

(***************************************************************************)
(* Calls flagged as billing-uncertain.                                     *)
(***************************************************************************)

\* The executor stays with its item, and with the journal as it is.
LEMMA ExecutorStays ==
  ASSUME runner \in Runner, Executor
  PROVE  runner'.item = runner.item /\ journal' = journal /\ runner.pc \in {"exec", "hand"}
<1>1. ASSUME NEW t \in Tasks, ExecReserve(t)
      PROVE  runner'.item = runner.item /\ journal' = journal /\ runner.pc = "exec"
  <2>1. (\E c : runner' = [runner EXCEPT !.pc = "hand", !.call = c]) \/ StopWith("budget")
    BY <1>1 DEF ExecReserve
  <2> QED
    BY <1>1, <2>1 DEF ExecReserve, StopWith, Runner, diskVars, At
<1>2. ASSUME NEW c \in CallIds, ExecAnswer(c)
      PROVE  runner'.item = runner.item /\ journal' = journal /\ runner.pc = "exec"
  <2>1. StopWith("budget") \/ StopWith("usage_missing") \/ UNCHANGED runner
    BY <1>2 DEF ExecAnswer
  <2> QED
    BY <1>2, <2>1 DEF ExecAnswer, StopWith, Runner, diskVars, At
<1>3. ASSUME ExecHandOver \/ ExecFails \/ \E c \in CallIds : ExecTransportFails(c)
      PROVE  runner'.item = runner.item /\ journal' = journal /\ runner.pc \in {"exec", "hand"}
  BY <1>3 DEF ExecHandOver, ExecFails, ExecTransportFails, StopWith, Runner, diskVars, At
<1>4. ASSUME NEW result \in Scored, NEW drift \in BOOLEAN, ExecReturns(result, drift)
      PROVE  runner'.item = runner.item /\ journal' = journal /\ runner.pc = "exec"
  BY <1>4 DEF ExecReturns, Persist, Runner, At
<1> QED
  BY <1>1, <1>2, <1>3, <1>4 DEF Executor

\* Where the runner goes otherwise.
LEMMA RunnerRests ==
  ASSUME \/ CreateJournal \/ Begin \/ Finish \/ Pause \/ MarkBudget \/ ExecInterrupted \/ Crash
         \/ Invocation,
         runner \in Runner
  PROVE  runner'.pc \in {"down", "create", "begin", "loop", "audit"}
<1>1. ASSUME NEW items, NEW batch, Continue(items, batch) PROVE runner'.pc \in {"down", "begin"}
  BY <1>1, GoesOn
<1>2. CASE CreateJournal \/ Begin
  BY <1>2 DEF CreateJournal, Begin, Goto, Runner
<1>3. CASE Finish \/ Pause \/ MarkBudget \/ ExecInterrupted \/ Crash
  BY <1>3 DEF Finish, Pause, MarkBudget, ExecInterrupted, Crash, Down
<1>4. CASE ResumeStopped
  BY <1>4 DEF ResumeStopped, Resume, At
<1>5. ASSUME NEW batch \in Batches, Run(batch) \/ ResumeRunning(batch) \/ ResumeInterrupted(batch)
      PROVE  runner'.pc \in {"create", "audit"}
  BY <1>5 DEF Run, ResumeRunning, ResumeInterrupted, Down
<1>6. ASSUME NEW batch \in Batches, ResumePaused(batch) \/ ResumeIdle(batch) \/ Recover(batch)
      PROVE  runner'.pc \in {"down", "begin"}
  <2>1. \E items : Continue(items, batch)
    BY <1>6 DEF ResumePaused, ResumeIdle, Recover
  <2> QED
    BY <1>1, <2>1
<1> QED
  BY <1>2, <1>3, <1>4, <1>5, <1>6 DEF Invocation

\* An entry comes to be a stop by being linked.
LEMMA StoppedByLink ==
  ASSUME RunnerInv, [Next]_vars, ~Link, journal \in Journal, NEW i \in Items
  PROVE  journal'.items[i] = journal.items[i] \/ journal'.items[i].status # "stopped"
<1>1. journal.items \in [Items -> Item] /\ runner.pc = "audit" => runner.item \in Items
  BY OnRecord DEF RunnerInv, RunnerSound
<1>2. ASSUME NEW k \in Items, NEW status, NEW reason, status # "stopped",
             journal'.items = Put(k, Entry(status, reason))
      PROVE  journal'.items[i] = journal.items[i] \/ journal'.items[i].status # "stopped"
  <2>1. Entry(status, reason).status = status
    BY DEF Entry
  <2> HIDE DEF Entry
  <2> QED
    BY <1>2, <2>1, OnRecord, PutReads
<1>3. CASE UNCHANGED journal
  BY <1>3
<1>4. CASE CreateJournal
  BY <1>4, LoopReads, NoneAssumption
<1>5. CASE Begin \/ Finish \/ Pause \/ ResumeStopped \/ \E batch \in Batches : ResumePaused(batch)
  BY <1>5, LoopReads, ResumeReads DEF Reads
<1>6. CASE NextItem \/ ExecInterrupted \/ \E batch \in Batches : ResumeRunning(batch)
  <2>1. \E k \in Items, status \in {"running", "interrupted"}, reason \in {"none", "process_interruption"} :
          journal'.items = Put(k, Entry(status, reason))
    BY <1>6, NextItemReads, InterruptionReads DEF Reads
  <2>2. PICK k \in Items, status \in {"running", "interrupted"}, reason \in {"none", "process_interruption"} :
          journal'.items = Put(k, Entry(status, reason))
    BY <2>1
  <2>3. status # "stopped"
    OBVIOUS
  <2> QED
    BY <1>2, <2>2, <2>3
<1>7. CASE AuditDone
  <2>1. runner.item \in Items
    BY <1>7 DEF AuditDone, At, RunnerInv, RunnerSound
  <2> QED
    BY <1>2, <1>7, <2>1, AuditReads DEF Reads
<1>8. CASE MarkBudget
  <2>1. PICK items :
          /\ Reads(items, "budget", journal.billing, "incomplete_budget", journal.baselines)
          /\ \A k \in Items : items[k] = journal.items[k] \/ items[k].status = "not_run_budget"
    BY <1>8, MarkBudgetReads
  <2> QED
    BY <2>1 DEF Reads
<1>9. ASSUME NEW batch \in Batches, Recover(batch)
      PROVE  journal'.items[i] = journal.items[i] \/ journal'.items[i].status # "stopped"
  <2>1. PICK items :
          /\ Reads(items, "none", FALSE, "running", journal.baselines)
          /\ \A k \in Items : items[k] = journal.items[k] \/ items[k] = Entry("pending", "none")
    BY <1>9, RecoverReads
  <2>2. Entry("pending", "none").status = "pending"
    BY DEF Entry
  <2> QED
    BY <2>1, <2>2 DEF Reads
<1> QED
  BY <1>3, <1>4, <1>5, <1>6, <1>7, <1>8, <1>9, OthersRead

\* A call of item i is flagged: its billing is uncertain, as the provider's
\* answer was lost or an audit found it open.
Flag(i) == RowsIn(i, {"billing_uncertain"}) # {}

\* The item of a flagged call is stopped for nothing less, now and when the stop
\* is journaled; and it is not executed.
Flagged ==
  \A i \in Items : Flag(i) =>
    /\ Status(i) = "stopped" => journal.items[i].reason = "billing_uncertain"
    /\ runner.item = i => runner.pc \notin {"exec", "hand"}
    /\ runner.item = i /\ runner.pc \in {"stop", "link"} => runner.update.reason = "billing_uncertain"

\* A call is flagged by the executor that loses its answer, or by an audit.
LEMMA FlaggedBy ==
  ASSUME RunnerInv, FlightSound, [Next]_vars, NEW i \in Items, Flag(i)', ~Flag(i)
  PROVE  \/ /\ runner.pc = "exec" /\ runner.item = i /\ UNCHANGED journal
            /\ runner'.item = i /\ runner'.pc = "stop" /\ runner'.update.reason = "billing_uncertain"
         \/ runner.pc = "audit" /\ runner.item = i /\ UNCHANGED <<journal, runner>>
<1>1. PICK t \in Tasks : calls'[<<i, t>>].state = "billing_uncertain"
  BY DEF Flag, RowsIn
<1> DEFINE c == <<i, t>>
<1>2. c \in CallIds /\ c[1] = i /\ calls'[c].state = "billing_uncertain"
      /\ calls[c].state # "billing_uncertain"
  BY <1>1, RunnerAssumption DEF Flag, RowsIn
<1> HIDE DEF c
<1>3. calls \in [CallIds -> Row] /\ runner \in Runner /\ calls'[c] # calls[c]
  BY <1>2 DEF RunnerInv, RunnerTypes, StoreTypeOK
<1>4. /\ runner.pc \in {"exec", "hand", "audit"} /\ c[1] = runner.item
  BY <1>2, <1>3, RowsStay
<1>5. ASSUME NEW d \in CallIds, ExecTransportFails(d)
      PROVE  /\ runner.pc = "exec" /\ runner.item = i /\ UNCHANGED journal
             /\ runner'.item = i /\ runner'.pc = "stop" /\ runner'.update.reason = "billing_uncertain"
  <2> DEFINE update == [status |-> "stopped", reason |-> "billing_uncertain", artifact |-> None]
  <2>1. runner' = [runner EXCEPT !.pc = "stop", !.call = None, !.update = update]
        /\ runner.pc = "exec" /\ UNCHANGED journal
    BY <1>5 DEF ExecTransportFails, StopWith, At, diskVars
  <2>2. update.reason = "billing_uncertain"
    OBVIOUS
  <2> HIDE DEF update
  <2> QED
    BY <1>2, <1>3, <1>4, <2>1, <2>2 DEF Runner
<1>6. ASSUME NEW d \in CallIds, AuditCall(d)
      PROVE  runner.pc = "audit" /\ runner.item = i /\ UNCHANGED <<journal, runner>>
  BY <1>2, <1>4, <1>6 DEF AuditCall, At, diskVars
<1>7. ASSUME NEW d \in CallIds, ExecAnswer(d) \/ OperatorAuthorizes(d) PROVE FALSE
  <2>1. \/ \E usage \in Usages : CompleteCall(d, TheRequest, ThePayload, usage)
        \/ \E audit \in Audits : AuthorizeBillingUncertainRetry(d, audit)
    BY <1>7 DEF ExecAnswer, OperatorAuthorizes
  <2>2. ASSUME NEW usage \in Usages, CompleteCall(d, TheRequest, ThePayload, usage) PROVE FALSE
    <3>1. \E state \in {"completed", "usage_missing"} :
            calls' = [calls EXCEPT ![d].state = state, ![d].actual = usage.cost, ![d].payload = ThePayload]
      BY <2>2 DEF CompleteCall
    <3> QED
      BY <1>2, <1>3, <3>1 DEF Row
  <2>3. ASSUME NEW audit \in Audits, AuthorizeBillingUncertainRetry(d, audit) PROVE FALSE
    BY <1>2, <1>3, <2>3 DEF AuthorizeBillingUncertainRetry, Row
  <2> QED
    BY <2>1, <2>2, <2>3
<1>8. ASSUME NEW t2 \in Tasks, ExecReserve(t2) PROVE FALSE
  <2>1. (\E amount \in Estimates : ReserveCall(<<runner.item, t2>>, TheRequest, <<runner.item, t2>>, amount))
        \/ UNCHANGED storeVars
    BY <1>8 DEF ExecReserve
  <2>2. PICK amount \in Estimates : ReserveCall(<<runner.item, t2>>, TheRequest, <<runner.item, t2>>, amount)
    BY <1>3, <2>1 DEF storeVars
  <2> DEFINE d == <<runner.item, t2>>
             row == [Absent EXCEPT !.state = "reserved", !.slot = d, !.request = TheRequest, !.reserved = amount]
  <2>3. row.state = "reserved" /\ calls' = [calls EXCEPT ![d] = row]
    BY <2>2 DEF ReserveCall, Absent
  <2> HIDE DEF d, row
  <2> QED
    BY <1>2, <1>3, <2>3
<1>9. ASSUME ExecHandOver PROVE FALSE
  BY <1>2, <1>3, <1>9 DEF ExecHandOver, MarkSent, Row
<1>10. ~UNCHANGED storeVars
  BY <1>3 DEF storeVars
<1>11. \/ Executor \/ \E d \in CallIds : AuditCall(d) \/ OperatorAuthorizes(d)
  BY <1>10 DEF Next, Loop, CreateJournal, Begin, NextItem, Finish, StopItem, Link, Pause, MarkBudget,
     AuditDone, Invocation, ResumeStopped, Run, Recover, ResumeRunning, ResumeInterrupted,
     ResumePaused, ResumeIdle, Resume, ExecInterrupted, Crash, vars
<1>12. ~ExecFails /\ ~\E result \in Scored, drift \in BOOLEAN : ExecReturns(result, drift)
  BY <1>10 DEF ExecFails, ExecReturns
<1> QED
  BY <1>5, <1>6, <1>7, <1>8, <1>9, <1>11, <1>12 DEF Executor

\* Every step keeps it so.
LEMMA FlaggedStep ==
  StopInv /\ Quiet /\ Flagged /\ [Next]_vars => Flagged'
<1> SUFFICES ASSUME StopInv, Quiet, Flagged, [Next]_vars, NEW i \in Items, Flag(i)'
             PROVE  /\ journal'.items[i].status = "stopped" =>
                         journal'.items[i].reason = "billing_uncertain"
                    /\ runner'.item = i => runner'.pc \notin {"exec", "hand"}
                    /\ runner'.item = i /\ runner'.pc \in {"stop", "link"} =>
                         runner'.update.reason = "billing_uncertain"
  BY DEF Flagged, Status
<1>1. RunnerInv /\ FlightSound /\ runner \in Runner
  BY DEF StopInv, FinalInv, RunnerInv, RunnerTypes
<1>2. CASE ~Flag(i)
  <2>1. /\ runner.pc \in {"exec", "audit"} /\ runner.item = i /\ UNCHANGED journal
        /\ \/ runner'.pc = "stop" /\ runner'.update.reason = "billing_uncertain"
           \/ runner'.pc = "audit"
    BY <1>1, <1>2, FlaggedBy
  <2>2. journal.items[i].status \in {"running", "interrupted"}
    BY <1>1, <2>1 DEF RunnerInv, RunnerSound, Status
  <2> QED
    BY <2>1, <2>2
<1>3. CASE Flag(i)
  <2>1. /\ RowsIn(i, Unknown) # {} /\ journal \in Journal
        /\ Status(i) \in {"running", "interrupted", "stopped"}
        /\ Status(i) = "stopped" => journal.items[i].reason = "billing_uncertain"
        /\ runner.item = i => runner.pc \notin {"exec", "hand"}
        /\ runner.item = i /\ runner.pc \in {"stop", "link"} => runner.update.reason = "billing_uncertain"
    <3>1. RowsIn(i, Unknown) # {}
      BY <1>3 DEF Flag, RowsIn, Unknown
    <3>2. Surfaced(i)
      BY <3>1 DEF StopInv, AllSurfaced
    <3> QED
      BY <1>3, <3>1, <3>2 DEF Surfaced, Flagged
  <2>2. CASE Link
    <3> DEFINE update == runner.update
    <3>1. /\ journal.items \in [Items -> Item] /\ runner.item \in Items
          /\ runner.pc = "link" /\ ItemSound(update)
      BY <1>1, <2>1, <2>2, OnRecord DEF Link, At, RunnerInv, RunnerSound
    <3>2. /\ journal'.items = Put(runner.item, update)
          /\ runner'.pc \in {"budget", "down", "pause", "loop"}
      BY <1>1, <2>2, LinkReads DEF Reads
    <3>3. /\ journal'.items[runner.item] = update
          /\ runner.item # i => journal'.items[i] = journal.items[i]
      <4> HIDE DEF update
      <4> QED
        BY <3>1, <3>2, PutReads
    <3> QED
      BY <2>1, <3>1, <3>2, <3>3 DEF Status
  <2>3. ~Link => /\ journal'.items[i].status = "stopped" =>
                      journal'.items[i].reason = "billing_uncertain"
    BY <1>1, <2>1, StoppedByLink DEF Status
  <2>4. CASE Executor
    <3>1. runner'.item # i /\ journal' = journal
      BY <1>1, <2>1, <2>4, ExecutorStays
    <3> QED
      BY <2>1, <3>1 DEF Status
  <2>5. CASE NextItem
    <3>1. PICK k \in Items :
            /\ Status(k) \in {"pending", "running"} /\ runner' = [runner EXCEPT !.pc = "exec", !.item = k]
      BY <1>1, <2>5, NextItemReads
    <3>2. k # i /\ ~Link
      <4>1. runner.pc = "loop"
        BY <2>5 DEF NextItem, At
      <4>2. Status(k) # "running" /\ Status(i) # "running"
        BY <4>1 DEF Quiet
      <4> QED
        BY <2>1, <3>1, <4>1, <4>2 DEF Link, At
    <3>3. runner'.item # i
      BY <1>1, <3>1, <3>2 DEF Runner
    <3> QED
      BY <2>3, <3>2, <3>3
  <2>6. CASE StopItem
    <3> DEFINE k == runner.item
               reason == runner.update.reason
    <3>1. /\ runner.pc = "stop" /\ UNCHANGED journal
          /\ \/ runner' = [runner EXCEPT !.pc = "budget"]
             \/ Persist(k, Diagnostic(k), "stopped", reason)
      BY <2>6 DEF StopItem, At, Goto
    <3>2. ~(runner' = [runner EXCEPT !.pc = "budget"]) =>
            runner'.pc = "link" /\ runner'.item = k /\ runner'.update.reason = reason
      <4> DEFINE artifact == Diagnostic(k)
                 update == [status |-> "stopped", reason |-> reason, artifact |-> artifact]
      <4>1. update.reason = reason
        OBVIOUS
      <4>2. Persist(k, artifact, "stopped", reason) =>
              runner' = [runner EXCEPT !.pc = "link", !.item = k, !.update = update]
        BY DEF Persist
      <4> HIDE DEF update, artifact, k, reason
      <4>3. Persist(k, artifact, "stopped", reason) =>
              runner'.pc = "link" /\ runner'.item = k /\ runner'.update = update
        BY <1>1, <4>2 DEF Runner
      <4> QED
        BY <3>1, <4>1, <4>3 DEF k, reason, artifact
    <3>3. runner' = [runner EXCEPT !.pc = "budget"] => runner'.pc = "budget"
      BY <1>1 DEF Runner
    <3>4. ~Link
      BY <3>1 DEF Link, At
    <3> HIDE DEF reason
    <3> QED
      BY <2>1, <2>3, <3>1, <3>2, <3>3, <3>4 DEF reason
  <2>7. CASE AuditDone
    <3> DEFINE k == runner.item
    <3>1. runner.pc = "audit" /\ ~Link
      BY <2>7 DEF AuditDone, Link, At
    <3>2. \/ \E items : Continue(items, runner.left)
          \/ \E reason \in {"billing_uncertain", "usage_missing"} :
               /\ Persist(k, Diagnostic(k), "stopped", reason)
               /\ RowsIn(k, Unknown) # {} => reason = "billing_uncertain"
      BY <2>7 DEF AuditDone
    <3>3. CASE \E items : Continue(items, runner.left)
      BY <2>3, <3>1, <3>3, GoesOn
    <3>4. ASSUME NEW reason \in {"billing_uncertain", "usage_missing"},
                 Persist(k, Diagnostic(k), "stopped", reason),
                 RowsIn(k, Unknown) # {} => reason = "billing_uncertain"
          PROVE  /\ runner'.item = i => runner'.pc \notin {"exec", "hand"}
                 /\ runner'.item = i /\ runner'.pc \in {"stop", "link"} =>
                      runner'.update.reason = "billing_uncertain"
      <4> DEFINE artifact == Diagnostic(k)
                 update == [status |-> "stopped", reason |-> reason, artifact |-> artifact]
      <4>1. update.reason = reason
        OBVIOUS
      <4>2. runner' = [runner EXCEPT !.pc = "link", !.item = k, !.update = update]
        BY <3>4 DEF Persist
      <4> HIDE DEF update, artifact, k
      <4>3. runner'.item = k /\ runner'.update = update /\ runner'.pc = "link"
        BY <1>1, <4>2 DEF Runner
      <4> QED
        BY <2>1, <3>4, <4>1, <4>3
    <3> QED
      BY <2>3, <3>1, <3>2, <3>3, <3>4
  <2>8. CASE UNCHANGED vars \/ \E c \in CallIds : AuditCall(c) \/ OperatorAuthorizes(c)
    <3>1. UNCHANGED <<journal, runner>>
      BY <2>8 DEF vars, diskVars, AuditCall, OperatorAuthorizes
    <3> QED
      BY <2>1, <3>1 DEF Status
  <2>9. CASE \/ CreateJournal \/ Begin \/ Finish \/ Pause \/ MarkBudget \/ ExecInterrupted \/ Crash
             \/ Invocation
    <3>1. runner'.pc \in {"down", "create", "begin", "loop", "audit"}
      BY <1>1, <2>9, RunnerRests
    <3> QED
      BY <2>2, <2>3, <3>1
  <2> QED
    BY <2>2, <2>4, <2>5, <2>6, <2>7, <2>8, <2>9 DEF Next, Loop
<1> QED
  BY <1>2, <1>3

(***************************************************************************)
(* A pause leaves work to do.                                              *)
(***************************************************************************)

\* An item of the journal has not been begun.
Left(j) == \E i \in Items : j.items[i].status = "pending"

\* The runner pauses while items are left.
Waiting == journal \in Journal /\ (journal.reason = "user_paused" \/ At("pause")) => Left(journal)

\* The runner is about to pause because items are left.
LEMMA ComesToPause ==
  ASSUME RunnerInv, [Next]_vars, runner'.pc = "pause"
  PROVE  UNCHANGED <<journal, runner>> \/ Left(journal')
<1>1. runner \in Runner
  BY DEF RunnerInv, RunnerTypes
<1>2. ASSUME Executor PROVE FALSE
  BY <1>1, <1>2, ExecutorMoves
<1>3. ASSUME \/ CreateJournal \/ Begin \/ Finish \/ Pause \/ MarkBudget \/ ExecInterrupted \/ Crash
             \/ Invocation
      PROVE  FALSE
  BY <1>1, <1>3, RunnerRests
<1>4. ASSUME NextItem \/ StopItem \/ AuditDone PROVE FALSE
  <2>1. ASSUME NEW i, NEW reason, Persist(i, Diagnostic(i), "stopped", reason) PROVE FALSE
    BY <1>1, <2>1, StopIsPersisted
  <2>2. ASSUME NEW items, NEW batch, Continue(items, batch) PROVE FALSE
    BY <2>2, GoesOn
  <2>3. NextItem => \E i : runner' = [runner EXCEPT !.pc = "exec", !.item = i]
    BY DEF NextItem
  <2>4. StopItem => runner' = [runner EXCEPT !.pc = "budget"]
    BY <2>1 DEF StopItem, Goto
  <2>5. ~AuditDone
    BY <2>1, <2>2 DEF AuditDone
  <2> QED
    BY <1>1, <1>4, <2>3, <2>4, <2>5 DEF Runner
<1>5. CASE Link
  <2>1. journal'.items = Put(runner.item, runner.update)
    BY <1>5, LinkReads DEF Reads
  <2>2. CASE \E k \in Items : Put(runner.item, runner.update)[k].status = "pending"
    BY <2>1, <2>2 DEF Left
  <2>3. CASE ~\E k \in Items : Put(runner.item, runner.update)[k].status = "pending"
    <3>1. \/ \E left : runner' = [runner EXCEPT !.pc = "loop", !.left = left,
                                               !.item = 0, !.update = None]
          \/ runner' = [runner EXCEPT !.pc = "budget", !.update = None]
          \/ runner' = Down
      BY <1>5, <2>3 DEF Link, Put
    <3>2. ASSUME NEW left, runner' = [runner EXCEPT !.pc = "loop", !.left = left,
                                               !.item = 0, !.update = None]
          PROVE  FALSE
      BY <1>1, <3>2 DEF Runner
    <3>3. runner' # [runner EXCEPT !.pc = "budget", !.update = None]
      BY <1>1 DEF Runner
    <3>4. runner' # Down
      BY DEF Down
    <3> QED
      BY <3>1, <3>2, <3>3, <3>4
  <2> QED
    BY <2>2, <2>3
<1>6. CASE UNCHANGED vars \/ \E c \in CallIds : AuditCall(c) \/ OperatorAuthorizes(c)
  BY <1>6 DEF vars, diskVars, AuditCall, OperatorAuthorizes
<1> QED
  BY <1>2, <1>3, <1>4, <1>5, <1>6 DEF Next, Loop

\* A paused journal has items left, as nothing is written under a pause.
LEMMA WaitingStep ==
  StopInv /\ Waiting /\ [Next]_vars => Waiting'
<1> SUFFICES ASSUME StopInv, Waiting, [Next]_vars, journal' \in Journal,
                    journal'.reason = "user_paused" \/ runner'.pc = "pause"
             PROVE  Left(journal')
  BY DEF Waiting, At
<1>1. RunnerInv /\ ReasonInHand
  BY DEF StopInv, FinalInv
<1>2. CASE UNCHANGED journal /\ (journal.reason = "user_paused" \/ UNCHANGED runner)
  BY <1>2 DEF Waiting, Left, At
<1>3. CASE runner'.pc = "pause"
  BY <1>1, <1>2, <1>3, ComesToPause
<1>4. CASE journal'.reason = "user_paused" /\ ~UNCHANGED journal
  <2>1. CASE Begin \/ Finish \/ Pause
    <3>1. /\ journal'.items = journal.items
          /\ journal.reason = "user_paused" \/ runner.pc = "pause"
      BY <1>1, <1>4, <2>1, LoopReads DEF Reads, Pause, At
    <3>2. journal \in Journal
      BY <1>1, <2>1 DEF Begin, Finish, Pause, At, RunnerInv, RunnerSound
    <3> QED
      BY <3>1, <3>2 DEF Waiting, Left, At
  <2>2. ASSUME Link PROVE FALSE
    <3>1. /\ ItemSound(runner.update) /\ runner.pc = "link"
          /\ runner.update.status \in Scored \cup {"stopped"}
      BY <1>1, <2>2 DEF Link, At, RunnerInv, RunnerSound
    <3>2. runner.update.reason # "user_paused"
      BY <3>1 DEF ItemSound
    <3>3. journal.reason = "user_paused" /\ runner.update.reason = "none"
      BY <1>1, <1>4, <2>2, <3>2, LinkReads DEF Reads
    <3> QED
      BY <1>1, <3>1, <3>3 DEF ItemSound, ReasonInHand
  <2>3. ASSUME NextItem PROVE FALSE
    <3>1. journal.reason = "none" /\ journal'.reason = journal.reason
      BY <1>1, <2>3, NextItemReads DEF Reads, ReasonInHand, NextItem, At
    <3> QED
      BY <1>4, <3>1
  <2>4. ASSUME ResumeStopped PROVE FALSE
    BY <1>1, <1>4, <2>4, ResumeReads DEF Reads, ResumeStopped, Resumable
  <2>5. ASSUME CreateJournal \/ MarkBudget \/ AuditDone \/ ExecInterrupted PROVE FALSE
    BY <1>1, <1>4, <2>5, LoopReads, MarkBudgetReads, AuditReads, InterruptionReads DEF Reads
  <2>6. ASSUME NEW batch \in Batches, Recover(batch) \/ ResumeRunning(batch) \/ ResumePaused(batch)
        PROVE  FALSE
    BY <1>1, <1>4, <2>6, RecoverReads, InterruptionReads, ResumeReads DEF Reads
  <2> QED
    BY <1>4, <2>1, <2>2, <2>3, <2>4, <2>5, <2>6, OthersRead
<1> QED
  BY <1>2, <1>3, <1>4

\* What is true of the campaign under the service.
CampaignInv == StopInv /\ Agreed /\ Quiet /\ Flagged /\ Waiting

\* It is true at first and stays so.
LEMMA CampaignStep ==
  /\ ServiceInit => CampaignInv
  /\ CampaignInv /\ [ServiceNext]_evaluationVars => CampaignInv'
<1>1. ServiceInit => CampaignInv
  <2> SUFFICES ASSUME ServiceInit PROVE CampaignInv
    OBVIOUS
  <2>1. \A i \in Items : ~Flag(i)
    BY RunnerAssumption DEF ServiceInit, Init, StoreInit, Absent, Flag, RowsIn
  <2> QED
    BY <2>1, CampaignUnderService, NoneAssumption
    DEF ServiceInit, Init, Down, CampaignInv, Agreed, Quiet, Flagged, Waiting
<1>2. ASSUME CampaignInv, SideStep PROVE CampaignInv'
  <2>1. /\ UNCHANGED <<calls, journal>>
        /\ \/ UNCHANGED runner
           \/ runner'.pc = "down"
           \/ runner.pc = "exec" /\ runner'.pc = "stop" /\ runner'.item = runner.item
    <3>1. runner \in Runner /\ UNCHANGED <<calls, journal>>
      BY <1>2 DEF SideStep, storeVars, diskVars, CampaignInv, StopInv, FinalInv, RunnerInv, RunnerTypes
    <3>2. UNCHANGED runner \/ runner' = Down \/ (At("exec") /\ StopWith("internal_error"))
      BY <1>2 DEF SideStep, RunnerRefuses
    <3>3. StopWith("internal_error") => runner'.pc = "stop" /\ runner'.item = runner.item
      BY <3>1 DEF StopWith, Runner
    <3> QED
      BY <3>1, <3>2, <3>3 DEF Down, At
  <2>2. \A i : Flag(i)' = Flag(i) /\ Status(i)' = Status(i)
    BY <2>1 DEF Flag, RowsIn, Status
  <2>3. Agreed' /\ Quiet'
    BY <1>2, <2>1 DEF CampaignInv, Agreed, ReasonsAgree, Quiet, Status
  <2>4. Flagged'
    BY <1>2, <2>1, <2>2 DEF CampaignInv, Flagged
  <2>5. Waiting'
    BY <1>2, <2>1 DEF CampaignInv, Waiting, Left, At
  <2> QED
    BY <1>2, <2>3, <2>4, <2>5, SideStepSound DEF CampaignInv
<1> QED
  BY <1>1, <1>2, ServiceMoves, StopInvStep, AgreesStep, QuietStep, FlaggedStep, WaitingStep DEF CampaignInv

(***************************************************************************)
(* The statuses a record is made of.                                       *)
(***************************************************************************)

\* What every stop reason is reported as.
LEMMA TheStops ==
  /\ \A r \in StopReason : StopStatus[r] \notin {"planned", "running", "complete"}
  /\ \A r, q \in StopReason : StopStatus[r] = StopStatus[q] => r = q
  /\ "none" \notin StopReason
BY TheReasons DEF StopStatus

\* The status of a phase over sound items that carry one stop reason at most is
\* that of the stop, or that of work that was not stopped.
LEMMA PhaseStatuses ==
  ASSUME NEW j, NEW reason \in StopReason \cup {"none"}, ItemsSound(j.items),
         \A i \in Items : j.items[i].reason \in {"none", reason}, NEW phase
  PROVE  \/ PhaseStatus(j, phase) \in {"planned", "running", "complete"}
         \/ reason # "none" /\ PhaseStatus(j, phase) = StopStatus[reason]
<1> DEFINE items == {i \in Items : PhaseOf(i) = phase}
           reasons == {j.items[i].reason : i \in items}
           statuses == {j.items[i].status : i \in items}
<1>1. reasons \subseteq {"none", reason}
  OBVIOUS
<1>2. CASE HighestStopReason(reasons) # "none"
  <2>1. HighestStopReason(reasons) = reason /\ reason # "none"
    <3> HIDE DEF reasons
    <3> QED
      BY <1>1, <1>2, HighestIsAReason, TheStops
  <2> QED
    BY <1>2, <2>1 DEF PhaseStatus
<1>3. CASE HighestStopReason(reasons) = "none"
  <2>1. reasons \cap StopReason = {}
    <3> HIDE DEF reasons
    <3> QED
      BY <1>3, HighestIsAReason, TheStops
  <2>2. \A i \in items : j.items[i].reason = "none" /\ ItemSound(j.items[i])
    BY <1>1, <2>1 DEF ItemsSound
  <2>3. statuses \cap {"interrupted", "not_run_budget", "cancelled"} = {}
    BY <2>2 DEF ItemSound
  <2> QED
    BY <1>3, <2>3 DEF PhaseStatus
<1> QED
  BY <1>2, <1>3

\* Nothing but a status of a campaign comes out of deriving one.
LEMMA DerivedTypes ==
  /\ \A j, phase : PhaseStatus(j, phase) \in CampaignStatus
  /\ \A phases, reason, billing : DeriveActivityStatus(phases, reason, billing) \in CampaignStatus
<1>1. ASSUME NEW j, NEW phase PROVE PhaseStatus(j, phase) \in CampaignStatus
  <2> DEFINE reasons == {j.items[i].reason : i \in {i \in Items : PhaseOf(i) = phase}}
  <2>1. HighestStopReason(reasons) # "none" => StopStatus[HighestStopReason(reasons)] \in CampaignStatus
    BY HighestIsAReason, StatusIsAStatus
  <2> QED
    BY <2>1 DEF PhaseStatus, CampaignStatus
<1>2. ASSUME NEW phases, NEW reason, NEW billing
      PROVE  DeriveActivityStatus(phases, reason, billing) \in CampaignStatus
  <2> DEFINE reasons == {reason} \cup {r \in StopReason : StopStatus[r] \in phases}
                          \cup IF billing THEN {"billing_uncertain"} ELSE {}
  <2>1. HighestStopReason(reasons) # "none" => StopStatus[HighestStopReason(reasons)] \in CampaignStatus
    BY HighestIsAReason, StatusIsAStatus
  <2> QED
    BY <2>1 DEF DeriveActivityStatus, CampaignStatus
<1> QED
  BY <1>1, <1>2

\* An activity that is not stopped and has a phase under way is running.
LEMMA RunningActivity ==
  ASSUME NEW phases \in SUBSET {"planned", "running", "complete"}, "running" \in phases
  PROVE  DeriveActivityStatus(phases, "none", FALSE) = "running"
<1> DEFINE reasons == {"none"} \cup {r \in StopReason : StopStatus[r] \in phases} \cup {}
<1>1. reasons \cap StopReason = {}
  BY TheStops
<1>2. HighestStopReason(reasons) = "none"
  <2> HIDE DEF reasons
  <2> QED
    BY <1>1, HighestIsAReason
<1> QED
  BY <1>2 DEF DeriveActivityStatus

\* Uncertain billing comes before every other reason.
LEMMA BillingFirst ==
  ASSUME NEW R, "billing_uncertain" \in R
  PROVE  HighestStopReason(R) = "billing_uncertain"
<1> DEFINE least(n) == Precedence[n] \in R /\ \A m \in 1 .. n - 1 : Precedence[m] \notin R
           n == CHOOSE n \in 1 .. Len(Precedence) : least(n)
<1>1. Len(Precedence) = 8 /\ Precedence[1] = "billing_uncertain"
  BY DEF Precedence
<1>2. 1 \in 1 .. Len(Precedence) /\ least(1)
  BY <1>1
<1>3. n \in 1 .. Len(Precedence) /\ least(n)
  <2> HIDE DEF least
  <2> QED
    BY <1>2
<1>4. Precedence[n] = HighestStopReason(R)
  <2>1. R \cap StopReason # {}
    BY TheReasons
  <2> QED
    BY <2>1 DEF HighestStopReason
<1> HIDE DEF n
<1>5. n = 1
  <2>1. n \in Nat /\ n >= 1 /\ (n > 1 => 1 \in 1 .. n - 1)
    BY <1>1, <1>3
  <2> QED
    BY <1>1, <1>3, <2>1
<1> QED
  BY <1>1, <1>4, <1>5

\* An activity stopped for a reason has the status of that reason, when its
\* phases are stopped for no other or billing is uncertain.
LEMMA StoppedActivity ==
  ASSUME NEW phases, NEW reason \in StopReason, NEW billing \in BOOLEAN,
         billing <=> reason = "billing_uncertain",
         ~billing => \A q \in StopReason : StopStatus[q] \in phases => q = reason
  PROVE  DeriveActivityStatus(phases, reason, billing) = StopStatus[reason]
<1> DEFINE reasons == {reason} \cup {r \in StopReason : StopStatus[r] \in phases}
                        \cup IF billing THEN {"billing_uncertain"} ELSE {}
<1>1. HighestStopReason(reasons) = reason
  <2>1. CASE billing
    <3>1. "billing_uncertain" \in reasons
      BY <2>1
    <3> HIDE DEF reasons
    <3> QED
      BY <2>1, <3>1, BillingFirst
  <2>2. CASE ~billing
    <3>1. reasons \cap StopReason = {reason}
      BY <2>2
    <3> HIDE DEF reasons
    <3> QED
      BY <3>1, OneReason
  <2> QED
    BY <2>1, <2>2
<1> QED
  BY <1>1, TheStops DEF DeriveActivityStatus

\* An activity is complete when its phases are and it has no reason.
LEMMA CompleteActivity ==
  ASSUME NEW phases, NEW reason \in StopReason \cup {"none"}, NEW billing,
         DeriveActivityStatus(phases, reason, billing) = "complete"
  PROVE  reason = "none" /\ phases = {"complete"}
<1> DEFINE reasons == {reason} \cup {r \in StopReason : StopStatus[r] \in phases}
                        \cup IF billing THEN {"billing_uncertain"} ELSE {}
<1>1. /\ HighestStopReason(reasons) = "none" \/ HighestStopReason(reasons) \in StopReason
      /\ HighestStopReason(reasons) = "none" => reasons \cap StopReason = {}
  <2> HIDE DEF reasons
  <2> QED
    BY HighestIsAReason, TheStops
<1>2. HighestStopReason(reasons) = "none"
  BY <1>1, TheStops DEF DeriveActivityStatus
<1>3. reason = "none"
  BY <1>1, <1>2
<1> QED
  BY <1>2, <1>3 DEF DeriveActivityStatus

\* A phase is complete when its items are scored.
LEMMA PhaseComplete ==
  ASSUME NEW j, NEW phase, PhaseStatus(j, phase) = "complete", NEW i \in Items, PhaseOf(i) = phase
  PROVE  j.items[i].status \in Scored
<1> DEFINE reasons == {j.items[k].reason : k \in {k \in Items : PhaseOf(k) = phase}}
<1>1. HighestStopReason(reasons) = "none" \/ HighestStopReason(reasons) \in StopReason
  <2> HIDE DEF reasons
  <2> QED
    BY HighestIsAReason
<1>2. HighestStopReason(reasons) = "none"
  BY <1>1, TheStops DEF PhaseStatus
<1> QED
  BY <1>2 DEF PhaseStatus

\* A phase that is stopped has an item that carries the reason.
LEMMA StoppedPhase ==
  ASSUME NEW j, NEW reason \in StopReason \cup {"none"}, ItemsSound(j.items),
         \A i \in Items : j.items[i].reason \in {"none", reason},
         NEW phase, PhaseStatus(j, phase) \notin {"planned", "running", "complete"}
  PROVE  /\ reason # "none" /\ PhaseStatus(j, phase) = StopStatus[reason]
         /\ \E i \in Items : PhaseOf(i) = phase /\ j.items[i].reason = reason
<1> DEFINE items == {i \in Items : PhaseOf(i) = phase}
           reasons == {j.items[i].reason : i \in items}
           statuses == {j.items[i].status : i \in items}
<1>1. reason # "none" /\ PhaseStatus(j, phase) = StopStatus[reason]
  BY PhaseStatuses
<1>2. ASSUME \A i \in items : j.items[i].reason # reason PROVE FALSE
  <2>1. \A i \in items : j.items[i].reason = "none" /\ ItemSound(j.items[i])
    BY <1>2 DEF ItemsSound
  <2>2. HighestStopReason(reasons) = "none"
    <3>1. reasons \cap StopReason = {}
      BY <2>1, TheStops
    <3> HIDE DEF reasons
    <3> QED
      BY <3>1, HighestIsAReason
  <2>3. statuses \cap {"interrupted", "not_run_budget", "cancelled"} = {}
    BY <2>1 DEF ItemSound
  <2> QED
    BY <2>2, <2>3 DEF PhaseStatus
<1> QED
  BY <1>1, <1>2

\* The phase of an item that carries the one reason there is is stopped for it.
LEMMA StoppedItem ==
  ASSUME NEW j, NEW reason \in StopReason, \A i \in Items : j.items[i].reason \in {"none", reason},
         NEW i \in Items, j.items[i].reason = reason
  PROVE  PhaseStatus(j, PhaseOf(i)) = StopStatus[reason]
<1> DEFINE reasons == {j.items[k].reason : k \in {k \in Items : PhaseOf(k) = PhaseOf(i)}}
<1>1. reasons \cap StopReason = {reason}
  BY TheStops
<1>2. HighestStopReason(reasons) = reason
  <2> HIDE DEF reasons
  <2> QED
    BY <1>1, OneReason
<1> QED
  BY <1>2, TheStops DEF PhaseStatus

\* The phase of a running item is running while no item carries a reason.
LEMMA RunningItem ==
  ASSUME NEW j, ItemsSound(j.items), \A i \in Items : j.items[i].reason = "none",
         NEW i \in Items, j.items[i].status = "running"
  PROVE  PhaseStatus(j, PhaseOf(i)) = "running"
<1> DEFINE items == {k \in Items : PhaseOf(k) = PhaseOf(i)}
           reasons == {j.items[k].reason : k \in items}
           statuses == {j.items[k].status : k \in items}
<1>1. HighestStopReason(reasons) = "none"
  <2>1. reasons \cap StopReason = {}
    BY TheStops
  <2> HIDE DEF reasons
  <2> QED
    BY <2>1, HighestIsAReason
<1>2. i \in items /\ "running" \in statuses /\ "interrupted" \notin statuses
  BY DEF ItemsSound, ItemSound
<1> QED
  BY <1>1, <1>2 DEF PhaseStatus, Scored

\* The phases of a journal that agrees with itself are stopped for its reason or
\* not at all, the one that is paused included.
LEMMA UpdatedStatuses ==
  ASSUME NEW j, ItemsSound(j.items), ReasonsAgree(j), j.reason \in StopReason \cup {"none"}, NEW phase
  PROVE  /\ \/ UpdatedPhase(j, phase) \in {"planned", "running", "complete"}
            \/ j.reason # "none" /\ UpdatedPhase(j, phase) = StopStatus[j.reason]
         /\ UpdatedPhase(j, phase) = "complete" => PhaseStatus(j, phase) = "complete"
<1>1. \/ PhaseStatus(j, phase) \in {"planned", "running", "complete"}
      \/ j.reason # "none" /\ PhaseStatus(j, phase) = StopStatus[j.reason]
  BY PhaseStatuses DEF ReasonsAgree
<1>2. StopStatus["user_paused"] = "paused"
  BY TheReasons DEF StopStatus
<1> QED
  BY <1>1, <1>2 DEF UpdatedPhase

(***************************************************************************)
(* The record and the process that keeps it.                               *)
(***************************************************************************)

\* A record of the right shape, which is what the validator of one kind of field
\* after the other says.
RecordTyped(r) ==
  /\ DOMAIN r = {"phases", "status", "reason", "billing", "journal"}
  /\ r.phases \in [Phases -> CampaignStatus]
  /\ r.status \in CampaignStatus
  /\ r.reason \in StopReason \cup {"none"}
  /\ r.billing \in BOOLEAN
  /\ r.journal \in Journal \cup {None}

\* The service process, as far as types go.
ServiceTyped ==
  /\ service \in [pc : {"down", "serving", "sidecar"}, recovering : BOOLEAN, built : BOOLEAN]
  /\ service.pc = "down" => At("down")
  /\ service.pc = "sidecar" => IF service.built THEN At("exec") ELSE At("down")

\* A record says that billing is uncertain when that is why it is stopped.  Once
\* the executor is built it says that the activity runs, and its sidecar agrees
\* before any work is done.  Until then the stop on record is one the executor
\* is about to lift.
RecordKept ==
  /\ RecordTyped(record) /\ sidecar \in BOOLEAN
  /\ record.billing <=> record.reason = "billing_uncertain"
  /\ service.built =>
       /\ record.reason = "none" /\ record.status = "running"
       /\ service.pc = "serving" => sidecar
  /\ service.pc = "serving" /\ ~service.built => record.reason = "none" \/ Lifts
  /\ service.pc = "down" => ~service.built

\* What derived fields make is a record.
LEMMA DerivedTyped ==
  ASSUME journal \in Journal \cup {None}, NEW reason \in StopReason \cup {"none"},
         NEW billing \in BOOLEAN, NEW dev \in CampaignStatus, NEW stability \in CampaignStatus
  PROVE  LET r == Derived([dev |-> dev, stability |-> stability], reason, billing) IN
         /\ RecordTyped(r)
         /\ r.reason = reason /\ r.billing = billing /\ r.journal = journal
         /\ r.phases["dev"] = dev /\ r.phases["stability"] = stability
         /\ r.status = DeriveActivityStatus({"complete", dev, stability}, reason, billing)
<1> DEFINE phases == [dev |-> dev, stability |-> stability]
           status == DeriveActivityStatus({"complete", phases.dev, phases.stability}, reason, billing)
<1>1. phases \in [Phases -> CampaignStatus] /\ phases.dev = dev /\ phases.stability = stability
  BY DEF Phases
<1>2. status \in CampaignStatus
  BY DerivedTypes
<1>3. Derived(phases, reason, billing) =
        [phases |-> phases, reason |-> reason, billing |-> billing, journal |-> journal,
         status |-> status]
  BY DEF Derived
<1> HIDE DEF phases
<1>4. RecordTyped(Derived(phases, reason, billing))
  <2> HIDE DEF status
  <2> QED
    BY <1>1, <1>2, <1>3 DEF RecordTyped
<1> QED
  BY <1>1, <1>3, <1>4 DEF phases

\* The record brought up to date is one, and its billing flag is its reason.
LEMMA UpdateTyped ==
  ASSUME RunnerInv, StopRecorded, journal \in Journal
  PROVE  /\ RecordTyped(UpdatedRecord) /\ UpdatedRecord.journal = journal
         /\ UpdatedRecord.reason = IF UnknownBilling THEN "billing_uncertain" ELSE journal.reason
         /\ UpdatedRecord.billing <=> UpdatedRecord.reason = "billing_uncertain"
         /\ UpdatedRecord.phases["dev"] = UpdatedPhase(journal, "dev")
         /\ UpdatedRecord.phases["stability"] = UpdatedPhase(journal, "stability")
         /\ UpdatedRecord.status =
              DeriveActivityStatus({"complete", UpdatedPhase(journal, "dev"), UpdatedPhase(journal, "stability")},
                                   UpdatedRecord.reason, UpdatedRecord.billing)
<1> DEFINE reason == IF UnknownBilling THEN "billing_uncertain" ELSE journal.reason
           dev == UpdatedPhase(journal, "dev")
           stability == UpdatedPhase(journal, "stability")
<1>1. reason \in StopReason \cup {"none"} /\ (UnknownBilling <=> reason = "billing_uncertain")
  BY OnRecord, TheReasons DEF StopRecorded, UnknownBilling
<1>2. UnknownBilling \in BOOLEAN
  BY DEF UnknownBilling, Journal
<1>3. dev \in CampaignStatus /\ stability \in CampaignStatus
  BY DerivedTypes DEF UpdatedPhase, CampaignStatus
<1>4. UpdatedRecord = Derived([dev |-> dev, stability |-> stability], reason, UnknownBilling)
  BY DEF UpdatedRecord, UpdatedPhases
<1> HIDE DEF reason, dev, stability
<1>5. LET r == UpdatedRecord IN
      /\ RecordTyped(r)
      /\ r.reason = reason /\ r.billing = UnknownBilling /\ r.journal = journal
      /\ r.phases["dev"] = dev /\ r.phases["stability"] = stability
      /\ r.status = DeriveActivityStatus({"complete", dev, stability}, reason, UnknownBilling)
  BY <1>1, <1>2, <1>3, <1>4, DerivedTyped
<1> QED
  BY <1>1, <1>5 DEF reason, dev, stability

\* The record the hook writes says that the activity runs.
LEMMA BuiltRuns ==
  ASSUME RunnerInv, RecordKept, At("exec"), record.reason = "none" \/ Lifts
  PROVE  /\ RecordTyped(BuiltRecord) /\ BuiltRecord.journal = journal
         /\ BuiltRecord.reason = "none" /\ BuiltRecord.billing = FALSE
         /\ BuiltRecord.status = "running"
         /\ BuiltRecord.phases["dev"] = BuiltPhase("dev")
         /\ BuiltRecord.phases["stability"] = BuiltPhase("stability")
         /\ "running" \in {BuiltPhase("dev"), BuiltPhase("stability")}
         /\ {BuiltPhase("dev"), BuiltPhase("stability")} \subseteq {"planned", "running", "complete"}
<1> DEFINE dev == BuiltPhase("dev")
           stability == BuiltPhase("stability")
<1>1. journal \in Journal /\ Clean /\ runner.item \in Items
  BY DEF At, RunnerInv, RunnerSound
<1>2. dev \in {"planned", "running", "complete"} /\ stability \in {"planned", "running", "complete"}
  <2>1. \A phase : PhaseStatus(journal, phase) \in {"planned", "running", "complete"}
    <3>1. ItemsSound(journal.items) /\ \A i \in Items : journal.items[i].reason \in {"none", "none"}
      BY <1>1, OnRecord DEF Clean
    <3> QED
      BY <3>1, PhaseStatuses
  <2> QED
    BY <2>1 DEF BuiltPhase
<1>3. dev = "running" \/ stability = "running"
  BY DEF BuiltPhase, PhaseOf
<1>4. BuiltRecord = Derived([dev |-> dev, stability |-> stability], "none", FALSE)
  <2>1. ~Lifts => record.reason = "none" /\ record.billing = FALSE
    BY TheReasons DEF RecordKept, RecordTyped
  <2> QED
    BY <2>1 DEF BuiltRecord, BuiltPhases
<1>5. dev \in CampaignStatus /\ stability \in CampaignStatus
  BY <1>2 DEF CampaignStatus
<1> HIDE DEF dev, stability
<1>6. LET r == BuiltRecord IN
      /\ RecordTyped(r)
      /\ r.reason = "none" /\ r.billing = FALSE /\ r.journal = journal
      /\ r.phases["dev"] = dev /\ r.phases["stability"] = stability
      /\ r.status = DeriveActivityStatus({"complete", dev, stability}, "none", FALSE)
  <2>1. \A reason \in StopReason \cup {"none"}, billing \in BOOLEAN :
          LET r == Derived([dev |-> dev, stability |-> stability], reason, billing) IN
          /\ RecordTyped(r)
          /\ r.reason = reason /\ r.billing = billing /\ r.journal = journal
          /\ r.phases["dev"] = dev /\ r.phases["stability"] = stability
          /\ r.status = DeriveActivityStatus({"complete", dev, stability}, reason, billing)
    BY <1>1, <1>5, DerivedTyped
  <2> QED
    BY <1>4, <2>1, Zenon
<1>7. DeriveActivityStatus({"complete", dev, stability}, "none", FALSE) = "running"
  BY <1>2, <1>3, RunningActivity
<1> QED
  BY <1>2, <1>3, <1>6, <1>7 DEF dev, stability

\* Every step of the service keeps the record and the process as they should be.
LEMMA RecordStep ==
  StopInv /\ ServiceTyped /\ RecordKept /\ [ServiceNext]_evaluationVars => ServiceTyped' /\ RecordKept'
<1> SUFFICES ASSUME StopInv, ServiceTyped, RecordKept, [ServiceNext]_evaluationVars
             PROVE  ServiceTyped' /\ RecordKept'
  OBVIOUS
<1>1. RunnerInv /\ StopRecorded
  BY DEF StopInv, FinalInv
<1>2. ASSUME UNCHANGED <<record, sidecar>>, NEW recovering \in BOOLEAN,
             service' = [pc |-> "serving", recovering |-> recovering, built |-> FALSE],
             \/ record.reason \in {"none"} \cup ResumedReasons
             \/ recovering /\ record.reason \in Recoverable
      PROVE  ServiceTyped' /\ RecordKept'
  <2>1. /\ service' \in [pc : {"down", "serving", "sidecar"}, recovering : BOOLEAN, built : BOOLEAN]
        /\ service'.pc = "serving" /\ ~service'.built /\ service'.recovering = recovering
    BY <1>2
  <2>2. record.reason = "none" \/ Lifts'
    BY <1>2, <2>1 DEF Lifts
  <2> QED
    BY <1>2, <2>1, <2>2 DEF ServiceTyped, RecordKept, RecordTyped
<1>3. ASSUME service' = Idle, record' = record, sidecar' \in BOOLEAN, At("down")' PROVE ServiceTyped' /\ RecordKept'
  BY <1>3 DEF ServiceTyped, RecordKept, RecordTyped, Idle
<1>4. ASSUME UNCHANGED serviceVars, service.pc = "serving" \/ UNCHANGED runner
      PROVE  ServiceTyped' /\ RecordKept'
  BY <1>4 DEF serviceVars, ServiceTyped, RecordKept, RecordTyped, Lifts, At
<1>5. CASE StartService
  BY <1>2, <1>5 DEF StartService, Serve, StartAccepted
<1>6. CASE ResumeService
  <2>1. /\ service' = [pc |-> "serving", recovering |-> Recovering, built |-> FALSE]
        /\ UNCHANGED <<record, sidecar>> /\ Recovering \in BOOLEAN
        /\ record.reason \in {"none"} \cup ResumedReasons \cup Recoverable
    BY <1>6 DEF ResumeService, Serve, ResumeEntryAccepted, Recovering
  <2>2. \/ record.reason \in {"none"} \cup ResumedReasons
        \/ Recovering /\ record.reason \in Recoverable
    BY <2>1 DEF Recovering
  <2> HIDE DEF Recovering
  <2> QED
    BY <1>2, <2>1, <2>2
<1>7. CASE RunnerWorks \/ Interrupted \/ Cancelled
  BY <1>4, <1>7 DEF RunnerWorks, Interrupted, Cancelled
<1>8. CASE BuildExecutor
  <2>1. CASE UNCHANGED serviceVars
    BY <1>4, <1>8, <2>1 DEF BuildExecutor
  <2>2. CASE WriteRecord(BuiltRecord) /\ UNCHANGED runner
    <3>1. service.pc = "serving" /\ ~service.built /\ At("exec")
      BY <1>8 DEF BuildExecutor
    <3>2. record' = BuiltRecord /\ sidecar' = FALSE /\ At("exec")'
          /\ service' = [service EXCEPT !.pc = "sidecar", !.built = TRUE]
      BY <2>2, <3>1 DEF WriteRecord, At
    <3>3. RecordTyped(BuiltRecord) /\ BuiltRecord.reason = "none" /\ BuiltRecord.billing = FALSE
          /\ BuiltRecord.status = "running"
      BY <1>1, <3>1, BuiltRuns DEF RecordKept
    <3>4. RecordTyped(record')
      BY <3>2, <3>3
    <3> QED
      BY <3>2, <3>3, <3>4 DEF ServiceTyped, RecordKept, RecordTyped
  <2> QED
    BY <1>8, <2>1, <2>2 DEF BuildExecutor
<1>9. CASE PersistSidecar
  <2>1. service.pc = "sidecar" /\ sidecar' = TRUE /\ UNCHANGED <<runner, record>>
        /\ service' = IF At("exec") THEN [service EXCEPT !.pc = "serving"] ELSE Idle
    BY <1>9 DEF PersistSidecar, vars
  <2>2. CASE At("exec")
    BY <2>1, <2>2 DEF ServiceTyped, RecordKept, RecordTyped, At
  <2>3. CASE ~At("exec")
    BY <1>3, <2>1, <2>3 DEF ServiceTyped, At
  <2> QED
    BY <2>2, <2>3
<1>10. CASE Finally
  <2>1. service.pc = "serving" /\ At("down") /\ At("down")'
    BY <1>10 DEF Finally, vars, At
  <2>2. CASE service' = Idle /\ UNCHANGED <<record, sidecar>>
    BY <1>3, <2>1, <2>2 DEF RecordKept
  <2>3. CASE journal # None /\ WriteRecord(UpdatedRecord)
    <3>1. record' = UpdatedRecord /\ sidecar' = FALSE
          /\ service' = [service EXCEPT !.pc = "sidecar", !.built = FALSE]
      BY <2>1, <2>3 DEF WriteRecord, At
    <3>2. journal \in Journal
      BY <1>1, <2>3 DEF RunnerInv, RunnerTypes
    <3>3. RecordTyped(UpdatedRecord) /\ (UpdatedRecord.billing <=> UpdatedRecord.reason = "billing_uncertain")
      BY <1>1, <3>2, UpdateTyped
    <3> QED
      BY <2>1, <3>1, <3>3 DEF ServiceTyped, RecordKept, RecordTyped
  <2> QED
    BY <1>10, <2>2, <2>3 DEF Finally
<1>11. CASE Dies
  <2>1. At("down")'
    BY <1>11 DEF Dies, Down, At
  <2> QED
    BY <1>3, <1>11, <2>1 DEF Dies, RecordKept
<1>12. CASE OperatorActs \/ UNCHANGED evaluationVars
  BY <1>4, <1>12 DEF OperatorActs, OperatorAuthorizes, evaluationVars, vars
<1> QED
  BY <1>5, <1>6, <1>7, <1>8, <1>9, <1>10, <1>11, <1>12 DEF ServiceNext, Works

\* The record brought up to date says that the activity is complete only when
\* both phases are, and every item is scored.
LEMMA UpdateComplete ==
  ASSUME CampaignInv, journal \in Journal, UpdatedRecord.status = "complete"
  PROVE  /\ UpdatedPhase(journal, "dev") = "complete" /\ UpdatedPhase(journal, "stability") = "complete"
         /\ \A i \in Items : journal.items[i].status \in Scored
<1> DEFINE dev == UpdatedPhase(journal, "dev")
           stability == UpdatedPhase(journal, "stability")
           phases == {"complete", dev, stability}
           r == UpdatedRecord
<1>1. RunnerInv /\ StopRecorded /\ Agreed
  BY DEF CampaignInv, StopInv, FinalInv
<1>2. RecordTyped(r) /\ r.status = DeriveActivityStatus(phases, r.reason, r.billing)
  BY <1>1, UpdateTyped
<1> HIDE DEF r, phases
<1>3. phases = {"complete"}
  <2>1. r.reason \in StopReason \cup {"none"} /\ r.status = "complete"
    BY <1>2 DEF RecordTyped, r
  <2> QED
    BY <1>2, <2>1, CompleteActivity
<1>4. dev = "complete" /\ stability = "complete"
  BY <1>3 DEF phases
<1>5. ItemsSound(journal.items) /\ ReasonsAgree(journal) /\ journal.reason \in StopReason \cup {"none"}
  BY <1>1, OnRecord DEF Agreed
<1> QED
  BY <1>4, <1>5, UpdatedStatuses, PhaseComplete DEF PhaseOf

\* The record brought up to date passes its own validator.
LEMMA UpdateValid ==
  ASSUME CampaignInv, journal \in Journal
  PROVE  Valid(UpdatedRecord)
<1> DEFINE dev == UpdatedPhase(journal, "dev")
           stability == UpdatedPhase(journal, "stability")
           phases == {"complete", dev, stability}
           r == UpdatedRecord
<1>1. RunnerInv /\ StopRecorded /\ RowsSettled /\ Agreed
  BY DEF CampaignInv, StopInv, FinalInv
<1>2. /\ RecordTyped(r) /\ r.journal = journal /\ (r.billing <=> r.reason = "billing_uncertain")
      /\ r.reason = IF UnknownBilling THEN "billing_uncertain" ELSE journal.reason
      /\ r.phases["dev"] = dev /\ r.phases["stability"] = stability
      /\ r.status = DeriveActivityStatus(phases, r.reason, r.billing)
  BY <1>1, UpdateTyped
<1>3. r.reason \in StopReason \cup {"none"} /\ r.billing \in BOOLEAN
      /\ r.phases \in [Phases -> CampaignStatus]
  BY <1>2 DEF RecordTyped
<1>4. \A phase \in phases :
        \/ phase \in {"planned", "running", "complete"}
        \/ journal.reason # "none" /\ phase = StopStatus[journal.reason]
  BY <1>1, OnRecord, UpdatedStatuses DEF Agreed
<1>5. journal.reason \in StopReason \cup {"none"}
  BY <1>1, OnRecord
<1> HIDE DEF r, phases
<1>6. ASSUME r.reason # "none" PROVE r.status = StopStatus[r.reason]
  <2>1. ~r.billing => \A q \in StopReason : StopStatus[q] \in phases => q = r.reason
    BY <1>2, <1>4, <1>5, TheStops
  <2> QED
    BY <1>2, <1>3, <1>6, <2>1, StoppedActivity
<1>7. ASSUME r.status = "complete"
      PROVE  r.phases = [p \in Phases |-> "complete"] /\ AllRowsCompleted
  <2>1. /\ dev = "complete" /\ stability = "complete"
        /\ \A i \in Items : journal.items[i].status \in Scored
    BY <1>7, UpdateComplete DEF r
  <2>2. r.phases = [p \in Phases |-> "complete"]
    BY <1>2, <1>3, <2>1 DEF Phases
  <2>3. ASSUME NEW i \in Items PROVE RowsIn(i, CallState) = RowsIn(i, {"completed"})
    <3>1. \A t \in Tasks : calls[<<i, t>>].state \in {"absent", "completed"}
      BY <1>1, <2>1, <2>3 DEF RowsSettled, Settled
    <3> QED
      BY <3>1 DEF RowsIn, CallState
  <2> QED
    BY <2>2, <2>3 DEF AllRowsCompleted
<1> QED
  BY <1>2, <1>6, <1>7, NoneAssumption DEF Valid, r

\* The record is written in the finally clause and by the hook.
LEMMA RecordMoves ==
  ASSUME CampaignInv, [ServiceNext]_evaluationVars, ~UNCHANGED record
  PROVE  /\ service.pc = "serving" /\ UNCHANGED vars
         /\ service' = [service EXCEPT !.pc = "sidecar", !.built = At("exec")]
         /\ \/ At("down") /\ journal \in Journal /\ record' = UpdatedRecord
            \/ At("exec") /\ ~service.built /\ BuildAccepted /\ record' = BuiltRecord
<1>1. RunnerInv
  BY DEF CampaignInv, StopInv, FinalInv
<1>2. Finally \/ BuildExecutor
  BY DEF ServiceNext, Works, StartService, ResumeService, Serve, RunnerWorks, PersistSidecar,
     Interrupted, Cancelled, Dies, OperatorActs, serviceVars, evaluationVars
<1>3. CASE Finally
  BY <1>1, <1>3 DEF Finally, WriteRecord, RunnerInv, RunnerTypes
<1>4. CASE BuildExecutor
  BY <1>4 DEF BuildExecutor, WriteRecord, serviceVars, vars
<1> QED
  BY <1>2, <1>3, <1>4

\* The ledger is written by the executor, by an audit and by the operator.
LEMMA LedgerMoves ==
  ASSUME [ServiceNext]_evaluationVars, ~UNCHANGED storeVars
  PROVE  \/ service.pc = "serving" /\ service.built /\ Executor /\ UNCHANGED serviceVars
         \/ service.pc = "serving" /\ \E c \in CallIds : AuditCall(c)
         \/ service.pc = "down" /\ \E c \in CallIds : OperatorAuthorizes(c)
<1>1. RunnerWorks \/ OperatorActs
  BY DEF ServiceNext, Works, StartService, ResumeService, Run, Recover, RunnerResumes, Resume,
     ResumeStopped, ResumeRunning, ResumeInterrupted, ResumePaused, ResumeIdle, RunnerRefuses,
     BuildExecutor, PersistSidecar, Interrupted, ExecInterrupted, Cancelled, Finally, Dies,
     evaluationVars, vars
<1>2. Loop => \E c \in CallIds : AuditCall(c)
  BY DEF Loop, CreateJournal, Begin, NextItem, Finish, StopItem, Link, Pause, MarkBudget, AuditDone
<1> QED
  BY <1>1, <1>2 DEF RunnerWorks, OperatorActs

\* Calls are handed to the provider by the executor, which the service lets work
\* only once it is built.
LEMMA HandedByExecutor ==
  ASSUME [ServiceNext]_evaluationVars, NEW c \in CallIds, handed'[c] # handed[c]
  PROVE  service.pc = "serving" /\ service.built
<1>1. ~UNCHANGED storeVars
  BY DEF storeVars
<1>2. ASSUME NEW d \in CallIds, AuditCall(d) \/ OperatorAuthorizes(d) PROVE FALSE
  BY <1>2 DEF AuditCall, MarkBillingUncertain, OperatorAuthorizes, AuthorizeBillingUncertainRetry
<1> QED
  BY <1>1, <1>2, LedgerMoves

(***************************************************************************)
(* What the record says of the journal and the ledger.                     *)
(***************************************************************************)

\* An activity that is said to be complete is: the journal still reads as it did,
\* with every item scored.
Published ==
  record.status = "complete" =>
    /\ journal \in Journal /\ record.journal.items = journal.items
    /\ \A i \in Items : Status(i) \in Scored

\* A phase of the record is under way.
Underway == \E p \in Phases : record.phases[p] = "running"

\* The record says so when work is paid for, and does not hide an open call.
Shown ==
  /\ service.built => Underway
  /\ (\E i \in Items : RowsIn(i, Unknown) # {}) => record.billing \/ Underway

\* What is published stays true, as scored items are final.
LEMMA PublishedStep ==
  CampaignInv /\ RecordKept /\ Published /\ [ServiceNext]_evaluationVars => Published'
<1> SUFFICES ASSUME CampaignInv, RecordKept, Published, [ServiceNext]_evaluationVars,
                    record'.status = "complete"
             PROVE  /\ journal' \in Journal /\ record'.journal.items = journal'.items
                    /\ \A i \in Items : journal'.items[i].status \in Scored
  BY DEF Published, Status
<1>1. RunnerInv /\ StopRecorded
  BY DEF CampaignInv, StopInv, FinalInv
<1>2. CASE UNCHANGED record
  <2>1. /\ journal \in Journal /\ record.journal.items = journal.items
        /\ \A i \in Items : journal.items[i].status \in Scored
    BY <1>2 DEF Published, Status
  <2>2. journal' \in Journal /\ \A i \in Items : journal'.items[i] = journal.items[i]
    BY <1>1, <2>1, ServiceMoves, RunnerStep DEF ScoresKept, SideStep, diskVars
  <2>3. journal.items \in [Items -> Item] /\ journal'.items \in [Items -> Item]
    BY <2>1, <2>2 DEF Journal
  <2> QED
    BY <1>2, <2>1, <2>2, <2>3
<1>3. CASE ~UNCHANGED record
  <2>1. /\ UNCHANGED journal
        /\ \/ journal \in Journal /\ record' = UpdatedRecord
           \/ At("exec") /\ service.pc = "serving" /\ ~service.built /\ record' = BuiltRecord
    BY <1>3, RecordMoves DEF vars, diskVars
  <2>2. ASSUME At("exec"), service.pc = "serving", ~service.built, record' = BuiltRecord PROVE FALSE
    <3>1. BuiltRecord.status = "running"
      BY <1>1, <2>2, BuiltRuns DEF RecordKept
    <3> QED
      BY <2>2, <3>1
  <2>3. journal \in Journal /\ record' = UpdatedRecord
    BY <2>1, <2>2
  <2> QED
    BY <1>1, <2>1, <2>3, UpdateComplete, UpdateTyped
<1> QED
  BY <1>2, <1>3

\* A call comes to be open by the executor, which the service lets work only once
\* it is built.
LEMMA OpenedByExecutor ==
  ASSUME StopInv, [ServiceNext]_evaluationVars,
         NEW i \in Items, RowsIn(i, Unknown)' # {}, RowsIn(i, Unknown) = {}
  PROVE  service.built /\ UNCHANGED serviceVars
<1>1. PICK t \in Tasks : calls'[<<i, t>>].state \in Unknown
  BY DEF RowsIn
<1> DEFINE c == <<i, t>>
<1>2. c \in CallIds /\ calls'[c].state \in Unknown /\ calls[c].state \notin Unknown
  BY <1>1, RunnerAssumption DEF RowsIn
<1> HIDE DEF c
<1>3. calls \in [CallIds -> Row] /\ ~UNCHANGED storeVars
  BY <1>2 DEF StopInv, FinalInv, RunnerInv, StoreTypeOK, storeVars
<1>4. ASSUME NEW d \in CallIds, AuditCall(d) PROVE FALSE
  BY <1>2, <1>3, <1>4 DEF AuditCall, MarkBillingUncertain, Unknown
<1>5. ASSUME NEW d \in CallIds, OperatorAuthorizes(d) PROVE FALSE
  BY <1>2, <1>3, <1>5 DEF OperatorAuthorizes, AuthorizeBillingUncertainRetry, Unknown, Row
<1> QED
  BY <1>3, <1>4, <1>5, LedgerMoves

\* Every step keeps open calls in sight.
LEMMA ShownStep ==
  CampaignInv /\ ServiceTyped /\ RecordKept /\ Shown /\ [ServiceNext]_evaluationVars => Shown'
<1> SUFFICES ASSUME CampaignInv, ServiceTyped, RecordKept, Shown, [ServiceNext]_evaluationVars
             PROVE  Shown'
  OBVIOUS
<1>1. RunnerInv /\ StopRecorded /\ StopInv
  BY DEF CampaignInv, StopInv, FinalInv
<1>2. CASE UNCHANGED record
  <2>1. service'.built => service.built \/ BuildExecutor
    <3>1. CASE StartService \/ ResumeService
      BY <3>1 DEF StartService, ResumeService, Serve
    <3>2. CASE RunnerWorks \/ Interrupted \/ Cancelled \/ OperatorActs \/ UNCHANGED evaluationVars
      BY <3>2 DEF RunnerWorks, Interrupted, Cancelled, OperatorActs, serviceVars, evaluationVars
    <3>3. CASE PersistSidecar \/ Finally \/ Dies
      <4>1. \/ service' = [service EXCEPT !.pc = "serving"]
            \/ service' = Idle
            \/ service' = [service EXCEPT !.pc = "sidecar", !.built = At("exec")] /\ At("down")
        BY <3>3 DEF PersistSidecar, Finally, WriteRecord, Dies
      <4>2. ASSUME NEW built, service' = [service EXCEPT !.pc = "sidecar", !.built = built]
            PROVE  service'.built = built
        BY <4>2 DEF ServiceTyped
      <4>3. At("down") => ~At("exec")
        BY DEF At
      <4>4. service' = [service EXCEPT !.pc = "serving"] => service'.built = service.built
        BY DEF ServiceTyped
      <4>5. ~Idle.built
        BY DEF Idle
      <4> QED
        BY <4>1, <4>2, <4>3, <4>4, <4>5
    <3> QED
      BY <3>1, <3>2, <3>3 DEF ServiceNext, Works
  <2>2. BuildExecutor => UNCHANGED service \/ Underway'
    <3>1. ASSUME BuildExecutor, ~UNCHANGED service PROVE Underway'
      <4>1. At("exec") /\ service.pc = "serving" /\ ~service.built /\ record' = BuiltRecord
        BY <3>1 DEF BuildExecutor, WriteRecord, serviceVars
      <4>2. /\ record'.phases["dev"] = BuiltPhase("dev") /\ record'.phases["stability"] = BuiltPhase("stability")
            /\ "running" \in {BuiltPhase("dev"), BuiltPhase("stability")}
        BY <1>1, <4>1, BuiltRuns DEF RecordKept
      <4> QED
        BY <4>2 DEF Underway, Phases
    <3> QED
      BY <3>1
  <2>3. Underway' <=> Underway
    BY <1>2 DEF Underway
  <2>4. (\E i \in Items : RowsIn(i, Unknown)' # {}) => (\E i \in Items : RowsIn(i, Unknown) # {}) \/ service.built
    BY <1>1, OpenedByExecutor
  <2> QED
    BY <1>2, <2>1, <2>2, <2>3, <2>4 DEF Shown
<1>3. CASE ~UNCHANGED record
  <2>1. /\ UNCHANGED <<calls, journal>> /\ service.pc = "serving"
        /\ service' = [service EXCEPT !.pc = "sidecar", !.built = At("exec")]
        /\ \/ At("down") /\ journal \in Journal /\ record' = UpdatedRecord
           \/ At("exec") /\ ~service.built /\ record' = BuiltRecord
    BY <1>3, RecordMoves DEF vars, diskVars, storeVars
  <2>2. CASE At("down") /\ journal \in Journal /\ record' = UpdatedRecord
    <3>1. ~service'.built
      BY <2>1, <2>2 DEF ServiceTyped, At
    <3>2. UnknownBilling => record'.billing
      BY <1>1, <2>2, UpdateTyped
    <3>3. (\E i \in Items : RowsIn(i, Unknown)' # {}) => UnknownBilling
      BY <2>1 DEF UnknownBilling, RowsIn
    <3> QED
      BY <3>1, <3>2, <3>3 DEF Shown
  <2>3. CASE At("exec") /\ ~service.built /\ record' = BuiltRecord
    <3>1. /\ record'.phases["dev"] = BuiltPhase("dev") /\ record'.phases["stability"] = BuiltPhase("stability")
          /\ "running" \in {BuiltPhase("dev"), BuiltPhase("stability")}
      BY <1>1, <2>1, <2>3, BuiltRuns DEF RecordKept
    <3>2. Underway'
      BY <3>1 DEF Underway, Phases
    <3> QED
      BY <3>2 DEF Shown
  <2> QED
    BY <2>1, <2>2, <2>3
<1> QED
  BY <1>2, <1>3

(***************************************************************************)
(* Where a stop on record comes from.                                      *)
(***************************************************************************)

\* What is true of every journal a record was derived from.
SourceSound(j) ==
  /\ j \in Journal /\ ItemsSound(j.items) /\ ReasonAlone(j.items, j.reason) /\ ReasonsAgree(j)
  /\ j.reason = "user_paused" => Left(j)

\* A record that is stopped was derived from the journal it names: its phases are
\* that journal's, and so is its reason, unless an open call made it uncertain.
SourcedFrom(r) ==
  r.reason # "none" =>
    /\ SourceSound(r.journal)
    /\ \A phase \in Phases : r.phases[phase] = UpdatedPhase(r.journal, phase)
    /\ \/ r.reason = r.journal.reason
       \/ /\ r.reason = "billing_uncertain"
          /\ r.journal.reason = "none" => \E i \in Items : r.journal.items[i].status = "running"

Sourced == SourcedFrom(record)

\* The journal on disk is such a journal.
LEMMA JournalIsSource ==
  ASSUME CampaignInv, journal \in Journal
  PROVE  SourceSound(journal) /\ journal.reason \in StopReason \cup {"none"}
BY OnRecord DEF CampaignInv, StopInv, FinalInv, Agreed, Waiting, SourceSound

\* The item of an open call is running, or a reason is on record.
LEMMA OpenItem ==
  ASSUME CampaignInv, NEW i \in Items, RowsIn(i, Unknown) # {}
  PROVE  /\ journal \in Journal
         /\ Status(i) = "running" \/ (journal.items[i].reason # "none" /\ journal.reason = journal.items[i].reason)
<1>1. Surfaced(i) /\ RunnerInv
  BY DEF CampaignInv, StopInv, FinalInv, AllSurfaced
<1>2. journal \in Journal /\ Status(i) \in {"running", "interrupted", "stopped"}
  BY <1>1 DEF Surfaced
<1>3. ItemSound(journal.items[i]) /\ journal.items[i].reason \in {"none", journal.reason}
  BY <1>1, <1>2, OnRecord DEF CampaignInv, Agreed, ReasonsAgree
<1> QED
  BY <1>2, <1>3 DEF ItemSound, Status

\* An open call is why billing is uncertain of a journal stopped for something else.
LEMMA UncertainByCall ==
  ASSUME CampaignInv, journal \in Journal, UnknownBilling, journal.reason # "billing_uncertain"
  PROVE  \E i \in Items : RowsIn(i, Unknown) # {}
BY DEF CampaignInv, StopInv, StopRecorded, UnknownBilling

\* Every record that is written is derived from the journal of that moment.
LEMMA SourcedStep ==
  CampaignInv /\ RecordKept /\ Sourced /\ [ServiceNext]_evaluationVars => SourcedFrom(record')
<1> SUFFICES ASSUME CampaignInv, RecordKept, Sourced, [ServiceNext]_evaluationVars
             PROVE  SourcedFrom(record')
  OBVIOUS
<1>1. RunnerInv /\ StopRecorded
  BY DEF CampaignInv, StopInv, FinalInv
<1>2. CASE UNCHANGED record
  BY <1>2 DEF Sourced
<1>3. CASE ~UNCHANGED record
  <2>1. CASE journal \in Journal /\ record' = UpdatedRecord
    <3> DEFINE r == UpdatedRecord
    <3>1. /\ r.journal = journal
          /\ r.reason = IF UnknownBilling THEN "billing_uncertain" ELSE journal.reason
          /\ r.phases["dev"] = UpdatedPhase(journal, "dev")
          /\ r.phases["stability"] = UpdatedPhase(journal, "stability")
      BY <1>1, <2>1, UpdateTyped
    <3>2. SourceSound(journal)
      BY <2>1, JournalIsSource
    <3>3. UnknownBilling /\ journal.reason = "none" => \E i \in Items : journal.items[i].status = "running"
      BY <2>1, UncertainByCall, OpenItem DEF Status
    <3> HIDE DEF r
    <3>4. \A phase \in Phases : r.phases[phase] = UpdatedPhase(journal, phase)
      BY <3>1 DEF Phases
    <3>5. SourcedFrom(r)
      BY <3>1, <3>2, <3>3, <3>4 DEF SourcedFrom
    <3> QED
      BY <2>1, <3>5 DEF r
  <2>2. CASE At("exec") /\ service.pc = "serving" /\ ~service.built /\ record' = BuiltRecord
    BY <1>1, <2>2, BuiltRuns DEF RecordKept, SourcedFrom
  <2> QED
    BY <1>3, <2>1, <2>2, RecordMoves
<1> QED
  BY <1>2, <1>3

\* Uncertain billing of an activity that stopped for something else cannot be
\* recovered: nothing is to recover, or an item that stopped has a call that was
\* sent and not flagged, which no operator can authorize.
StuckAt(r) ==
  (/\ r.reason = "billing_uncertain" /\ r.journal.reason \notin {"none", "billing_uncertain"}
   /\ r.journal.reason \in Recoverable) =>
     \E i \in Items, t \in Tasks :
       r.journal.items[i].reason \in Recoverable /\ calls[<<i, t>>].state = "sent"

\* So the service does not serve it.
Stuck ==
  /\ StuckAt(record)
  /\ record.reason = "billing_uncertain" /\ record.journal.reason \notin {"none", "billing_uncertain"}
       => service.pc # "serving"

\* The resume entry refuses.
LEMMA StuckIsRefused ==
  ASSUME Sourced, Stuck, record.reason = "billing_uncertain",
         record.journal.reason \notin {"none", "billing_uncertain"}
  PROVE  ~ResumeEntryAccepted /\ ~StartAccepted
<1> SUFFICES ASSUME ResumeEntryAccepted PROVE FALSE
  BY DEF StartAccepted
<1>1. /\ record.journal = journal /\ RecoveryAuthorized
      /\ SourceSound(journal)
  BY DEF ResumeEntryAccepted, Recovering, Recoverable, Sourced, SourcedFrom
<1>2. \A i \in Items : journal.items[i].reason \in {"none", journal.reason} /\ Status(i) # "running"
  BY <1>1 DEF SourceSound, ReasonsAgree, Status
<1>3. journal.reason \in Recoverable
  BY <1>1, <1>2 DEF RecoveryAuthorized, RecoveryItems, Recoverable
<1>4. PICK i \in Items, t \in Tasks : journal.items[i].reason \in Recoverable /\ calls[<<i, t>>].state = "sent"
  BY <1>1, <1>3 DEF Stuck, StuckAt
<1>5. Authorized(i)
  BY <1>1, <1>2, <1>4 DEF RecoveryAuthorized, RecoveryItems
<1> DEFINE c == <<i, t>>
<1>6. c \in UnresolvedOf(i)
  BY <1>4, RunnerAssumption DEF UnresolvedOf, Unresolved
<1>7. calls[c].state = "sent"
  BY <1>4
<1> HIDE DEF c
<1> QED
  BY <1>5, <1>6, <1>7 DEF Authorized

\* It stays so.
LEMMA StuckStep ==
  CampaignInv /\ ServiceTyped /\ RecordKept /\ Sourced /\ Stuck /\ [ServiceNext]_evaluationVars => Stuck'
<1> SUFFICES ASSUME CampaignInv, ServiceTyped, RecordKept, Sourced, Stuck, [ServiceNext]_evaluationVars,
                    record'.reason = "billing_uncertain",
                    record'.journal.reason \notin {"none", "billing_uncertain"}
             PROVE  /\ service'.pc # "serving"
                    /\ record'.journal.reason \in Recoverable =>
                         \E i \in Items, t \in Tasks :
                           record'.journal.items[i].reason \in Recoverable /\ calls'[<<i, t>>].state = "sent"
  BY DEF Stuck, StuckAt
<1>1. RunnerInv /\ StopRecorded /\ calls \in [CallIds -> Row]
  BY DEF CampaignInv, StopInv, FinalInv, RunnerInv, StoreTypeOK
<1>2. CASE UNCHANGED record
  <2>1. ~ResumeEntryAccepted /\ ~StartAccepted /\ service.pc # "serving"
    BY <1>2, StuckIsRefused DEF Stuck
  <2>2. \/ PersistSidecar \/ Dies
        \/ service.pc = "down" /\ UNCHANGED service /\ \E d \in CallIds : OperatorAuthorizes(d)
        \/ UNCHANGED evaluationVars
    BY <2>1 DEF ServiceNext, Works, StartService, ResumeService, RunnerWorks, BuildExecutor, Finally,
       Interrupted, Cancelled, OperatorActs, serviceVars
  <2>3. service'.pc # "serving"
    <3>1. PersistSidecar => ~At("exec")
      BY <1>2 DEF PersistSidecar, ServiceTyped, RecordKept, At
    <3> QED
      BY <2>1, <2>2, <3>1 DEF PersistSidecar, Dies, Idle, evaluationVars, serviceVars
  <2>4. \A c \in CallIds : calls[c].state = "sent" => calls'[c].state = "sent"
    <3>1. ASSUME NEW d \in CallIds, OperatorAuthorizes(d)
          PROVE  \A c \in CallIds : calls[c].state = "sent" => calls'[c] = calls[c]
      BY <1>1, <3>1 DEF OperatorAuthorizes, AuthorizeBillingUncertainRetry
    <3> QED
      BY <2>2, <3>1 DEF PersistSidecar, Dies, evaluationVars, vars, storeVars
  <2> QED
    BY <1>2, <2>3, <2>4, RunnerAssumption DEF Stuck, StuckAt
<1>3. CASE ~UNCHANGED record
  <2>1. ASSUME At("exec"), service.pc = "serving", ~service.built, record' = BuiltRecord PROVE FALSE
    BY <1>1, <2>1, BuiltRuns DEF RecordKept
  <2>2. /\ journal \in Journal /\ record' = UpdatedRecord /\ UNCHANGED <<calls, journal>>
        /\ service' = [service EXCEPT !.pc = "sidecar", !.built = At("exec")]
    BY <1>3, <2>1, RecordMoves DEF vars, storeVars, diskVars
  <2>3. service'.pc = "sidecar"
    BY <2>2 DEF ServiceTyped
  <2>4. /\ record'.journal = journal
        /\ record'.reason = IF UnknownBilling THEN "billing_uncertain" ELSE journal.reason
    BY <1>1, <2>2, UpdateTyped
  <2>5. ASSUME journal.reason \in Recoverable
        PROVE  \E i \in Items, t \in Tasks :
                 journal.items[i].reason \in Recoverable /\ calls[<<i, t>>].state = "sent"
    <3>1. PICK i \in Items : RowsIn(i, Unknown) # {}
      BY <2>2, <2>4, UncertainByCall
    <3>2. /\ journal.items[i].reason = journal.reason /\ Status(i) # "running"
      BY <2>2, <2>4, <2>5, <3>1, OpenItem DEF CampaignInv, Agreed, ReasonsAgree, Status, Recoverable
    <3>3. Status(i) = "stopped"
      BY <1>1, <2>2, <2>5, <3>2, RecoverableStopped
    <3>4. ~Flag(i)
      BY <2>4, <3>2, <3>3 DEF CampaignInv, Flagged
    <3>5. PICK t \in Tasks : calls[<<i, t>>].state = "sent"
      BY <3>1, <3>4 DEF Flag, RowsIn, Unknown
    <3> QED
      BY <2>5, <3>2, <3>5
  <2> QED
    BY <2>2, <2>3, <2>4, <2>5
<1> QED
  BY <1>2, <1>3

\* Until the executor is built an invocation scores nothing: what it lifts is
\* what the record says.
Resumed ==
  service.pc = "serving" /\ ~service.built =>
    /\ At("link") => runner.update.status = "stopped"
    /\ record.reason # "none" =>
         /\ journal \in Journal
         /\ \A i \in Items : Status(i) \in Scored <=> record.journal.items[i].status \in Scored

\* An invocation scores nothing before its executor is built.
LEMMA ResumedStep ==
  CampaignInv /\ ServiceTyped /\ Resumed /\ [ServiceNext]_evaluationVars => Resumed'
<1> SUFFICES ASSUME CampaignInv, ServiceTyped, Resumed, [ServiceNext]_evaluationVars,
                    service'.pc = "serving", ~service'.built
             PROVE  /\ runner'.pc = "link" => runner'.update.status = "stopped"
                    /\ record'.reason # "none" =>
                         /\ journal' \in Journal
                         /\ \A i \in Items : journal'.items[i].status \in Scored
                                               <=> record'.journal.items[i].status \in Scored
  BY DEF Resumed, At, Status
<1>1. RunnerInv /\ FlightSound /\ runner \in Runner /\ journal \in Journal \cup {None}
  BY DEF CampaignInv, StopInv, FinalInv, RunnerInv, RunnerTypes
<1>2. ASSUME [Next]_vars, runner.pc # "link" \/ runner.update.status = "stopped", journal \in Journal
      PROVE  /\ journal' \in Journal
             /\ \A i \in Items : journal'.items[i].status \in Scored <=> journal.items[i].status \in Scored
  <2>1. ScoresKept
    BY <1>1, <1>2, RunnerStep
  <2>2. runner.pc = "link" => runner.update.status \notin Scored
    BY <1>2 DEF Scored
  <2> QED
    BY <1>2, <2>1, <2>2 DEF ScoresKept
<1>3. CASE StartService
  <2>1. service.pc = "down" /\ record'.reason = "none"
    BY <1>3 DEF StartService, StartAccepted, Serve
  <2>2. runner.pc = "down"
    BY <2>1 DEF ServiceTyped, At
  <2>3. (\E batch \in Batches : Run(batch)) \/ UNCHANGED runner
    BY <1>3 DEF StartService, RunnerRefuses
  <2>4. runner'.pc # "link"
    BY <1>1, <2>2, <2>3, RunnerRests DEF Invocation
  <2> QED
    BY <2>1, <2>4
<1>4. CASE ResumeService
  <2>1. service.pc = "down" /\ record' = record /\ record.journal = journal /\ journal \in Journal
    BY <1>1, <1>4 DEF ResumeService, ResumeEntryAccepted, Serve
  <2>2. runner.pc = "down"
    BY <2>1 DEF ServiceTyped, At
  <2>3. (\E batch \in Batches : Recover(batch) \/ RunnerResumes(batch)) \/ RunnerRefuses
    BY <1>4 DEF ResumeService
  <2>4. Invocation \/ RunnerRefuses
    BY <2>3 DEF Invocation, RunnerResumes
  <2>5. runner'.pc # "link"
    BY <1>1, <2>2, <2>4, RunnerRests DEF RunnerRefuses
  <2>6. CASE Invocation
    BY <1>2, <2>1, <2>2, <2>5, <2>6 DEF Next
  <2>7. CASE RunnerRefuses
    BY <2>1, <2>5, <2>7 DEF RunnerRefuses, diskVars
  <2> QED
    BY <2>4, <2>6, <2>7
<1>5. CASE RunnerWorks
  <2>1. service.pc = "serving" /\ ~service.built /\ Loop /\ record' = record
    BY <1>5 DEF RunnerWorks, serviceVars
  <2>2. runner'.pc = "link" => runner'.update.status = "stopped"
    <3>1. Loop => runner'.pc # "link" \/ runner'.update.status = "stopped" \/ runner.pc = "exec"
      BY <1>1, NothingInFlight DEF ExecReturns, At
    <3>2. runner.pc = "exec" => runner'.pc # "link"
      BY <1>1, <2>1 DEF Loop, CreateJournal, Begin, NextItem, Finish, StopItem, Link, Pause, MarkBudget,
                        AuditDone, AuditCall, At
    <3> QED
      BY <2>1, <3>1, <3>2
  <2>3. [Next]_vars /\ (runner.pc # "link" \/ runner.update.status = "stopped")
    BY <2>1 DEF Next, Resumed, At
  <2>4. ASSUME record.reason # "none"
        PROVE  /\ journal \in Journal
               /\ \A i \in Items : journal.items[i].status \in Scored
                                     <=> record.journal.items[i].status \in Scored
    BY <2>1, <2>4 DEF Resumed, Status
  <2> QED
    BY <1>2, <2>1, <2>2, <2>3, <2>4
<1>6. CASE BuildExecutor
  <2>1. service.pc = "serving" /\ ~service.built /\ UNCHANGED diskVars
    BY <1>6 DEF BuildExecutor
  <2>2. UNCHANGED record /\ StopWith("internal_error")
    BY <1>6 DEF BuildExecutor, WriteRecord, serviceVars, ServiceTyped
  <2>3. runner'.pc = "stop"
    BY <1>1, <2>2 DEF StopWith, Runner
  <2> QED
    BY <2>1, <2>2, <2>3 DEF Resumed, Status, diskVars
<1>7. CASE UNCHANGED evaluationVars
  BY <1>7 DEF evaluationVars, vars, diskVars, serviceVars, Resumed, Status, At
<1>8. ASSUME PersistSidecar \/ Finally \/ Interrupted \/ Cancelled \/ Dies \/ OperatorActs PROVE FALSE
  <2>1. ASSUME PersistSidecar PROVE FALSE
    <3>1. service.pc = "sidecar" /\ service' = IF At("exec") THEN [service EXCEPT !.pc = "serving"] ELSE Idle
      BY <2>1 DEF PersistSidecar
    <3>2. At("exec") => service.built
      BY <3>1 DEF At, ServiceTyped
    <3> QED
      BY <3>1, <3>2 DEF ServiceTyped, Idle
  <2>2. ASSUME Finally PROVE FALSE
    <3>1. service' = Idle \/ service' = [service EXCEPT !.pc = "sidecar", !.built = At("exec")]
      BY <2>2 DEF Finally, WriteRecord
    <3>2. service' = [service EXCEPT !.pc = "sidecar", !.built = At("exec")] => service'.pc = "sidecar"
      BY DEF ServiceTyped
    <3> QED
      BY <3>1, <3>2 DEF Idle
  <2>3. ~Interrupted /\ ~Cancelled /\ ~Dies /\ ~OperatorActs
    BY DEF Interrupted, Cancelled, Dies, OperatorActs, Idle, serviceVars
  <2> QED
    BY <1>8, <2>1, <2>2, <2>3
<1> QED
  BY <1>3, <1>4, <1>5, <1>6, <1>7, <1>8 DEF ServiceNext, Works

\* A stop that a resume lifts is the stop of one phase.
LEMMA OneStopped ==
  ASSUME NEW j, SourceSound(j), j.reason \in ResumedReasons \cup Recoverable
  PROVE  \E p \in Phases :
           /\ UpdatedPhase(j, p) = StopStatus[j.reason]
           /\ \A q \in Phases : q # p => UpdatedPhase(j, q) \in {"planned", "running", "complete"}
<1>1. /\ ItemsSound(j.items) /\ ReasonsAgree(j) /\ j.reason \in StopReason
      /\ \A i \in Items : j.items[i].reason \in {"none", j.reason}
  BY TheReasons DEF SourceSound, ReasonsAgree, ResumedReasons, Recoverable
<1>2. \A i : PhaseOf(i) \in Phases
  BY DEF PhaseOf, Phases
<1>3. CASE j.reason # "user_paused"
  <2>1. \A q \in Phases : UpdatedPhase(j, q) = PhaseStatus(j, q)
    BY <1>3 DEF UpdatedPhase
  <2>2. PICK i \in Items : j.items[i].reason = j.reason
    BY <1>1, <1>3, TheReasons DEF ReasonsAgree, ResumedReasons, Recoverable
  <2>3. PhaseStatus(j, PhaseOf(i)) = StopStatus[j.reason]
    BY <1>1, <2>2, StoppedItem
  <2>4. ASSUME NEW q \in Phases, q # PhaseOf(i)
        PROVE  PhaseStatus(j, q) \in {"planned", "running", "complete"}
    <3>1. j.reason \notin {"none", "budget"}
      BY DEF ResumedReasons, Recoverable
    <3>2. \A k \in Items : k # i => j.items[k].reason = "none"
      BY <2>2, <3>1 DEF SourceSound, ReasonAlone
    <3> QED
      BY <1>1, <2>4, <3>1, <3>2, StoppedPhase
  <2> QED
    BY <1>2, <2>1, <2>3, <2>4
<1>4. CASE j.reason = "user_paused"
  <2> DEFINE p == PhaseOf(Min(PendingItems(j)))
  <2>1. PendingItems(j) # {}
    BY <1>4 DEF SourceSound, Left, PendingItems
  <2>2. UpdatedPhase(j, p) = StopStatus[j.reason]
    BY <1>4, <2>1, TheReasons DEF UpdatedPhase, StopStatus
  <2>3. ASSUME NEW q \in Phases, q # p PROVE UpdatedPhase(j, q) \in {"planned", "running", "complete"}
    <3>1. UpdatedPhase(j, q) = PhaseStatus(j, q)
      BY <2>3 DEF UpdatedPhase
    <3>2. \A i \in Items : j.items[i].reason # j.reason
      BY <1>1, <1>4 DEF ItemsSound, ItemSound, Item, WorkStatus, Scored
    <3>3. PhaseStatus(j, q) \notin {"planned", "running", "complete"} =>
            \E i \in Items : j.items[i].reason = j.reason
      BY <1>1, StoppedPhase
    <3> QED
      BY <3>1, <3>2, <3>3
  <2> QED
    BY <1>2, <2>2, <2>3
<1> QED
  BY <1>3, <1>4

\* The hook of the first item writes the record, unless billing was uncertain of
\* an activity with no phase stopped.
LEMMA BuiltAccepted ==
  ASSUME CampaignInv, RecordKept, Sourced, Stuck
  PROVE  ExecutorIsBuilt
<1> SUFFICES ASSUME service.pc = "serving", At("exec"), ~service.built, ~BillingStopWithoutPhase
             PROVE  BuildAccepted
  BY DEF ExecutorIsBuilt
<1>1. Valid(BuiltRecord)
  <2>1. /\ BuiltRecord.reason = "none" /\ BuiltRecord.billing = FALSE
        /\ BuiltRecord.status = "running"
    BY BuiltRuns DEF CampaignInv, StopInv, FinalInv, RecordKept
  <2> QED
    BY <2>1 DEF Valid
<1>2. ASSUME Lifts
      PROVE  \E p \in Phases : LiftedPhases = {p} /\ record.phases[p] = StopStatus[record.reason]
  <2> DEFINE j == record.journal
  <2>1. record.reason \in ResumedReasons \cup Recoverable /\ record.reason # "none"
    BY <1>2 DEF Lifts, ResumedReasons, Recoverable
  <2>2. SourceSound(j) /\ \A phase \in Phases : record.phases[phase] = UpdatedPhase(j, phase)
    BY <2>1 DEF Sourced, SourcedFrom
  <2>3. ASSUME record.reason # j.reason PROVE FALSE
    <3>1. /\ record.reason = "billing_uncertain"
          /\ j.reason = "none" => \E i \in Items : j.items[i].status = "running"
      BY <2>1, <2>3 DEF Sourced, SourcedFrom
    <3>2. j.reason = "none"
      BY <2>3, <3>1 DEF Stuck
    <3>3. PICK i \in Items : j.items[i].status = "running"
      BY <3>1, <3>2
    <3>4. PhaseStatus(j, PhaseOf(i)) = "running"
      BY <2>2, <3>2, <3>3, RunningItem DEF SourceSound, ReasonsAgree
    <3>5. PhaseOf(i) \in Phases /\ record.phases[PhaseOf(i)] = "running"
      BY <2>2, <3>2, <3>4 DEF UpdatedPhase, PhaseOf, Phases
    <3> QED
      BY <3>1, <3>5 DEF BillingStopWithoutPhase
  <2>4. PICK p \in Phases :
          /\ record.phases[p] = StopStatus[record.reason]
          /\ \A q \in Phases : q # p => record.phases[q] \in {"planned", "running", "complete"}
    BY <2>1, <2>2, <2>3, OneStopped
  <2>5. /\ StopStatus["process_interruption"] = "interrupted" /\ StopStatus["user_paused"] = "paused"
        /\ \A r \in Recoverable : StopStatus[r] \notin {"planned", "running", "complete"}
    BY TheReasons, TheStops DEF StopStatus, Recoverable
  <2>6. CASE record.reason \in ResumedReasons
    <3>1. LiftedPhases = {q \in Phases : record.phases[q] \in {"interrupted", "paused"}}
      BY <2>6 DEF LiftedPhases
    <3> QED
      BY <2>4, <2>5, <2>6, <3>1 DEF ResumedReasons
  <2>7. CASE record.reason \notin ResumedReasons
    <3> DEFINE stops == {StopStatus[r] : r \in Recoverable}
    <3>1. /\ record.reason \in Recoverable
          /\ LiftedPhases =
               {q \in Phases :
                  /\ record.phases[q] \in stops
                  /\ q = "stability" => record.phases["dev"] \notin stops}
      BY <1>2, <2>7 DEF Lifts, LiftedPhases
    <3>2. record.phases[p] \in stops /\ \A q \in Phases : q # p => record.phases[q] \notin stops
      BY <2>4, <2>5, <3>1
    <3> HIDE DEF stops
    <3> QED
      BY <2>4, <3>1, <3>2 DEF Phases
  <2> QED
    BY <2>6, <2>7
<1> QED
  BY <1>1, <1>2 DEF BuildAccepted

(***************************************************************************)
(* The phases in order.                                                    *)
(***************************************************************************)

\* The dev phase is complete once its items are scored, of which there are some.
LEMMA DevComplete ==
  ASSUME NEW j, ItemsSound(j.items), \A i \in Items \ Stability : j.items[i].status \in Scored
  PROVE  PhaseStatus(j, "dev") = "complete"
<1> DEFINE items == {i \in Items : PhaseOf(i) = "dev"}
           reasons == {j.items[i].reason : i \in items}
           statuses == {j.items[i].status : i \in items}
<1>1. items = Items \ Stability /\ items # {}
  BY PhasesAssumption DEF PhaseOf
<1>2. statuses \subseteq Scored /\ reasons \subseteq {"none"}
  BY <1>1 DEF ItemsSound, ItemSound
<1>3. HighestStopReason(reasons) = "none"
  <2>1. reasons \cap StopReason = {}
    BY <1>2, TheStops
  <2> HIDE DEF reasons
  <2> QED
    BY <2>1, HighestIsAReason
<1> QED
  BY <1>1, <1>2, <1>3 DEF PhaseStatus

\* The stability phase is under way when an item of it was begun.
LEMMA StabilityBegun ==
  ASSUME NEW j, NEW reason \in StopReason \cup {"none"}, ItemsSound(j.items),
         \A i \in Items : j.items[i].reason \in {"none", reason},
         PhaseStatus(j, "stability") \in {"running", "paused", "interrupted", "complete"}
  PROVE  \E k \in Stability : j.items[k].status \notin {"pending", "not_run_budget"}
<1> DEFINE items == {i \in Items : PhaseOf(i) = "stability"}
           reasons == {j.items[i].reason : i \in items}
           statuses == {j.items[i].status : i \in items}
<1>1. items = Stability /\ \A i \in Stability : ItemSound(j.items[i])
  BY RunnerAssumption DEF PhaseOf, ItemsSound
<1>2. CASE PhaseStatus(j, "stability") \in {"paused", "interrupted"}
  <2>1. /\ reason # "none" /\ PhaseStatus(j, "stability") = StopStatus[reason]
        /\ \E i \in Items : PhaseOf(i) = "stability" /\ j.items[i].reason = reason
    BY <1>2, StoppedPhase
  <2>2. PICK i \in Stability : j.items[i].reason = reason
    BY <1>1, <2>1
  <2>3. reason \notin {"none", "budget"}
    <3>1. StopStatus["budget"] = "incomplete_budget"
      BY TheReasons DEF StopStatus
    <3> QED
      BY <1>2, <2>1, <3>1
  <2> QED
    BY <1>1, <2>2, <2>3 DEF ItemSound
<1>3. CASE PhaseStatus(j, "stability") \in {"running", "complete"}
  <2>1. HighestStopReason(reasons) = "none"
    <3>1. HighestStopReason(reasons) = "none" \/ HighestStopReason(reasons) \in StopReason
      <4> HIDE DEF reasons
      <4> QED
        BY HighestIsAReason
    <3> QED
      BY <1>3, <3>1, TheStops DEF PhaseStatus
  <2>2. items # {} /\ (statuses \subseteq Scored \/ "running" \in statuses)
    BY <1>3, <2>1 DEF PhaseStatus
  <2> QED
    BY <1>1, <2>2 DEF Scored
<1> QED
  BY <1>2, <1>3

\* Then the dev phase is complete.
LEMMA StabilityLast ==
  ASSUME NEW j, ItemsSound(j.items), NEW k \in Stability,
         j.items[k].status \notin {"pending", "not_run_budget"}
  PROVE  \A i \in Items \ Stability : j.items[i].status \in Scored
BY PhasesAssumption, RunnerAssumption DEF ItemsSound, InOrder

\* A paused journal goes on with its first pending item, after scored ones.
LEMMA PausedFirst ==
  ASSUME NEW j, SourceSound(j), j.reason = "user_paused"
  PROVE  \E k \in Items :
           /\ PendingItems(j) # {} /\ k = Min(PendingItems(j)) /\ j.items[k].status = "pending"
           /\ \A i \in Items : i < k => j.items[i].status \in Scored
<1> DEFINE k == Min(PendingItems(j))
<1>1. PendingItems(j) # {} /\ PendingItems(j) \subseteq Nat
  BY ItemsAreNumbers DEF SourceSound, Left, PendingItems
<1>2. k \in PendingItems(j) /\ \A i \in PendingItems(j) : k <= i
  BY <1>1, MinIsLeast
<1> HIDE DEF k
<1>3. ASSUME NEW i \in Items, i < k PROVE j.items[i].status \in Scored
  <2>1. j.items[i].status # "pending"
    BY <1>1, <1>2, <1>3, ItemsAreNumbers DEF PendingItems
  <2>2. j.items[i].reason \in {"none", "user_paused"} /\ j.items[i].status # "running"
    BY DEF SourceSound, ReasonsAgree
  <2>3. ItemSound(j.items[i]) /\ j.items[i].status \in WorkStatus
    BY DEF SourceSound, ItemsSound, Item
  <2> QED
    BY <2>1, <2>2, <2>3 DEF ItemSound, WorkStatus, Scored
<1> QED
  BY <1>1, <1>2, <1>3 DEF k, PendingItems

\* The phases of a journal are in order.
LEMMA UpdateOrdered ==
  ASSUME NEW j, SourceSound(j), UpdatedPhase(j, "stability") \in {"running", "paused", "interrupted", "complete"}
  PROVE  UpdatedPhase(j, "dev") = "complete"
<1>1. ItemsSound(j.items) /\ ReasonsAgree(j) /\ j.reason \in StopReason \cup {"none"}
  BY DEF SourceSound, Journal
<1>2. ASSUME \A i \in Items \ Stability : j.items[i].status \in Scored
      PROVE  UpdatedPhase(j, "dev") = "complete"
  <2>1. PhaseStatus(j, "dev") = "complete"
    BY <1>1, <1>2, DevComplete
  <2>2. j.reason = "user_paused" => PhaseOf(Min(PendingItems(j))) # "dev"
    BY <1>2, PausedFirst DEF PhaseOf, Scored
  <2> QED
    BY <2>1, <2>2 DEF UpdatedPhase
<1>3. CASE UpdatedPhase(j, "stability") = PhaseStatus(j, "stability")
  <2>1. \E k \in Stability : j.items[k].status \notin {"pending", "not_run_budget"}
    BY <1>1, <1>3, StabilityBegun DEF ReasonsAgree
  <2> QED
    BY <1>1, <1>2, <2>1, StabilityLast
<1>4. CASE UpdatedPhase(j, "stability") # PhaseStatus(j, "stability")
  <2>1. j.reason = "user_paused" /\ PhaseOf(Min(PendingItems(j))) = "stability"
    BY <1>4 DEF UpdatedPhase
  <2>2. PICK k \in Items : k = Min(PendingItems(j)) /\ \A i \in Items : i < k => j.items[i].status \in Scored
    BY <2>1, PausedFirst
  <2>3. k \in Stability
    BY <2>1, <2>2 DEF PhaseOf
  <2> QED
    BY <1>2, <2>2, <2>3, PhasesAssumption
<1> QED
  BY <1>3, <1>4

\* A phase with a stop to lift has the first item that is not scored.
LEMMA FirstUnscored ==
  ASSUME NEW j, SourceSound(j), NEW phase \in Phases,
         UpdatedPhase(j, phase) \notin {"planned", "running", "complete", "incomplete_budget"}
  PROVE  \E k \in Items :
           /\ PhaseOf(k) = phase /\ j.items[k].status \notin Scored
           /\ \A i \in Items : i < k => j.items[i].status \in Scored
<1>1. ItemsSound(j.items) /\ ReasonsAgree(j) /\ j.reason \in StopReason \cup {"none"}
  BY DEF SourceSound, Journal
<1>2. CASE UpdatedPhase(j, phase) = PhaseStatus(j, phase)
  <2>1. /\ j.reason # "none" /\ PhaseStatus(j, phase) = StopStatus[j.reason]
        /\ \E i \in Items : PhaseOf(i) = phase /\ j.items[i].reason = j.reason
    BY <1>1, <1>2, StoppedPhase DEF ReasonsAgree
  <2>2. PICK k \in Items : PhaseOf(k) = phase /\ j.items[k].reason = j.reason
    BY <2>1
  <2>3. j.reason \notin {"none", "budget"}
    <3>1. StopStatus["budget"] = "incomplete_budget"
      BY TheReasons DEF StopStatus
    <3> QED
      BY <1>2, <2>1, <3>1
  <2>4. j.items[k].status \in {"interrupted", "stopped"}
    <3>1. ItemSound(j.items[k]) /\ j.items[k].status \in WorkStatus
      BY <1>1 DEF ItemsSound, Item
    <3> QED
      BY <2>2, <2>3, <3>1 DEF ItemSound, WorkStatus, Scored
  <2> QED
    BY <1>1, <2>2, <2>4, InHandAlone
<1>3. CASE UpdatedPhase(j, phase) # PhaseStatus(j, phase)
  <2>1. j.reason = "user_paused" /\ PhaseOf(Min(PendingItems(j))) = phase
    BY <1>3 DEF UpdatedPhase
  <2> QED
    BY <2>1, PausedFirst DEF Scored
<1> QED
  BY <1>2, <1>3

\* So what an invocation lifts is the stop of the phase it goes on with.
LEMMA LiftedIsInHand ==
  ASSUME CampaignInv, Sourced, Resumed, service.pc = "serving", ~service.built, At("exec")
  PROVE  LiftedPhases \subseteq {PhaseOf(runner.item)}
<1> DEFINE i == runner.item
           j == record.journal
<1>1. /\ journal \in Journal /\ i \in Items /\ journal.items[i].status = "running"
      /\ ItemsSound(journal.items)
  BY OnRecord DEF At, CampaignInv, StopInv, FinalInv, RunnerInv, RunnerSound, Status
<1> SUFFICES ASSUME NEW phase \in LiftedPhases PROVE phase = PhaseOf(i)
  OBVIOUS
<1>2. /\ record.reason # "none" /\ phase \in Phases
      /\ record.phases[phase] \in {"interrupted", "paused"} \cup {StopStatus[r] : r \in Recoverable}
  BY DEF LiftedPhases, ResumedReasons, Recoverable
<1>3. record.phases[phase] \notin {"planned", "running", "complete", "incomplete_budget"}
  BY <1>2, TheReasons DEF Recoverable, StopStatus
<1>4. SourceSound(j) /\ UpdatedPhase(j, phase) = record.phases[phase]
  BY <1>2 DEF Sourced, SourcedFrom
<1>5. PICK k \in Items : /\ PhaseOf(k) = phase /\ j.items[k].status \notin Scored
                         /\ \A n \in Items : n < k => j.items[n].status \in Scored
  BY <1>2, <1>3, <1>4, FirstUnscored
<1>6. \A n \in Items : journal.items[n].status \in Scored <=> j.items[n].status \in Scored
  BY <1>2 DEF Resumed, Status
<1>7. journal.items[i].status \notin Scored /\ \A n \in Items : n < i => journal.items[n].status \in Scored
  BY <1>1, InHandAlone
<1> HIDE DEF i, j
<1>8. k = i
  BY <1>1, <1>5, <1>6, <1>7, ItemsAreNumbers
<1> QED
  BY <1>5, <1>8 DEF i

\* The record the hook writes has its phases in order.
LEMMA BuiltOrdered ==
  ASSUME CampaignInv, Sourced, Resumed, service.pc = "serving", ~service.built, At("exec"),
         BuiltPhase("stability") \in {"running", "paused", "interrupted", "complete"}
  PROVE  BuiltPhase("dev") = "complete"
<1> DEFINE i == runner.item
<1>1. /\ journal \in Journal /\ i \in Items /\ journal.items[i].status = "running"
      /\ ItemsSound(journal.items) /\ Clean
  BY OnRecord DEF At, CampaignInv, StopInv, FinalInv, RunnerInv, RunnerSound, Status
<1>2. LiftedPhases \subseteq {PhaseOf(i)}
  BY LiftedIsInHand
<1>3. ASSUME i \notin Stability PROVE FALSE
  <2>1. PhaseStatus(journal, "stability") \in {"running", "paused", "interrupted", "complete"}
    BY <1>2, <1>3 DEF BuiltPhase, PhaseOf
  <2>2. \A k \in Items : journal.items[k].reason \in {"none", "none"}
    BY <1>1 DEF Clean
  <2>3. \E k \in Stability : journal.items[k].status \notin {"pending", "not_run_budget"}
    BY <1>1, <2>1, <2>2, StabilityBegun
  <2>4. journal.items[i].status \in Scored
    BY <1>1, <1>3, <2>3, StabilityLast
  <2> QED
    BY <1>1, <2>4 DEF Scored
<1>4. PhaseStatus(journal, "dev") = "complete"
  <2>1. \A k \in Items \ Stability : journal.items[k].status \in Scored
    BY <1>1, <1>3, StabilityLast
  <2> QED
    BY <1>1, <2>1, DevComplete
<1> QED
  BY <1>2, <1>3, <1>4 DEF BuiltPhase, PhaseOf

\* The phases of the record stay in order.
LEMMA OrderedStep ==
  ASSUME CampaignInv, RecordKept, Sourced, Resumed, PhasesInOrder, [ServiceNext]_evaluationVars
  PROVE  PhasesInOrder'
<1>1. RunnerInv /\ StopRecorded
  BY DEF CampaignInv, StopInv, FinalInv
<1>2. CASE UNCHANGED record
  BY <1>2 DEF PhasesInOrder
<1>3. CASE ~UNCHANGED record
  <2>1. service.pc = "serving"
    BY <1>3, RecordMoves
  <2>2. CASE journal \in Journal /\ record' = UpdatedRecord
    <3>1. /\ record'.phases["dev"] = UpdatedPhase(journal, "dev")
          /\ record'.phases["stability"] = UpdatedPhase(journal, "stability")
      BY <1>1, <2>2, UpdateTyped
    <3> QED
      BY <2>2, <3>1, JournalIsSource, UpdateOrdered DEF PhasesInOrder
  <2>3. CASE At("exec") /\ ~service.built /\ record' = BuiltRecord
    <3>1. /\ record'.phases["dev"] = BuiltPhase("dev")
          /\ record'.phases["stability"] = BuiltPhase("stability")
      BY <1>1, <2>1, <2>3, BuiltRuns DEF RecordKept
    <3> QED
      BY <2>1, <2>3, <3>1, BuiltOrdered DEF PhasesInOrder
  <2> QED
    BY <1>3, <2>2, <2>3, RecordMoves
<1> QED
  BY <1>2, <1>3

(***************************************************************************)
(* The theorems.                                                           *)
(***************************************************************************)

\* What is always true of the service and the campaign under it.
KeptInv ==
  /\ CampaignInv /\ ServiceTyped /\ RecordKept
  /\ Published /\ Shown
  /\ Sourced /\ Stuck /\ Resumed
  /\ PhasesInOrder

\* It holds at all times.
LEMMA KeptInvariant == ServiceSpec => []KeptInv
<1>1. ServiceInit => KeptInv
  <2> SUFFICES ASSUME ServiceInit PROVE KeptInv
    OBVIOUS
  <2>1. CampaignInv /\ At("down")
    BY CampaignStep DEF ServiceInit, Init, At, Down
  <2>2. RecordTyped(record)
    BY DEF ServiceInit, InitialRecord, RecordTyped, Phases, CampaignStatus
  <2>3. Published /\ Shown
    <3>1. record.status = "planned" /\ ~service.built
      BY DEF ServiceInit, InitialRecord, Idle
    <3>2. \A i \in Items : RowsIn(i, Unknown) = {}
      BY RunnerAssumption DEF ServiceInit, Init, StoreInit, Absent, RowsIn, Unknown
    <3> QED
      BY <3>1, <3>2 DEF Published, Shown
  <2>4. Sourced /\ Stuck /\ Resumed /\ PhasesInOrder
    <3>1. /\ record.reason = "none" /\ service.pc = "down"
          /\ record.phases["stability"] = "planned"
      BY DEF ServiceInit, InitialRecord, Idle, Phases
    <3> QED
      BY <3>1 DEF Sourced, SourcedFrom, Stuck, StuckAt, Resumed, PhasesInOrder
  <2> QED
    BY <2>1, <2>2, <2>3, <2>4 DEF KeptInv, ServiceInit, InitialRecord, Idle, ServiceTyped, RecordKept
<1>2. KeptInv /\ [ServiceNext]_evaluationVars => KeptInv'
  <2> SUFFICES ASSUME KeptInv, [ServiceNext]_evaluationVars PROVE KeptInv'
    OBVIOUS
  <2> USE DEF KeptInv
  <2>1. CampaignInv' /\ ServiceTyped' /\ RecordKept'
    BY CampaignStep, RecordStep DEF CampaignInv
  <2>2. Published' /\ Shown'
    BY PublishedStep, ShownStep
  <2>3. Sourced'
    BY SourcedStep DEF Sourced, SourcedFrom
  <2>4. Stuck' /\ Resumed' /\ PhasesInOrder'
    BY StuckStep, ResumedStep, OrderedStep
  <2> QED
    BY <2>1, <2>2, <2>3, <2>4
<1> QED
  BY <1>1, <1>2, PTL DEF ServiceSpec

\* The record, its sidecar and the service process, and the campaign under them,
\* keep every value in its type.
THEOREM ServiceTypeCorrect == ServiceSpec => []ServiceTypeOK
<1>1. KeptInv => ServiceTypeOK
  BY DEF KeptInv, CampaignInv, StopInv, FinalInv, RunnerInv, RunnerTypes, TypeOK, ServiceTyped, RecordKept,
         RecordTyped, ServiceTypeOK
<1> QED
  BY <1>1, KeptInvariant, PTL

\* No call is paid for while the record says the activity is stopped or closed,
\* or while its sidecar lags behind.
THEOREM NoPaymentUnderRecordedStop == ServiceSpec => NoPaidCallUnderAStop
<1>1. KeptInv /\ [ServiceNext]_evaluationVars =>
        [\A c \in CallIds :
           handed'[c] # handed[c] =>
             sidecar /\ record.reason = "none" /\ record.status = "running"]_evaluationVars
  BY HandedByExecutor DEF KeptInv, RecordKept
<1> QED
  BY <1>1, KeptInvariant, PTL DEF ServiceSpec, NoPaidCallUnderAStop

\* The record derived in the finally clause always passes its own validator.
THEOREM UpdatesAreAccepted == ServiceSpec => []UpdateIsAccepted
<1>1. KeptInv => UpdateIsAccepted
  BY UpdateValid DEF KeptInv, CampaignInv, StopInv, FinalInv, RunnerInv, RunnerTypes, UpdateIsAccepted
<1> QED
  BY <1>1, KeptInvariant, PTL

\* Between invocations a record that is up to date does not hide an open call.
THEOREM OpenCallsShown == ServiceSpec => []OpenCallsAreShown
<1>1. KeptInv => OpenCallsAreShown
  BY DEF KeptInv, Shown, Underway, OpenCallsAreShown
<1> QED
  BY <1>1, KeptInvariant, PTL

\* An activity is published as complete only over the items of the journal as
\* they are, every item scored, every call of the ledger completed and priced.
THEOREM PublishedActivityIsComplete == ServiceSpec => []PublishedIsComplete
<1>1. KeptInv => PublishedIsComplete
  <2> SUFFICES ASSUME KeptInv, record.status = "complete"
               PROVE  /\ record.journal.items = journal.items
                      /\ \A i \in Items : Status(i) \in Scored
                      /\ AllRowsCompleted
    BY DEF PublishedIsComplete
  <2>1. /\ journal \in Journal /\ record.journal.items = journal.items
        /\ \A i \in Items : Status(i) \in Scored
    BY DEF KeptInv, Published
  <2>2. \A i \in Items, t \in Tasks : calls[<<i, t>>].state \in {"absent", "completed"}
    BY <2>1 DEF KeptInv, CampaignInv, StopInv, FinalInv, RowsSettled, Settled, Status
  <2> QED
    BY <2>1, <2>2 DEF AllRowsCompleted, RowsIn, CallState
<1> QED
  BY <1>1, KeptInvariant, PTL

\* The hook of the first item fails only for a record whose billing is uncertain
\* while a phase of it is running: otherwise the stop it lifts names one phase.
THEOREM ExecutorAlwaysBuilt == ServiceSpec => []ExecutorIsBuilt
<1>1. KeptInv => ExecutorIsBuilt
  BY BuiltAccepted DEF KeptInv
<1> QED
  BY <1>1, KeptInvariant, PTL

\* The stability phase is under way only after the dev phase is complete.
THEOREM PhasesStayInOrder == ServiceSpec => []PhasesInOrder
<1>1. KeptInv => PhasesInOrder
  BY DEF KeptInv
<1> QED
  BY <1>1, KeptInvariant, PTL

=============================================================================
