------------------------ MODULE CampaignRunnerProofs ------------------------
(***************************************************************************)
(* What holds of the campaign runner for any number of items, tasks and    *)
(* process starts: it uses the ledger by its transactions only, executes   *)
(* the schedule in order, and keeps files and journal in step.             *)
(***************************************************************************)
EXTENDS CampaignRunner, RunStoreProofs, FiniteSetTheorems, WellFoundedInduction

(***************************************************************************)
(* The operators the runner is built from.                                 *)
(***************************************************************************)

\* The stop reasons, written out.
LEMMA TheReasons ==
  StopReason = {"billing_uncertain", "usage_missing", "model_drift", "budget",
                "internal_error", "user_cancelled", "process_interruption", "user_paused"}
<1>1. Len(Precedence) = 8
  BY DEF Precedence
<1>2. 1 .. 8 = {1, 2, 3, 4, 5, 6, 7, 8}
  OBVIOUS
<1>3. StopReason = {Precedence[n] : n \in {1, 2, 3, 4, 5, 6, 7, 8}}
  BY <1>1, <1>2 DEF StopReason
<1> QED
  BY <1>3 DEF Precedence

\* The reason reported for a set of reasons is one of them, if there is any.
LEMMA HighestIsAReason ==
  ASSUME NEW R
  PROVE  /\ R \cap StopReason = {} => HighestStopReason(R) = "none"
         /\ R \cap StopReason # {} => HighestStopReason(R) \in R \cap StopReason
<1>1. CASE R \cap StopReason = {}
  BY <1>1 DEF HighestStopReason
<1>2. CASE R \cap StopReason # {}
  <2>1. PICK k \in 1 .. Len(Precedence) : Precedence[k] \in R
    BY <1>2 DEF StopReason
  <2> DEFINE Found == {n \in 1 .. Len(Precedence) : Precedence[n] \in R}
  <2>2. Len(Precedence) = 8
    BY DEF Precedence
  <2>3. Found \subseteq Nat /\ Found # {}
    BY <2>1, <2>2
  <2>4. PICK n \in Found : \A m \in Found : n <= m
    BY <2>3, MinIsLeast
  <2>5. /\ n \in 1 .. Len(Precedence) /\ Precedence[n] \in R
        /\ \A m \in 1 .. n - 1 : Precedence[m] \notin R
    BY <2>2, <2>4
  <2> HIDE DEF Found
  <2> QED
    BY <1>2, <2>5 DEF HighestStopReason, StopReason
<1> QED
  BY <1>1, <1>2

\* A resumable campaign has no stop on record that needs an operator.
LEMMA HighestIsHighest ==
  ASSUME NEW R, HighestStopReason(R) \in {"none", "process_interruption", "user_paused"}
  PROVE  R \cap {"billing_uncertain", "usage_missing", "model_drift", "budget",
                 "internal_error", "user_cancelled"} = {}
<1>1. CASE R \cap StopReason = {}
  BY <1>1, TheReasons
<1>2. CASE R \cap StopReason # {}
  <2>1. Len(Precedence) = 8
    BY DEF Precedence
  <2>2. PICK k \in 1 .. Len(Precedence) : Precedence[k] \in R
    BY <1>2 DEF StopReason
  <2> DEFINE Found == {n \in 1 .. Len(Precedence) : Precedence[n] \in R}
  <2>3. Found \subseteq Nat /\ Found # {}
    BY <2>1, <2>2
  <2>4. PICK f \in Found : \A m \in Found : f <= m
    BY <2>3, MinIsLeast
  <2> DEFINE least(n) == Precedence[n] \in R /\ \A m \in 1 .. n - 1 : Precedence[m] \notin R
             n == CHOOSE n \in 1 .. Len(Precedence) : least(n)
  <2>5. f \in 1 .. Len(Precedence) /\ least(f)
    BY <2>1, <2>4
  <2>6. n \in 1 .. Len(Precedence) /\ least(n)
    <3> HIDE DEF least
    <3> QED
      BY <2>5
  <2>7. Precedence[n] = HighestStopReason(R)
    BY <1>2 DEF HighestStopReason
  <2> HIDE DEF n, Found
  <2>8. n \in {7, 8}
    BY <2>1, <2>6, <2>7 DEF Precedence, StopReason
  <2>9. \A m \in 1 .. 6 : Precedence[m] \notin R
    BY <2>6, <2>8
  <2> QED
    BY <2>9 DEF Precedence
<1> QED
  BY <1>1, <1>2

\* The status of a stop and the derived status are statuses of a campaign.
LEMMA StatusIsAStatus ==
  /\ \A r \in StopReason : StopStatus[r] \in CampaignStatus
  /\ \A statuses, reasons : DeriveCampaignStatus(statuses, reasons) \in CampaignStatus
<1>1. \A r \in StopReason : StopStatus[r] \in CampaignStatus
  BY TheReasons DEF StopStatus, CampaignStatus
<1>2. ASSUME NEW statuses, NEW reasons
      PROVE  DeriveCampaignStatus(statuses, reasons) \in CampaignStatus
  <2>1. HighestStopReason(reasons) \in StopReason \cup {"none"}
    BY HighestIsAReason
  <2> QED
    BY <1>1, <2>1 DEF DeriveCampaignStatus, CampaignStatus
<1> QED
  BY <1>1, <1>2

(***************************************************************************)
(* The items of a journal.                                                 *)
(***************************************************************************)

\* What status, stop reason and artifact of an item say together.
ItemSound(item) ==
  /\ item.status \in {"pending", "running"} => item.reason = "none" /\ item.artifact = None
  /\ item.status = "interrupted" => item.reason = "process_interruption" /\ item.artifact = None
  /\ item.status \in Scored => item.reason = "none"
  /\ item.status = "stopped" =>
       item.reason \in {"billing_uncertain", "usage_missing", "model_drift", "budget", "internal_error"}
  /\ item.status = "not_run_budget" => item.reason = "budget"
  /\ item.status # "cancelled"

\* The items up to the first unsettled one are scored, those after it untouched.
InOrder(items) ==
  \A i, k \in Items :
    i < k /\ items[k].status \notin {"pending", "not_run_budget"} => items[i].status \in Scored

\* An item with a reason other than the budget is the only one with a reason,
\* and an interruption is also the journal's stop reason.
ReasonAlone(items, reason) ==
  /\ \A i \in Items : items[i].reason \notin {"none", "budget"} =>
       \A k \in Items : k # i => items[k].reason = "none"
  /\ \A i \in Items : items[i].reason = "process_interruption" => reason = "process_interruption"

\* The items are typed, each is sound, and they are in order.
ItemsSound(items) ==
  /\ items \in [Items -> Item]
  /\ \A i \in Items : ItemSound(items[i])
  /\ InOrder(items)

\* Writing the item in hand, after scored ones only, keeps the items sound.
LEMMA UpdateSound ==
  ASSUME NEW items, ItemsSound(items), NEW i \in Items, NEW new \in Item, ItemSound(new),
         items[i].status \notin Scored,
         \A k \in Items : k < i => items[k].status \in Scored
  PROVE  ItemsSound([items EXCEPT ![i] = new])
<1> DEFINE after == [items EXCEPT ![i] = new]
<1>1. /\ after \in [Items -> Item] /\ after[i] = new
      /\ \A k \in Items : k # i => after[k] = items[k]
  BY DEF ItemsSound
<1>2. \A k \in Items : ItemSound(after[k])
  BY <1>1 DEF ItemsSound
<1>3. \A k \in Items : i < k => items[k].status \in {"pending", "not_run_budget"}
  BY DEF ItemsSound, InOrder
<1> HIDE DEF after
<1>4. ASSUME NEW k \in Items, NEW l \in Items, k < l,
             after[l].status \notin {"pending", "not_run_budget"}
      PROVE  after[k].status \in Scored
  <2>1. CASE l = i
    BY <1>1, <1>4, <2>1, RunnerAssumption DEF Items
  <2>2. CASE l # i /\ k # i
    BY <1>1, <1>4, <2>2 DEF ItemsSound, InOrder
  <2>3. CASE l # i /\ k = i
    BY <1>1, <1>3, <1>4, <2>3
  <2> QED
    BY <2>1, <2>2, <2>3
<1> QED
  BY <1>1, <1>2, <1>4 DEF ItemsSound, InOrder, after

\* An item in hand follows scored items only, and is alone in hand.
LEMMA InHandAlone ==
  ASSUME NEW items, ItemsSound(items), NEW i \in Items,
         items[i].status \in {"running", "interrupted", "stopped"}
  PROVE  /\ items[i].status \notin Scored
         /\ \A k \in Items : k < i => items[k].status \in Scored
         /\ \A k \in Items : k > i => items[k].status \in {"pending", "not_run_budget"}
<1>1. items[i].status \notin Scored
  BY DEF Scored
<1>2. \A k \in Items : k < i => items[k].status \in Scored
  BY DEF ItemsSound, InOrder
<1>3. \A k \in Items : k > i => items[k].status \in {"pending", "not_run_budget"}
  BY <1>1, RunnerAssumption DEF ItemsSound, InOrder, Items
<1> QED
  BY <1>1, <1>2, <1>3

\* Giving stopped items back keeps the items sound.
LEMMA RequeueSound ==
  ASSUME NEW items, ItemsSound(items), NEW stopped \in SUBSET Items,
         \A i \in stopped : items[i].status \notin Scored
  PROVE  ItemsSound([i \in Items |-> IF i \in stopped
                       THEN [status |-> "pending", reason |-> "none", artifact |-> None]
                       ELSE items[i]])
<1> DEFINE fresh == [status |-> "pending", reason |-> "none", artifact |-> None]
           after == [i \in Items |-> IF i \in stopped THEN fresh ELSE items[i]]
<1>1. fresh \in Item /\ ItemSound(fresh)
  BY DEF Item, WorkStatus, ItemSound, Scored
<1>2. \A i \in Items : items[i] \in Item /\ ItemSound(items[i])
  BY DEF ItemsSound
<1>3. after \in [Items -> Item] /\ \A i \in Items : ItemSound(after[i])
  BY <1>1, <1>2
<1>4. ASSUME NEW k \in Items, NEW l \in Items, k < l,
             after[l].status \notin {"pending", "not_run_budget"}
      PROVE  after[k].status \in Scored
  <2>1. l \notin stopped /\ after[l] = items[l]
    BY <1>4
  <2>2. items[k].status \in Scored
    BY <1>4, <2>1 DEF ItemsSound, InOrder
  <2> QED
    BY <2>2
<1> QED
  BY <1>3, <1>4 DEF ItemsSound, InOrder

\* Giving up the rest of the schedule keeps the items sound.
LEMMA SkipSound ==
  ASSUME NEW items, ItemsSound(items), NEW i \in Items
  PROVE  ItemsSound([k \in Items |->
           IF k >= i /\ items[k].status \in {"pending", "running", "interrupted"}
             THEN [items[k] EXCEPT !.status = "not_run_budget", !.reason = "budget"]
             ELSE items[k]])
<1> DEFINE skipped(k) == [items[k] EXCEPT !.status = "not_run_budget", !.reason = "budget"]
           skip(k) == k >= i /\ items[k].status \in {"pending", "running", "interrupted"}
           after == [k \in Items |-> IF skip(k) THEN skipped(k) ELSE items[k]]
<1>1. \A k \in Items : items[k] \in Item /\ ItemSound(items[k])
  BY DEF ItemsSound
<1>2. ASSUME NEW k \in Items
      PROVE  /\ skipped(k) \in Item /\ ItemSound(skipped(k))
             /\ skipped(k).status = "not_run_budget"
  <2>1. items[k] \in Item
    BY <1>1
  <2>2. /\ skipped(k) \in Item /\ skipped(k).status = "not_run_budget"
        /\ skipped(k).reason = "budget"
    BY <2>1, TheReasons DEF Item, WorkStatus
  <2> QED
    BY <2>2 DEF ItemSound, Scored
<1> HIDE DEF skipped
<1>3. after \in [Items -> Item] /\ \A k \in Items : ItemSound(after[k])
  BY <1>1, <1>2
<1>4. ASSUME NEW k \in Items, NEW l \in Items, k < l,
             after[l].status \notin {"pending", "not_run_budget"}
      PROVE  after[k].status \in Scored
  <2>1. after[l] = items[l]
    BY <1>2, <1>4
  <2>2. items[k].status \in Scored
    BY <1>4, <2>1 DEF ItemsSound, InOrder
  <2>3. ~skip(k)
    BY <2>2 DEF Scored
  <2> QED
    BY <2>2, <2>3
<1> QED
  BY <1>3, <1>4 DEF ItemsSound, InOrder, skipped

(***************************************************************************)
(* The inductive invariant.                                                *)
(***************************************************************************)

\* Every artifact the items vouch for is on disk.
FiledIn(items, disk) ==
  \A i \in Items : items[i].artifact # None => disk[i] = items[i].artifact

\* A journal on disk has sound items, and its artifacts beside it.
JournalSound ==
  journal \in Journal =>
    /\ ItemsSound(journal.items)
    /\ ReasonAlone(journal.items, journal.reason)
    /\ FiledIn(journal.items, files)

\* No item carries a stop reason.
Clean == \A k \in Items : journal.items[k].reason = "none"
\* No item other than i carries one.
OthersClean(i) == \A k \in Items : k # i => journal.items[k].reason = "none"

\* What the runner knows of the journal at each step of its loop.
RunnerSound ==
  /\ runner.pc \notin {"down", "create"} => journal \in Journal
  /\ runner.pc = "create" => journal = None
  /\ runner.pc \in {"begin", "loop", "exec", "hand", "stop", "pause"} => Clean
  /\ runner.pc \in {"exec", "hand", "stop"} =>
       runner.item \in Items /\ Status(runner.item) = "running"
  /\ runner.pc = "hand" => runner.call \in CallIds
  /\ runner.pc = "stop" =>
       runner.update \in Item /\ runner.update.status = "stopped" /\ ItemSound(runner.update)
  /\ runner.pc = "audit" =>
       /\ runner.item \in Items /\ Status(runner.item) = "interrupted"
       /\ OthersClean(runner.item)
  /\ runner.pc = "link" =>
       /\ runner.item \in Items /\ Status(runner.item) \in {"running", "interrupted"}
       /\ OthersClean(runner.item)
       /\ runner.update \in Item /\ ItemSound(runner.update)
       /\ runner.update.status \in Scored \cup {"stopped"}
       /\ files[runner.item] = runner.update.artifact
  /\ runner.pc = "budget" =>
       /\ runner.item \in Items /\ Status(runner.item) \in {"running", "stopped"}
       /\ journal.items[runner.item].reason \in {"none", "budget"}
       /\ OthersClean(runner.item)

\* What a step must keep: the journal stays on disk, a scored item is final, and
\* an item becomes scored only by being linked.
ScoresKept ==
  /\ journal \in Journal => journal' \in Journal
  /\ \A i \in Items :
      /\ journal \in Journal /\ journal.items[i].status \in Scored =>
           /\ journal' \in Journal /\ journal'.items[i] = journal.items[i]
           /\ files'[i] = files[i]
      /\ journal' \in Journal /\ journal'.items[i].status \in Scored =>
           \/ journal \in Journal /\ journal.items[i].status \in Scored
           \/ runner.pc = "link" /\ runner.item = i /\ runner.update.status \in Scored

\* The types of the runner, its files and its journal.
RunnerTypes ==
  /\ plan \in BOOLEAN
  /\ journal \in Journal \cup {None}
  /\ files \in [Items -> Artifact \cup {None}]
  /\ runner \in Runner
  /\ flight \subseteq CallIds
  /\ starts \in 0 .. MaxStarts

\* The inductive invariant.
RunnerInv == StoreTypeOK /\ RunnerTypes /\ JournalSound /\ RunnerSound

(***************************************************************************)
(* The ledger under the runner.                                            *)
(***************************************************************************)

\* The runner and its executor touch the ledger by its transactions only.
LEMMA RunnerStoreStep == RunnerInv /\ [Next]_vars => [StoreNext]_storeVars
<1> SUFFICES ASSUME RunnerInv, [Next]_vars PROVE [StoreNext]_storeVars
  OBVIOUS
<1>1. TheRequest \in Requests /\ ThePayload \in Payloads
  BY RunnerAssumption DEF TheRequest, ThePayload
<1>2. ASSUME NEW t \in Tasks, ExecReserve(t) PROVE [StoreNext]_storeVars
  <2>1. runner.item \in Items
    BY <1>2 DEF ExecReserve, At, RunnerInv, RunnerSound
  <2>2. <<runner.item, t>> \in CallIds /\ CallIds = Slots
    BY <2>1, RunnerAssumption
  <2>3. \/ \E amount \in Estimates :
              ReserveCall(<<runner.item, t>>, TheRequest, <<runner.item, t>>, amount)
        \/ UNCHANGED storeVars
    BY <1>2 DEF ExecReserve
  <2> QED
    BY <1>1, <2>2, <2>3 DEF StoreNext
<1>3. ASSUME ExecHandOver PROVE [StoreNext]_storeVars
  <2>1. runner.call \in CallIds /\ MarkSent(runner.call)
    BY <1>3 DEF ExecHandOver, At, RunnerInv, RunnerSound
  <2> QED
    BY <2>1 DEF StoreNext
<1>4. ASSUME NEW c \in CallIds, ExecAnswer(c) \/ ExecTransportFails(c) PROVE [StoreNext]_storeVars
  <2>1. CASE ExecAnswer(c)
    <3>1. PICK usage \in Usages : CompleteCall(c, TheRequest, ThePayload, usage)
      BY <2>1 DEF ExecAnswer
    <3> QED
      BY <1>1, <3>1 DEF StoreNext
  <2>2. CASE ExecTransportFails(c)
    BY <2>2 DEF ExecTransportFails, StoreNext
  <2> QED
    BY <1>4, <2>1, <2>2
<1>5. ASSUME NEW c \in CallIds, AuditCall(c) \/ OperatorAuthorizes(c) PROVE [StoreNext]_storeVars
  BY <1>5 DEF AuditCall, OperatorAuthorizes, StoreNext
<1>6. CASE ExecFails \/ \E result \in Scored, drift \in BOOLEAN : ExecReturns(result, drift)
  BY <1>6 DEF ExecFails, ExecReturns
<1>7. CASE CreateJournal \/ Begin \/ NextItem \/ Finish \/ StopItem \/ Link \/ Pause \/ MarkBudget \/ AuditDone
  BY <1>7 DEF CreateJournal, Begin, NextItem, Finish, StopItem, Link, Pause, MarkBudget, AuditDone
<1>8. CASE Invocation
  BY <1>8 DEF Invocation, ResumeStopped, Run, Recover, ResumeRunning, ResumeInterrupted,
              ResumePaused, ResumeIdle, Resume
<1>9. CASE ExecInterrupted \/ Crash \/ UNCHANGED vars
  BY <1>9 DEF ExecInterrupted, Crash, vars
<1> QED
  BY <1>2, <1>3, <1>4, <1>5, <1>6, <1>7, <1>8, <1>9 DEF Next, Executor, Loop

(***************************************************************************)
(* The steps of the executor.                                              *)
(***************************************************************************)

\* While the disk stays as it is, the journal stays sound.
LEMMA DiskStays ==
  ASSUME RunnerInv, UNCHANGED diskVars
  PROVE  /\ JournalSound' /\ journal' = journal /\ files' = files
         /\ \A i \in Items : Status(i)' = Status(i)
         /\ Clean' = Clean /\ ScoresKept
BY DEF ScoresKept, RunnerInv, JournalSound, diskVars, Status, Clean, ItemsSound, ReasonAlone, FiledIn

\* The executor raises: the runner is about to stop the item in hand.
LEMMA StopWithSound ==
  ASSUME RunnerInv, At("exec"), UNCHANGED <<diskVars, starts>>,
         NEW reason \in {"billing_uncertain", "usage_missing", "budget", "internal_error"},
         StopWith(reason)
  PROVE  RunnerTypes' /\ JournalSound' /\ RunnerSound' /\ ScoresKept
<1> DEFINE update == [status |-> "stopped", reason |-> reason, artifact |-> None]
<1>1. update \in Item /\ update.status = "stopped" /\ ItemSound(update)
  BY TheReasons DEF Item, WorkStatus, ItemSound, Scored
<1>2. runner \in Runner /\ runner.item \in Items /\ Status(runner.item) = "running" /\ Clean
      /\ journal \in Journal
  BY DEF RunnerInv, RunnerTypes, RunnerSound, At
<1>3. runner' = [runner EXCEPT !.pc = "stop", !.call = None, !.update = update] /\ flight' = {}
  BY DEF StopWith
<1> HIDE DEF update
<1>4. runner' \in Runner /\ runner'.pc = "stop" /\ runner'.item = runner.item /\ runner'.update = update
  BY <1>1, <1>2, <1>3 DEF Runner
<1>5. RunnerTypes'
  BY <1>3, <1>4 DEF RunnerInv, RunnerTypes, diskVars
<1>6. RunnerSound'
  BY <1>1, <1>2, <1>4, DiskStays DEF RunnerSound
<1> QED
  BY <1>5, <1>6, DiskStays

\* The executor awaits or hands over its next call.
LEMMA ExecutorGoesOn ==
  ASSUME RunnerInv, runner.pc \in {"exec", "hand"}, UNCHANGED <<diskVars, starts>>,
         flight' \subseteq CallIds,
         \/ runner' = runner
         \/ \E c \in CallIds : runner' = [runner EXCEPT !.pc = "hand", !.call = c]
         \/ runner' = [runner EXCEPT !.pc = "exec", !.call = None]
  PROVE  RunnerTypes' /\ JournalSound' /\ RunnerSound' /\ ScoresKept
<1>1. runner \in Runner /\ runner.item \in Items /\ Status(runner.item) = "running" /\ Clean
      /\ journal \in Journal /\ (runner.pc = "hand" => runner.call \in CallIds)
  BY DEF RunnerInv, RunnerTypes, RunnerSound
<1>2. /\ runner' \in Runner /\ runner'.pc \in {"exec", "hand"} /\ runner'.item = runner.item
      /\ runner'.pc = "hand" => runner'.call \in CallIds
  <2>1. CASE runner' = runner
    BY <1>1, <2>1
  <2>2. ASSUME NEW c \in CallIds, runner' = [runner EXCEPT !.pc = "hand", !.call = c]
        PROVE  /\ runner' \in Runner /\ runner'.pc \in {"exec", "hand"} /\ runner'.item = runner.item
               /\ runner'.pc = "hand" => runner'.call \in CallIds
    BY <1>1, <2>2 DEF Runner
  <2>3. CASE runner' = [runner EXCEPT !.pc = "exec", !.call = None]
    BY <1>1, <2>3 DEF Runner
  <2> QED
    BY <2>1, <2>2, <2>3
<1>3. RunnerTypes'
  BY <1>2 DEF RunnerInv, RunnerTypes, diskVars
<1>4. RunnerSound'
  BY <1>1, <1>2, DiskStays DEF RunnerSound
<1> QED
  BY <1>3, <1>4, DiskStays

\* Every step of the executor that leaves the disk alone keeps the runner sound.
LEMMA ExecutorSound ==
  ASSUME RunnerInv,
         \/ \E t \in Tasks : ExecReserve(t)
         \/ ExecHandOver \/ ExecFails
         \/ \E c \in CallIds : ExecAnswer(c) \/ ExecTransportFails(c)
  PROVE  RunnerTypes' /\ JournalSound' /\ RunnerSound' /\ ScoresKept
<1>1. flight \subseteq CallIds
  BY DEF RunnerInv, RunnerTypes
<1>2. ASSUME NEW t \in Tasks, ExecReserve(t) PROVE RunnerTypes' /\ JournalSound' /\ RunnerSound' /\ ScoresKept
  <2> DEFINE c == <<runner.item, t>>
  <2>1. At("exec") /\ runner.item \in Items /\ UNCHANGED <<diskVars, starts>>
    BY <1>2 DEF ExecReserve, At, RunnerInv, RunnerSound
  <2>2. c \in CallIds
    BY <2>1, RunnerAssumption
  <2>3. \/ runner' = [runner EXCEPT !.pc = "hand", !.call = c] /\ UNCHANGED flight
        \/ StopWith("budget")
    BY <1>2 DEF ExecReserve
  <2> HIDE DEF c
  <2> QED
    BY <1>1, <2>1, <2>2, <2>3, StopWithSound, ExecutorGoesOn DEF At
<1>3. CASE ExecHandOver
  <2>1. /\ runner.pc = "hand" /\ runner.call \in CallIds
        /\ runner' = [runner EXCEPT !.pc = "exec", !.call = None]
        /\ flight' = flight \cup {runner.call} /\ UNCHANGED <<diskVars, starts>>
    BY <1>3 DEF ExecHandOver, At, RunnerInv, RunnerSound
  <2> QED
    BY <1>1, <2>1, ExecutorGoesOn
<1>4. CASE ExecFails
  BY <1>4, StopWithSound DEF ExecFails
<1>5. ASSUME NEW c \in CallIds, ExecAnswer(c) PROVE RunnerTypes' /\ JournalSound' /\ RunnerSound' /\ ScoresKept
  <2>1. /\ At("exec") /\ UNCHANGED <<diskVars, starts>>
        /\ \/ StopWith("budget") \/ StopWith("usage_missing")
           \/ flight' = flight \ {c} /\ UNCHANGED runner
    BY <1>5 DEF ExecAnswer
  <2> QED
    BY <1>1, <2>1, StopWithSound, ExecutorGoesOn DEF At
<1>6. ASSUME NEW c \in CallIds, ExecTransportFails(c) PROVE RunnerTypes' /\ JournalSound' /\ RunnerSound' /\ ScoresKept
  BY <1>6, StopWithSound DEF ExecTransportFails
<1> QED
  BY <1>2, <1>3, <1>4, <1>5, <1>6

(***************************************************************************)
(* The artifact of an item and the journal entry to come.                  *)
(***************************************************************************)

\* What the ledger says of an item is an accounting, and a diagnostic artifact
\* over it is an artifact.
LEMMA ArtifactTyped ==
  ASSUME NEW i, NEW result \in Scored, NEW diagnostic \in BOOLEAN
  PROVE  [result |-> result, diagnostic |-> diagnostic, accounting |-> Accounting(i)] \in Artifact
<1>1. \A states : RowsIn(i, states) \in SUBSET Tasks
  BY DEF RowsIn
<1>2. (RowsIn(i, Unknown) # {}) \in BOOLEAN
  OBVIOUS
<1>3. Accounting(i) \in [completed : SUBSET Tasks, unpriced : SUBSET Tasks,
                         open : SUBSET Tasks, uncertain : BOOLEAN]
  BY <1>1, <1>2, Zenon DEF Accounting
<1> QED
  BY <1>3, Zenon DEF Artifact

\* An artifact that is persisted belongs to the item in hand, which the journal
\* does not vouch for yet.
LEMMA PersistSound ==
  ASSUME RunnerInv, runner.pc \in {"exec", "stop", "audit"},
         NEW artifact \in Artifact, NEW status \in WorkStatus,
         NEW reason \in StopReason \cup {"none"},
         status \in Scored \cup {"stopped"},
         ItemSound([status |-> status, reason |-> reason, artifact |-> artifact]),
         Persist(runner.item, artifact, status, reason),
         UNCHANGED <<plan, journal, starts>>, flight' \subseteq CallIds
  PROVE  RunnerTypes' /\ JournalSound' /\ RunnerSound' /\ ScoresKept
<1> DEFINE i == runner.item
           update == [status |-> status, reason |-> reason, artifact |-> artifact]
<1>1. /\ runner \in Runner /\ i \in Items /\ Status(i) \in {"running", "interrupted"}
      /\ journal \in Journal /\ OthersClean(i)
  BY DEF RunnerInv, RunnerTypes, RunnerSound, Clean, OthersClean
<1>2. /\ update \in Item /\ ItemSound(update)
      /\ update.status = status /\ update.artifact = artifact
  BY DEF Item
<1>3. /\ files' = [files EXCEPT ![i] = artifact]
      /\ runner' = [runner EXCEPT !.pc = "link", !.item = i, !.update = update]
  BY DEF Persist
<1>4. files \in [Items -> Artifact \cup {None}]
  BY DEF RunnerInv, RunnerTypes
<1> HIDE DEF i, update
<1>5. /\ files' \in [Items -> Artifact \cup {None}]
      /\ files'[i] = artifact /\ \A k \in Items : k # i => files'[k] = files[k]
  BY <1>1, <1>3, <1>4
<1>6. /\ runner' \in Runner /\ runner'.pc = "link"
      /\ runner'.item = i /\ runner'.update = update
  BY <1>1, <1>2, <1>3 DEF Runner
<1>7. RunnerTypes'
  BY <1>5, <1>6 DEF RunnerInv, RunnerTypes
<1>8. JournalSound'
  <2>1. ItemsSound(journal.items) /\ FiledIn(journal.items, files)
        /\ ReasonAlone(journal.items, journal.reason)
    BY <1>1 DEF RunnerInv, JournalSound
  <2>2. journal.items[i].artifact = None
    BY <1>1, <2>1 DEF ItemsSound, ItemSound, Status
  <2>3. FiledIn(journal.items, files')
    BY <1>5, <2>1, <2>2 DEF FiledIn
  <2> QED
    BY <2>1, <2>3 DEF JournalSound
<1>9. RunnerSound'
  <2>1. /\ runner'.item \in Items /\ journal' \in Journal
        /\ Status(runner.item)' \in {"running", "interrupted"} /\ OthersClean(runner.item)'
    BY <1>1, <1>6 DEF OthersClean, Status
  <2> QED
    BY <1>2, <1>5, <1>6, <2>1 DEF RunnerSound
<1>10. ScoresKept
  BY <1>1, <1>5 DEF ScoresKept, Status, Scored
<1> QED
  BY <1>7, <1>8, <1>9, <1>10

\* The executor returns: the result, or a diagnostic artifact, is persisted.
LEMMA ExecReturnsSound ==
  ASSUME RunnerInv, NEW result \in Scored, NEW drift \in BOOLEAN, ExecReturns(result, drift)
  PROVE  RunnerTypes' /\ JournalSound' /\ RunnerSound' /\ ScoresKept
<1> DEFINE i == runner.item
           reason == Classify(Accounting(i), drift)
           artifact == [result |-> result, diagnostic |-> reason # "none",
                        accounting |-> Accounting(i)]
           status == IF reason = "none" THEN result ELSE "stopped"
<1>1. reason \in {"none", "billing_uncertain", "usage_missing", "model_drift"}
  BY DEF Classify
<1>2. artifact \in Artifact
  <2>1. (reason # "none") \in BOOLEAN
    OBVIOUS
  <2> QED
    BY <2>1, ArtifactTyped, Zenon
<1>3. Persist(i, artifact, status, reason) /\ UNCHANGED <<plan, journal, starts, flight>> /\ At("exec")
  BY DEF ExecReturns
<1>4. flight' \subseteq CallIds
  BY <1>3 DEF RunnerInv, RunnerTypes
<1> HIDE DEF i, reason, artifact
<1>5. status \in WorkStatus /\ status \in Scored \cup {"stopped"} /\ reason \in StopReason \cup {"none"}
  BY <1>1, TheReasons DEF WorkStatus, Scored
<1>6. ItemSound([status |-> status, reason |-> reason, artifact |-> artifact])
  BY <1>1, <1>5 DEF ItemSound, Scored
<1> QED
  BY <1>2, <1>3, <1>4, <1>5, <1>6, PersistSound DEF i, At

\* A stop is recorded by a diagnostic artifact.
LEMMA DiagnosticSound ==
  ASSUME RunnerInv, runner.pc \in {"stop", "audit"},
         NEW reason \in {"billing_uncertain", "usage_missing", "model_drift", "budget", "internal_error"},
         Persist(runner.item, Diagnostic(runner.item), "stopped", reason),
         UNCHANGED <<plan, journal, starts, flight>>
  PROVE  RunnerTypes' /\ JournalSound' /\ RunnerSound' /\ ScoresKept
<1>1. Diagnostic(runner.item) \in Artifact
  <2>1. "failed" \in Scored /\ TRUE \in BOOLEAN
    BY DEF Scored
  <2> QED
    BY <2>1, ArtifactTyped, Zenon DEF Diagnostic
<1>2. "stopped" \in WorkStatus /\ reason \in StopReason
  BY TheReasons DEF WorkStatus
<1>3. ItemSound([status |-> "stopped", reason |-> reason, artifact |-> Diagnostic(runner.item)])
  BY DEF ItemSound, Scored
<1>4. flight' \subseteq CallIds
  BY DEF RunnerInv, RunnerTypes
<1> QED
  BY <1>1, <1>2, <1>3, <1>4, PersistSound

\* The except clauses of _execute keep the runner sound.
LEMMA StopItemSound ==
  ASSUME RunnerInv, StopItem
  PROVE  RunnerTypes' /\ JournalSound' /\ RunnerSound' /\ ScoresKept
<1>1. /\ runner \in Runner /\ runner.pc = "stop" /\ journal \in Journal
      /\ runner.item \in Items /\ Status(runner.item) = "running" /\ Clean
  BY DEF StopItem, At, RunnerInv, RunnerTypes, RunnerSound
<1>2. runner.update.reason \in
        {"billing_uncertain", "usage_missing", "model_drift", "budget", "internal_error"}
  BY <1>1 DEF RunnerInv, RunnerSound, ItemSound
<1>3. CASE runner.update.reason = "budget" /\ RowsIn(runner.item, CallState) = {}
  <2>1. runner' = [runner EXCEPT !.pc = "budget"] /\ UNCHANGED <<diskVars, flight, starts>>
    BY <1>3 DEF StopItem, Goto, diskVars
  <2>2. runner' \in Runner /\ runner'.pc = "budget" /\ runner'.item = runner.item
    BY <1>1, <2>1 DEF Runner
  <2>3. RunnerTypes'
    BY <2>1, <2>2 DEF RunnerInv, RunnerTypes, diskVars
  <2>4. RunnerSound'
    BY <1>1, <2>1, <2>2, DiskStays DEF RunnerSound, Clean, OthersClean, diskVars
  <2> QED
    BY <2>1, <2>3, <2>4, DiskStays
<1>4. CASE ~(runner.update.reason = "budget" /\ RowsIn(runner.item, CallState) = {})
  <2>1. Persist(runner.item, Diagnostic(runner.item), "stopped", runner.update.reason)
        /\ UNCHANGED <<plan, journal, starts, flight>>
    BY <1>4 DEF StopItem
  <2> QED
    BY <1>1, <1>2, <2>1, DiagnosticSound
<1> QED
  BY <1>3, <1>4

(***************************************************************************)
(* Writing the journal.                                                    *)
(***************************************************************************)

\* Items are numbered.
LEMMA ItemsAreNumbers == Items \subseteq Nat
BY RunnerAssumption DEF Items

\* A journal of sound items keeps the invariant of the journal.
LEMMA WriteSound ==
  ASSUME UNCHANGED files, ItemsSound(journal'.items),
         ReasonAlone(journal'.items, journal'.reason), FiledIn(journal'.items, files)
  PROVE  JournalSound'
BY DEF JournalSound, ItemsSound, ReasonAlone, FiledIn, InOrder

\* While no process runs the runner has nothing to be wrong about.
LEMMA DownSound ==
  ASSUME runner' = Down
  PROVE  runner' \in Runner /\ RunnerSound'
<1>1. Down \in Runner /\ Down.pc = "down"
  BY DEF Down, Runner
<1> QED
  BY <1>1 DEF RunnerSound

\* A process that is about to begin knows a journal without stops.
LEMMA ContinueSound ==
  ASSUME NEW items, NEW batch \in Nat, Continue(items, batch), journal' \in Journal, Clean'
  PROVE  runner' \in Runner /\ RunnerSound'
<1>1. CASE runner' = Down
  BY <1>1, DownSound
<1>2. CASE runner' = [Down EXCEPT !.pc = "begin", !.left = batch]
  <2>1. runner' \in Runner /\ runner'.pc = "begin"
    BY <1>2 DEF Down, Runner
  <2> QED
    BY <2>1 DEF RunnerSound
<1> QED
  BY <1>1, <1>2 DEF Continue

\* What the invariant says of a journal that exists.
LEMMA OnRecord ==
  ASSUME RunnerInv, journal \in Journal
  PROVE  /\ journal.items \in [Items -> Item]
         /\ journal.reason \in StopReason \cup {"none"} /\ journal.status \in CampaignStatus
         /\ ItemsSound(journal.items) /\ FiledIn(journal.items, files)
         /\ ReasonAlone(journal.items, journal.reason)
         /\ \A i \in Items : journal.items[i] \in Item /\ ItemSound(journal.items[i])
<1>1. journal \in Journal
  BY DEF RunnerInv, RunnerTypes
<1>2. ItemsSound(journal.items) /\ FiledIn(journal.items, files)
      /\ ReasonAlone(journal.items, journal.reason)
  BY DEF RunnerInv, JournalSound
<1>3. journal.reason \in StopReason \cup {"none"} /\ journal.status \in CampaignStatus
  BY <1>1 DEF Journal
<1> QED
  BY <1>1, <1>2, <1>3 DEF ItemsSound

(***************************************************************************)
(* The steps of the loop.                                                  *)
(***************************************************************************)

\* A new campaign has nothing but pending items.
LEMMA CreateJournalSound ==
  ASSUME RunnerInv, CreateJournal
  PROVE  RunnerTypes' /\ JournalSound' /\ RunnerSound' /\ ScoresKept
<1> DEFINE item == [status |-> "pending", reason |-> "none", artifact |-> None]
           items == [i \in Items |-> item]
<1>1. item \in Item /\ ItemSound(item)
  BY DEF Item, WorkStatus, ItemSound, Scored
<1>2. NewJournal.items = items /\ NewJournal.reason = "none"
  BY DEF NewJournal
<1>3. NewJournal \in Journal
  <2>1. items \in [Items -> Item] /\ [i \in Linked |-> None] \in [Linked -> Artifact \cup {None}]
        /\ "planned" \in CampaignStatus /\ FALSE \in BOOLEAN
    BY <1>1 DEF CampaignStatus
  <2> QED
    BY <2>1, Zenon DEF NewJournal, Journal
<1>4. journal' = NewJournal /\ runner' = [runner EXCEPT !.pc = "begin"]
      /\ UNCHANGED <<plan, files, flight, starts>>
  BY DEF CreateJournal, Write, Goto
<1>5. \A i \in Items : items[i] = item
  OBVIOUS
<1>6. items \in [Items -> Item]
  BY <1>1
<1>7. item.status = "pending" /\ item.reason = "none" /\ item.artifact = None
  OBVIOUS
<1> HIDE DEF items, item
<1>8. ItemsSound(journal'.items) /\ ReasonAlone(journal'.items, journal'.reason)
      /\ FiledIn(journal'.items, files)
  BY <1>1, <1>2, <1>4, <1>5, <1>6, <1>7 DEF ItemsSound, InOrder, ReasonAlone, FiledIn
<1>9. runner' \in Runner /\ runner'.pc = "begin"
  BY <1>4 DEF RunnerInv, RunnerTypes, Runner
<1>10. RunnerTypes'
  BY <1>3, <1>4, <1>9 DEF RunnerInv, RunnerTypes
<1>11. journal' \in Journal /\ Clean'
  BY <1>2, <1>3, <1>4, <1>5, <1>7 DEF Clean
<1>12. ScoresKept
  BY <1>2, <1>4, <1>5, <1>7, NoneAssumption DEF CreateJournal, At, RunnerInv, RunnerSound, ScoresKept, Scored
<1> QED
  BY <1>4, <1>8, <1>9, <1>10, <1>11, <1>12, WriteSound DEF RunnerSound

\* Beginning and finishing write a status only.
LEMMA BeginFinishSound ==
  ASSUME RunnerInv, Begin \/ Finish
  PROVE  RunnerTypes' /\ JournalSound' /\ RunnerSound' /\ ScoresKept
<1>1. journal \in Journal /\ runner \in Runner /\ Clean
  BY DEF Begin, Finish, At, RunnerInv, RunnerTypes, RunnerSound
<1>2. PICK status \in CampaignStatus : journal' = [journal EXCEPT !.status = status]
  BY StatusIsAStatus DEF Begin, Finish, Write, CampaignStatus
<1>3. /\ journal' \in Journal /\ journal'.items = journal.items
      /\ journal'.reason = journal.reason
  BY <1>1, <1>2 DEF Journal
<1>4. JournalSound'
  BY <1>1, <1>3, OnRecord, WriteSound DEF Begin, Finish
<1>5. Clean'
  BY <1>1, <1>3 DEF Clean
<1>6. ScoresKept
  BY <1>1, <1>3 DEF Begin, Finish, ScoresKept
<1>7. CASE Begin
  <2>1. runner' = [runner EXCEPT !.pc = "loop"]
    BY <1>7 DEF Begin, Goto
  <2>2. runner' \in Runner /\ runner'.pc = "loop"
    BY <1>1, <2>1 DEF Runner
  <2> QED
    BY <1>3, <1>4, <1>5, <1>6, <1>7, <2>2 DEF Begin, RunnerInv, RunnerTypes, RunnerSound
<1>8. CASE Finish
  <2>1. runner' \in Runner /\ RunnerSound'
    BY <1>8, DownSound DEF Finish
  <2> QED
    BY <1>3, <1>4, <1>6, <1>8, <2>1 DEF Finish, RunnerInv, RunnerTypes
<1> QED
  BY <1>7, <1>8

\* Work starts on the first item that is not settled: those before it are scored.
LEMMA NextItemSound ==
  ASSUME RunnerInv, NextItem
  PROVE  RunnerTypes' /\ JournalSound' /\ RunnerSound' /\ ScoresKept
<1> DEFINE i == Min(Remaining)
           entry == [journal.items[i] EXCEPT !.status = "running", !.reason = "none"]
           items == [journal.items EXCEPT ![i] = entry]
<1>1. journal \in Journal /\ runner \in Runner /\ Clean /\ Remaining # {}
  BY DEF NextItem, At, RunnerInv, RunnerTypes, RunnerSound
<1>2. /\ i \in Items /\ Status(i) \notin Terminal
      /\ \A k \in Items : k < i => Status(k) \in Terminal
  <2>1. Remaining \subseteq Nat
    BY RunnerAssumption DEF Remaining, Items
  <2>2. i \in Remaining /\ \A k \in Remaining : i <= k
    BY <1>1, <2>1, MinIsLeast
  <2>3. i \in Nat /\ Items \subseteq Nat
    BY <2>1, <2>2, ItemsAreNumbers
  <2> HIDE DEF i
  <2>4. \A k \in Items : k < i => k \notin Remaining
    BY <2>2, <2>3
  <2> QED
    BY <2>2, <2>4 DEF Remaining
<1>3. /\ journal' = [journal EXCEPT !.items[i].status = "running", !.items[i].reason = "none"]
      /\ runner' = [runner EXCEPT !.pc = "exec", !.item = i]
      /\ UNCHANGED <<plan, files, flight, starts>>
  BY DEF NextItem, Write
<1> HIDE DEF i
<1>4. /\ entry \in Item /\ entry.status = "running" /\ entry.reason = "none"
      /\ entry.artifact = journal.items[i].artifact
  <2>1. journal.items[i] \in Item
    BY <1>1, <1>2, OnRecord
  <2> QED
    BY <2>1 DEF Item, WorkStatus
<1>5. journal' = [journal EXCEPT !.items = items]
  BY <1>1, <1>2, <1>3, Zenon DEF Journal, Item
<1> HIDE DEF entry
<1>6. journal' \in Journal /\ journal'.items = items /\ journal'.reason = journal.reason
  <2>1. items \in [Items -> Item]
    BY <1>1, <1>4, OnRecord
  <2> HIDE DEF items
  <2> QED
    BY <1>1, <1>5, <2>1 DEF Journal
<1>7. \A k \in Items : ItemSound(journal.items[k]) /\ journal.items[k] \in Item
                       /\ journal.items[k].reason = "none"
  BY <1>1, OnRecord DEF Clean
<1>8. Status(i) \in {"pending", "running"}
  BY <1>2, <1>7 DEF Item, WorkStatus, Terminal, Scored, ItemSound, Status
<1>9. \A k \in Items : k < i => journal.items[k].status \in Scored
  BY <1>2, <1>7 DEF Terminal, ItemSound, Status
<1>10. ItemSound(entry) /\ entry.artifact = None
  BY <1>2, <1>4, <1>7, <1>8 DEF ItemSound, Scored, Status
<1>11. ItemsSound(items)
  BY <1>1, <1>2, <1>4, <1>8, <1>9, <1>10, OnRecord, UpdateSound DEF Scored, Status
<1>12. items[i] = entry /\ \A k \in Items : k # i => items[k] = journal.items[k]
  BY <1>1, <1>2, OnRecord
<1> HIDE DEF items
<1>13. /\ FiledIn(items, files) /\ ReasonAlone(items, journal.reason)
       /\ \A k \in Items : items[k].reason = "none"
  BY <1>1, <1>4, <1>7, <1>10, <1>12, OnRecord DEF FiledIn, ReasonAlone
<1>14. JournalSound'
  BY <1>3, <1>6, <1>11, <1>13, WriteSound
<1>15. /\ runner' \in Runner /\ runner'.pc = "exec" /\ runner'.item = i
  BY <1>1, <1>2, <1>3 DEF Runner
<1>16. RunnerTypes'
  BY <1>3, <1>6, <1>15 DEF RunnerInv, RunnerTypes
<1>17. RunnerSound'
  BY <1>2, <1>4, <1>6, <1>12, <1>13, <1>15 DEF RunnerSound, Clean, Status
<1>18. ScoresKept
  BY <1>1, <1>3, <1>4, <1>6, <1>8, <1>12 DEF ScoresKept, Status, Scored
<1> QED
  BY <1>14, <1>16, <1>17, <1>18

\* Pausing writes reason and status only.
LEMMA PauseSound ==
  ASSUME RunnerInv, Pause
  PROVE  RunnerTypes' /\ JournalSound' /\ RunnerSound' /\ ScoresKept
<1>1. journal \in Journal /\ Clean
  BY DEF Pause, At, RunnerInv, RunnerTypes, RunnerSound
<1>2. journal' = [journal EXCEPT !.reason = "user_paused", !.status = "paused"]
      /\ runner' = Down /\ UNCHANGED <<plan, files, flight, starts>>
  BY DEF Pause, Write
<1>3. journal' \in Journal /\ journal'.items = journal.items
  BY <1>1, <1>2, TheReasons DEF Journal, CampaignStatus
<1>4. ReasonAlone(journal'.items, journal'.reason)
  BY <1>1, <1>3 DEF ReasonAlone, Clean
<1>5. JournalSound'
  BY <1>1, <1>2, <1>3, <1>4, OnRecord, WriteSound
<1>6. RunnerTypes'
  BY <1>2, <1>3, DownSound DEF RunnerInv, RunnerTypes
<1>7. ScoresKept
  BY <1>1, <1>2, <1>3 DEF ScoresKept
<1> QED
  BY <1>2, <1>5, <1>6, <1>7, DownSound

\* An item in hand that is interrupted is the only item with a reason.
LEMMA InterruptSound ==
  ASSUME RunnerInv, journal \in Journal, NEW i \in Items, Status(i) = "running", OthersClean(i),
         journal' = [journal EXCEPT !.items[i].status = "interrupted",
                                    !.items[i].reason = "process_interruption",
                                    !.reason = "process_interruption", !.status = "interrupted"],
         UNCHANGED files
  PROVE  /\ journal' \in Journal /\ JournalSound' /\ ScoresKept
         /\ journal'.items[i].status = "interrupted"
         /\ \A k \in Items : k # i => journal'.items[k].reason = "none"
<1> DEFINE entry == [journal.items[i] EXCEPT !.status = "interrupted",
                                             !.reason = "process_interruption"]
           items == [journal.items EXCEPT ![i] = entry]
<1>1. /\ journal.items[i] \in Item /\ ItemSound(journal.items[i])
      /\ journal.items[i].status = "running"
  BY OnRecord DEF Status
<1>2. /\ entry \in Item /\ entry.status = "interrupted"
      /\ entry.reason = "process_interruption" /\ entry.artifact = None /\ ItemSound(entry)
  BY <1>1, TheReasons DEF Item, WorkStatus, ItemSound, Scored
<1>3. journal' = [journal EXCEPT !.items = items, !.reason = "process_interruption",
                                 !.status = "interrupted"]
  BY Zenon DEF Journal, Item
<1> HIDE DEF entry
<1>4. /\ items \in [Items -> Item] /\ items[i] = entry
      /\ \A k \in Items : k # i => items[k] = journal.items[k]
  BY <1>2, OnRecord
<1>5. ItemsSound(items)
  BY <1>1, <1>2, OnRecord, InHandAlone, UpdateSound
<1> HIDE DEF items
<1>6. /\ journal' \in Journal /\ journal'.items = items
      /\ journal'.reason = "process_interruption"
  BY <1>3, <1>4, TheReasons DEF Journal, CampaignStatus
<1>7. FiledIn(items, files) /\ ReasonAlone(items, "process_interruption")
  BY <1>2, <1>4, OnRecord DEF FiledIn, ReasonAlone, OthersClean
<1>8. ScoresKept
  BY <1>1, <1>2, <1>4, <1>6 DEF ScoresKept, Scored
<1> QED
  BY <1>2, <1>4, <1>5, <1>6, <1>7, <1>8, WriteSound DEF OthersClean

\* The executor reports the interruption of the item in hand.
LEMMA ExecInterruptedSound ==
  ASSUME RunnerInv, ExecInterrupted
  PROVE  RunnerTypes' /\ JournalSound' /\ RunnerSound' /\ ScoresKept
<1>1. /\ journal \in Journal /\ runner.item \in Items /\ Status(runner.item) = "running"
      /\ OthersClean(runner.item)
  BY DEF ExecInterrupted, At, RunnerInv, RunnerTypes, RunnerSound, Clean, OthersClean
<1>2. runner' = Down /\ flight' = {} /\ UNCHANGED <<plan, files, starts>>
  BY DEF ExecInterrupted
<1>3. journal' \in Journal /\ JournalSound' /\ ScoresKept
  BY <1>1, <1>2, InterruptSound DEF ExecInterrupted, Write
<1>4. RunnerTypes'
  BY <1>2, <1>3, DownSound DEF RunnerInv, RunnerTypes
<1> QED
  BY <1>2, <1>3, <1>4, DownSound

\* The result of the item in hand enters the journal.
LEMMA LinkSound ==
  ASSUME RunnerInv, Link
  PROVE  RunnerTypes' /\ JournalSound' /\ RunnerSound' /\ ScoresKept
<1> DEFINE i == runner.item
           update == runner.update
           items == [journal.items EXCEPT ![i] = update]
           linked == [journal EXCEPT !.items = items]
<1>1. /\ journal \in Journal /\ runner \in Runner /\ i \in Items
      /\ Status(i) \in {"running", "interrupted"} /\ OthersClean(i)
      /\ update \in Item /\ ItemSound(update) /\ update.status \in Scored \cup {"stopped"}
      /\ files[i] = update.artifact
  BY DEF Link, At, RunnerInv, RunnerTypes, RunnerSound
<1>2. UNCHANGED <<plan, files, flight, starts>>
  BY DEF Link
<1>3. /\ update.reason # "none" =>
           /\ journal' = Stopped(linked, update.reason)
           /\ runner' = IF update.reason = "budget"
                          THEN [runner EXCEPT !.pc = "budget", !.update = None] ELSE Down
      /\ update.reason = "none" =>
           /\ journal' = [linked EXCEPT
                !.baselines = BaselinesWith(i, update.artifact),
                !.status = DeriveCampaignStatus(Statuses(items), Reasons(items))]
           /\ \E pc \in {"pause", "loop"} :
                runner' = [runner EXCEPT !.pc = pc, !.left = IF @ > 0 THEN @ - 1 ELSE 0,
                                         !.item = 0, !.update = None]
  BY DEF Link, Write
<1> HIDE DEF i, update
<1>4. /\ items \in [Items -> Item] /\ items[i] = update
      /\ \A k \in Items : k # i => items[k] = journal.items[k]
  BY <1>1, OnRecord
<1>5. ItemsSound(items)
  BY <1>1, OnRecord, InHandAlone, UpdateSound DEF Status
<1> HIDE DEF items
<1>6. FiledIn(items, files)
  BY <1>1, <1>4, OnRecord DEF FiledIn
<1>7. \A reason : ReasonAlone(items, reason)
  BY <1>1, <1>4 DEF ReasonAlone, OthersClean, ItemSound, Scored
<1>8. linked \in Journal /\ linked.items = items
  BY <1>1, <1>4 DEF Journal
<1> HIDE DEF linked
<1>9. journal' \in Journal /\ journal'.items = items
  <2>1. CASE update.reason # "none"
    <3>1. DeriveCampaignStatus(Statuses(items), {update.reason} \cup Reasons(items)) \in CampaignStatus
      BY StatusIsAStatus
    <3>2. (update.reason = "billing_uncertain") \in BOOLEAN
      OBVIOUS
    <3>3. update.reason \in StopReason
      BY <1>1, <2>1 DEF Item
    <3>4. journal' = [linked EXCEPT !.reason = update.reason,
             !.billing = (update.reason = "billing_uncertain"),
             !.status = DeriveCampaignStatus(Statuses(items), {update.reason} \cup Reasons(items))]
      BY <1>3, <1>8, <2>1 DEF Stopped
    <3>5. journal' \in Journal
      BY <1>8, <3>1, <3>2, <3>3, <3>4, Zenon DEF Journal
    <3>6. journal'.items = linked.items
      BY <1>8, <3>4, Zenon DEF Journal
    <3> QED
      BY <1>8, <3>5, <3>6
  <2>2. CASE update.reason = "none"
    <3>1. DeriveCampaignStatus(Statuses(items), Reasons(items)) \in CampaignStatus
      BY StatusIsAStatus
    <3>2. BaselinesWith(i, update.artifact) \in [Linked -> Artifact \cup {None}]
      BY <1>1 DEF BaselinesWith, Journal, Item
    <3> QED
      BY <1>3, <1>8, <2>2, <3>1, <3>2 DEF Journal
  <2> QED
    BY <2>1, <2>2
<1>10. JournalSound'
  BY <1>2, <1>5, <1>6, <1>7, <1>9, WriteSound
<1>11. runner' \in Runner /\ RunnerSound'
  <2>1. CASE update.reason = "none"
    <3>1. PICK pc \in {"pause", "loop"} :
            runner' = [runner EXCEPT !.pc = pc, !.left = IF @ > 0 THEN @ - 1 ELSE 0,
                                     !.item = 0, !.update = None]
      BY <1>3, <2>1
    <3>2. runner.left \in Nat
      BY <1>1 DEF Runner
    <3>3. (IF runner.left > 0 THEN runner.left - 1 ELSE 0) \in Nat
      BY <3>2
    <3>4. runner' \in Runner /\ runner'.pc = pc
      BY <1>1, <3>1, <3>3 DEF Runner
    <3>5. Clean'
      BY <1>1, <1>4, <1>9, <2>1 DEF Clean, OthersClean
    <3> QED
      BY <1>9, <3>4, <3>5 DEF RunnerSound
  <2>2. CASE update.reason = "budget"
    <3>1. runner' = [runner EXCEPT !.pc = "budget", !.update = None]
      BY <1>3, <2>2
    <3>2. runner' \in Runner /\ runner'.pc = "budget" /\ runner'.item = i
      BY <1>1, <3>1 DEF Runner, i
    <3>3. update.status = "stopped"
      BY <1>1, <2>2 DEF ItemSound
    <3>4. /\ journal'.items[i].status = "stopped" /\ journal'.items[i].reason = "budget"
          /\ \A k \in Items : k # i => journal'.items[k].reason = "none"
      BY <1>1, <1>4, <1>9, <2>2, <3>3 DEF OthersClean
    <3> QED
      BY <1>1, <1>9, <3>2, <3>4 DEF RunnerSound, Status, OthersClean
  <2>3. CASE update.reason \notin {"none", "budget"}
    BY <1>3, <2>3, DownSound
  <2> QED
    BY <2>1, <2>2, <2>3
<1>12. RunnerTypes'
  BY <1>2, <1>9, <1>11 DEF RunnerInv, RunnerTypes
<1>13. ScoresKept
  BY <1>1, <1>2, <1>4, <1>9 DEF ScoresKept, Link, At, Status, Scored, i, update
<1> QED
  BY <1>10, <1>11, <1>12, <1>13

\* The rest of the schedule is given up.
LEMMA MarkBudgetSound ==
  ASSUME RunnerInv, MarkBudget
  PROVE  RunnerTypes' /\ JournalSound' /\ RunnerSound' /\ ScoresKept
<1> DEFINE i == runner.item
           items == [k \in Items |->
                       IF k >= i /\ journal.items[k].status \in {"pending", "running", "interrupted"}
                         THEN [journal.items[k] EXCEPT !.status = "not_run_budget", !.reason = "budget"]
                         ELSE journal.items[k]]
<1>1. /\ journal \in Journal /\ i \in Items /\ OthersClean(i)
      /\ Status(i) \in {"running", "stopped"} /\ journal.items[i].reason \in {"none", "budget"}
  BY DEF MarkBudget, At, RunnerInv, RunnerTypes, RunnerSound
<1>2. runner' = Down /\ UNCHANGED <<plan, files, flight, starts>>
  BY DEF MarkBudget
<1>3. journal' = [journal EXCEPT !.items = items, !.reason = "budget", !.status = "incomplete_budget"]
  <2>1. journal.items \in [Items -> Item]
    BY <1>1, OnRecord
  <2> QED
    BY <1>1, <2>1, Zenon DEF MarkBudget, Write, Journal
<1> HIDE DEF i
<1>4. ItemsSound(items)
  BY <1>1, OnRecord, SkipSound
<1>5. \A k \in Items :
        /\ items[k].artifact = journal.items[k].artifact
        /\ items[k].reason \in {"none", "budget"}
        /\ journal.items[k].status \in Scored => items[k] = journal.items[k]
        /\ items[k].status \in Scored => journal.items[k].status \in Scored
  <2>1. TAKE k \in Items
  <2>2. journal.items[k] \in Item /\ ItemSound(journal.items[k])
    BY <1>1, OnRecord
  <2>3. journal.items[k].reason \in {"none", "budget"}
    BY <1>1 DEF OthersClean
  <2> QED
    BY <2>2, <2>3 DEF Item, Scored
<1> HIDE DEF items
<1>6. journal' \in Journal /\ journal'.items = items
  BY <1>1, <1>3, <1>4, TheReasons DEF Journal, CampaignStatus, ItemsSound
<1>7. FiledIn(items, files) /\ \A reason : ReasonAlone(items, reason)
  BY <1>1, <1>5, OnRecord DEF FiledIn, ReasonAlone
<1>8. JournalSound'
  BY <1>2, <1>4, <1>6, <1>7, WriteSound
<1>9. RunnerTypes'
  BY <1>2, <1>6, DownSound DEF RunnerInv, RunnerTypes
<1>10. ScoresKept
  BY <1>1, <1>2, <1>5, <1>6 DEF ScoresKept
<1> QED
  BY <1>2, <1>8, <1>9, <1>10, DownSound

\* The audit flags a call, stops the item, or gives it back.
LEMMA AuditDoneSound ==
  ASSUME RunnerInv, AuditDone
  PROVE  RunnerTypes' /\ JournalSound' /\ RunnerSound' /\ ScoresKept
<1> DEFINE i == runner.item
           requeued == [journal EXCEPT !.items[i].status = "pending", !.items[i].reason = "none",
                                       !.reason = "none", !.status = "running"]
<1>1. /\ runner.pc = "audit" /\ runner \in Runner /\ journal \in Journal /\ i \in Items
      /\ Status(i) = "interrupted" /\ OthersClean(i)
  BY DEF AuditDone, At, RunnerInv, RunnerTypes, RunnerSound
<1>2. UNCHANGED <<plan, flight, starts>>
  BY DEF AuditDone
<1>3. \/ \E reason \in {"billing_uncertain", "usage_missing"} :
           Persist(i, Diagnostic(i), "stopped", reason) /\ UNCHANGED journal
      \/ journal' = requeued /\ Continue(requeued.items, runner.left) /\ UNCHANGED files
  BY DEF AuditDone, Write
<1>4. ASSUME NEW reason \in {"billing_uncertain", "usage_missing"},
             Persist(i, Diagnostic(i), "stopped", reason) /\ UNCHANGED journal
      PROVE  RunnerTypes' /\ JournalSound' /\ RunnerSound' /\ ScoresKept
  BY <1>1, <1>2, <1>4, DiagnosticSound
<1>5. CASE journal' = requeued /\ Continue(requeued.items, runner.left) /\ UNCHANGED files
  <2> DEFINE entry == [journal.items[i] EXCEPT !.status = "pending", !.reason = "none"]
             items == [journal.items EXCEPT ![i] = entry]
  <2>1. /\ journal.items[i] \in Item /\ ItemSound(journal.items[i])
        /\ journal.items[i].status = "interrupted"
    BY <1>1, OnRecord DEF Status
  <2>2. /\ entry \in Item /\ entry.status = "pending" /\ entry.reason = "none"
        /\ entry.artifact = None /\ ItemSound(entry)
    BY <2>1 DEF Item, WorkStatus, ItemSound, Scored
  <2>3. journal' = [journal EXCEPT !.items = items, !.reason = "none", !.status = "running"]
    BY <1>1, <1>5, Zenon DEF Journal, Item
  <2> HIDE DEF entry, i, requeued
  <2>4. /\ items \in [Items -> Item] /\ items[i] = entry
        /\ \A k \in Items : k # i => items[k] = journal.items[k]
    BY <1>1, <2>2, OnRecord
  <2>5. ItemsSound(items)
    BY <1>1, <2>1, <2>2, OnRecord, InHandAlone, UpdateSound
  <2> HIDE DEF items
  <2>6. journal' \in Journal /\ journal'.items = items /\ journal'.reason = "none"
    BY <1>1, <2>3, <2>4 DEF Journal, CampaignStatus
  <2>7. \A k \in Items : items[k].reason = "none"
    BY <1>1, <2>2, <2>4 DEF OthersClean
  <2>8. FiledIn(items, files) /\ ReasonAlone(items, "none")
    BY <1>1, <2>2, <2>4, <2>7, OnRecord DEF FiledIn, ReasonAlone
  <2>9. JournalSound'
    BY <1>5, <2>5, <2>6, <2>8, WriteSound
  <2>10. runner.left \in Nat /\ Clean'
    BY <1>1, <2>6, <2>7 DEF Runner, Clean
  <2>11. runner' \in Runner /\ RunnerSound'
    BY <1>5, <2>6, <2>10, ContinueSound
  <2>12. RunnerTypes'
    BY <1>2, <1>5, <2>6, <2>11 DEF RunnerInv, RunnerTypes
  <2>13. ScoresKept
    BY <1>1, <1>5, <2>1, <2>2, <2>4, <2>6 DEF ScoresKept, Scored
  <2> QED
    BY <2>9, <2>11, <2>12, <2>13
<1> QED
  BY <1>3, <1>4, <1>5

(***************************************************************************)
(* Invocations.                                                            *)
(***************************************************************************)

\* A first run writes the plan.
LEMMA RunSound ==
  ASSUME RunnerInv, NEW batch \in Batches, Run(batch)
  PROVE  RunnerTypes' /\ JournalSound' /\ RunnerSound' /\ ScoresKept
<1>1. runner' = [Down EXCEPT !.pc = "create", !.left = batch] /\ plan' = TRUE /\ starts' = starts + 1
      /\ starts < MaxStarts /\ UNCHANGED <<journal, files, flight>>
  BY DEF Run
<1>2. batch \in Nat /\ MaxStarts \in Nat
  BY RunnerAssumption
<1>3. runner' \in Runner /\ runner'.pc = "create"
  BY <1>1, <1>2 DEF Down, Runner
<1>4. RunnerTypes'
  <2>1. starts' \in 0 .. MaxStarts
    BY <1>1, <1>2 DEF RunnerInv, RunnerTypes
  <2>2. plan' \in BOOLEAN
    BY <1>1
  <2> QED
    BY <1>1, <1>3, <2>1, <2>2 DEF RunnerInv, RunnerTypes
<1>5. journal = None
  BY DEF Run
<1>6. ScoresKept
  BY <1>1 DEF ScoresKept
<1>7. JournalSound' /\ RunnerSound'
  BY <1>1, <1>3, <1>5 DEF RunnerInv, JournalSound, RunnerSound, ItemsSound, ReasonAlone, FiledIn, InOrder
<1> QED
  BY <1>4, <1>6, <1>7

\* What every resume that goes on has in common.
LEMMA ResumeTypes ==
  ASSUME RunnerInv, Resume
  PROVE  /\ journal \in Journal /\ UNCHANGED <<plan, files, flight>>
         /\ plan' \in BOOLEAN /\ files' \in [Items -> Artifact \cup {None}]
         /\ flight' \subseteq CallIds /\ starts' \in 0 .. MaxStarts
<1>1. MaxStarts \in Nat
  BY RunnerAssumption
<1> QED
  BY <1>1 DEF Resume, ResumeAccepted, RunnerInv, RunnerTypes

\* While a campaign is resumable, its only reasons are interruptions.
LEMMA ResumableReasons ==
  ASSUME RunnerInv, journal \in Journal, Resumable
  PROVE  \A k \in Items :
           /\ journal.items[k].reason \in {"none", "process_interruption"}
           /\ journal.items[k].status \notin {"stopped", "not_run_budget"}
<1>1. ({journal.reason} \cup Reasons(journal.items)) \cap
        {"billing_uncertain", "usage_missing", "model_drift", "budget",
         "internal_error", "user_cancelled"} = {}
  BY HighestIsHighest DEF Resumable, PersistedReason
<1>2. TAKE k \in Items
<1>3. journal.items[k] \in Item /\ ItemSound(journal.items[k])
  BY OnRecord
<1>4. journal.items[k].reason \in Reasons(journal.items)
  BY DEF Reasons
<1>5. journal.items[k].status \notin {"stopped", "not_run_budget"}
  BY <1>1, <1>3, <1>4 DEF ItemSound
<1>6. journal.items[k].reason \in {"none", "process_interruption"}
  BY <1>3, <1>5 DEF ItemSound, Item, WorkStatus, Scored
<1> QED
  BY <1>5, <1>6

\* A stop that needs an operator is journaled again: no item is interrupted.
LEMMA ResumeStoppedSound ==
  ASSUME RunnerInv, ResumeStopped
  PROVE  RunnerTypes' /\ JournalSound' /\ RunnerSound' /\ ScoresKept
<1>1. Resume /\ ~Resumable /\ journal' = Stopped(journal, PersistedReason) /\ runner' = runner
      /\ runner.pc = "down"
  BY DEF ResumeStopped, Write, Resume, At
<1>2. journal \in Journal
  BY <1>1, ResumeTypes
<1>3. \A k \in Items : journal.items[k].reason # "process_interruption"
  <2> SUFFICES ASSUME NEW k \in Items, journal.items[k].reason = "process_interruption"
               PROVE  FALSE
    OBVIOUS
  <2> DEFINE R == {journal.reason} \cup Reasons(journal.items)
  <2>1. journal.reason = "process_interruption"
        /\ \A l \in Items : l # k => journal.items[l].reason = "none"
    BY <1>2, OnRecord DEF ReasonAlone
  <2>2. R \subseteq {"none", "process_interruption"}
    BY <2>1 DEF Reasons
  <2>3. HighestStopReason(R) \in {"none", "process_interruption"}
    BY <2>2, HighestIsAReason
  <2> QED
    BY <1>1, <2>3 DEF Resumable, PersistedReason
<1>4. PersistedReason \in StopReason \cup {"none"}
  BY HighestIsAReason DEF PersistedReason
<1>5. journal' \in Journal /\ journal'.items = journal.items
  <2> DEFINE state == DeriveCampaignStatus(Statuses(journal.items),
                                           {PersistedReason} \cup Reasons(journal.items))
             billing == (PersistedReason = "billing_uncertain")
  <2>1. state \in CampaignStatus
    BY StatusIsAStatus
  <2>2. billing \in BOOLEAN
    OBVIOUS
  <2>3. journal' = [journal EXCEPT !.reason = PersistedReason, !.billing = billing, !.status = state]
    BY <1>1 DEF Stopped
  <2> HIDE DEF state, billing
  <2>4. journal' \in Journal
    BY <1>2, <1>4, <2>1, <2>2, <2>3, Zenon DEF Journal
  <2>5. journal'.items = journal.items
    BY <1>2, <2>3, Zenon DEF Journal
  <2> QED
    BY <2>4, <2>5
<1>6. ReasonAlone(journal'.items, journal'.reason)
  BY <1>2, <1>3, <1>5, OnRecord DEF ReasonAlone
<1>7. JournalSound'
  BY <1>1, <1>2, <1>5, <1>6, OnRecord, ResumeTypes, WriteSound
<1>8. RunnerTypes' /\ RunnerSound'
  BY <1>1, <1>5, ResumeTypes DEF RunnerInv, RunnerTypes, RunnerSound
<1>9. ScoresKept
  BY <1>1, <1>2, <1>5, ResumeTypes DEF ScoresKept
<1> QED
  BY <1>7, <1>8, <1>9

\* The item a dead process left running is audited: it is the only one.
LEMMA ResumeRunningSound ==
  ASSUME RunnerInv, NEW batch \in Batches, ResumeRunning(batch)
  PROVE  RunnerTypes' /\ JournalSound' /\ RunnerSound' /\ ScoresKept
<1>1. Resume /\ Resumable
  BY DEF ResumeRunning
<1>2. PICK i \in With({"running"}) :
        /\ journal' = [journal EXCEPT !.items[i].status = "interrupted",
                                      !.items[i].reason = "process_interruption",
                                      !.reason = "process_interruption", !.status = "interrupted"]
        /\ runner' = [Down EXCEPT !.pc = "audit", !.item = i, !.left = batch]
  BY DEF ResumeRunning, Write
<1>3. journal \in Journal /\ i \in Items /\ Status(i) = "running" /\ batch \in Nat
  BY <1>1, <1>2, ResumeTypes, RunnerAssumption DEF With
<1>4. OthersClean(i)
  <2> SUFFICES ASSUME NEW k \in Items, k # i PROVE journal.items[k].reason = "none"
    BY DEF OthersClean
  <2>1. journal.items[k].reason \in {"none", "process_interruption"}
    BY <1>1, <1>3, ResumableReasons
  <2>2. ASSUME journal.items[k].reason = "process_interruption" PROVE FALSE
    <3>1. journal.items[i].reason = "none" /\ ItemSound(journal.items[k])
          /\ journal.items[k] \in Item
      BY <1>3, OnRecord DEF ItemSound, Status
    <3>2. journal.items[k].status = "interrupted"
      BY <2>2, <3>1 DEF ItemSound, Item, WorkStatus, Scored
    <3>3. k < i => journal.items[k].status \in Scored
      BY <1>3, OnRecord, InHandAlone DEF Status
    <3>4. k > i => journal.items[k].status \in {"pending", "not_run_budget"}
      BY <1>3, OnRecord, InHandAlone DEF Status
    <3> QED
      BY <1>3, <3>2, <3>3, <3>4, ItemsAreNumbers DEF Scored
  <2> QED
    BY <2>1, <2>2
<1>5. /\ journal' \in Journal /\ JournalSound' /\ ScoresKept
      /\ journal'.items[i].status = "interrupted"
      /\ \A k \in Items : k # i => journal'.items[k].reason = "none"
  BY <1>1, <1>2, <1>3, <1>4, ResumeTypes, InterruptSound
<1>6. runner' \in Runner /\ runner'.pc = "audit" /\ runner'.item = i
  BY <1>2, <1>3 DEF Down, Runner
<1>7. RunnerSound'
  BY <1>3, <1>5, <1>6 DEF RunnerSound, Status, OthersClean
<1>8. RunnerTypes'
  BY <1>1, <1>5, <1>6, ResumeTypes DEF RunnerTypes
<1> QED
  BY <1>5, <1>7, <1>8

\* An interrupted item is audited.
LEMMA ResumeInterruptedSound ==
  ASSUME RunnerInv, NEW batch \in Batches, ResumeInterrupted(batch)
  PROVE  RunnerTypes' /\ JournalSound' /\ RunnerSound' /\ ScoresKept
<1>1. Resume /\ UNCHANGED journal
  BY DEF ResumeInterrupted
<1>2. PICK i \in With({"interrupted"}) :
        runner' = [Down EXCEPT !.pc = "audit", !.item = i, !.left = batch]
  BY DEF ResumeInterrupted
<1>3. journal \in Journal /\ i \in Items /\ Status(i) = "interrupted" /\ batch \in Nat
  BY <1>1, <1>2, ResumeTypes, RunnerAssumption DEF With
<1>4. OthersClean(i)
  BY <1>3, OnRecord DEF OthersClean, ReasonAlone, ItemSound, Status
<1>5. runner' \in Runner /\ runner'.pc = "audit" /\ runner'.item = i
  BY <1>2, <1>3 DEF Down, Runner
<1>6. OthersClean(i)' /\ Status(i)' = "interrupted"
  BY <1>1, <1>3, <1>4 DEF OthersClean, Status
<1>7. RunnerSound'
  BY <1>1, <1>3, <1>5, <1>6 DEF RunnerSound, OthersClean, Status
<1>8. JournalSound'
  BY <1>1, <1>3, OnRecord, ResumeTypes, WriteSound
<1>9. RunnerTypes'
  BY <1>1, <1>3, <1>5, ResumeTypes DEF RunnerTypes
<1>10. ScoresKept
  BY <1>1, ResumeTypes DEF ScoresKept
<1> QED
  BY <1>7, <1>8, <1>9, <1>10

\* A paused or idle campaign goes on: no item of it carries a reason.
LEMMA ResumeGoesOn ==
  ASSUME RunnerInv, Resume, Resumable, journal.reason # "process_interruption",
         journal' \in Journal, journal'.items = journal.items,
         NEW batch \in Batches, Continue(journal.items, batch)
  PROVE  RunnerTypes' /\ JournalSound' /\ RunnerSound' /\ ScoresKept
<1>1. journal \in Journal /\ batch \in Nat
  BY ResumeTypes, RunnerAssumption
<1>2. \A k \in Items : journal.items[k].reason = "none"
  BY <1>1, OnRecord, ResumableReasons DEF ReasonAlone
<1>3. Clean' /\ ReasonAlone(journal'.items, journal'.reason)
  BY <1>2 DEF Clean, ReasonAlone
<1>4. runner' \in Runner /\ RunnerSound'
  BY <1>1, <1>3, ContinueSound
<1>5. JournalSound'
  BY <1>1, <1>3, OnRecord, ResumeTypes, WriteSound
<1>6. RunnerTypes'
  BY <1>4, ResumeTypes DEF RunnerTypes
<1>7. ScoresKept
  BY <1>1, ResumeTypes DEF ScoresKept
<1> QED
  BY <1>4, <1>5, <1>6, <1>7

\* Both ways to go on without an audit keep the runner sound.
LEMMA ResumePausedIdleSound ==
  ASSUME RunnerInv, NEW batch \in Batches, ResumePaused(batch) \/ ResumeIdle(batch)
  PROVE  RunnerTypes' /\ JournalSound' /\ RunnerSound' /\ ScoresKept
<1>1. CASE ResumePaused(batch)
  <2>1. /\ Resume /\ Resumable /\ journal.reason # "process_interruption"
        /\ journal' = [journal EXCEPT !.reason = "none", !.status = "running"]
        /\ Continue(journal.items, batch)
    BY <1>1 DEF ResumePaused, Write
  <2>2. journal' \in Journal /\ journal'.items = journal.items
    BY <2>1, ResumeTypes DEF Journal, CampaignStatus
  <2> QED
    BY <2>1, <2>2, ResumeGoesOn
<1>2. CASE ResumeIdle(batch)
  <2>1. Resume /\ PersistedReason = "none" /\ Continue(journal.items, batch) /\ UNCHANGED journal
    BY <1>2 DEF ResumeIdle
  <2>2. journal.reason # "process_interruption"
    <3> SUFFICES ASSUME journal.reason = "process_interruption" PROVE FALSE
      OBVIOUS
    <3> DEFINE R == {journal.reason} \cup Reasons(journal.items)
    <3>1. R \cap StopReason # {}
      BY TheReasons
    <3>2. HighestStopReason(R) \in StopReason
      BY <3>1, HighestIsAReason
    <3> QED
      BY <2>1, <3>2, TheReasons DEF PersistedReason
  <2>3. Resumable /\ journal' \in Journal
    BY <2>1, ResumeTypes DEF Resumable
  <2> QED
    BY <2>1, <2>2, <2>3, ResumeGoesOn
<1> QED
  BY <1>1, <1>2

\* A recovery gives back every stopped item; none is interrupted meanwhile.
LEMMA RecoverSound ==
  ASSUME RunnerInv, NEW batch \in Batches, Recover(batch)
  PROVE  RunnerTypes' /\ JournalSound' /\ RunnerSound' /\ ScoresKept
<1> DEFINE stopped == {i \in Items : journal.items[i].reason \in Recoverable}
           fresh == [status |-> "pending", reason |-> "none", artifact |-> None]
           items == [i \in Items |-> IF i \in stopped THEN fresh ELSE journal.items[i]]
<1>1. /\ journal \in Journal /\ starts < MaxStarts /\ starts' = starts + 1
      /\ UNCHANGED <<plan, files, flight>> /\ stopped # {} /\ PersistedReason \in Recoverable
      /\ MaxStarts \in Nat /\ batch \in Nat
  BY RunnerAssumption DEF Recover, RunnerInv, RunnerTypes
<1>2. /\ journal' = [journal EXCEPT !.items = items, !.reason = "none", !.billing = FALSE,
                                    !.status = "running"]
      /\ Continue(items, batch)
  <2>1. journal.items \in [Items -> Item]
    BY <1>1, OnRecord
  <2>2. [journal EXCEPT !.items = items, !.reason = "none", !.billing = FALSE,
                        !.status = "running"].items = items
    BY <1>1, Zenon DEF Journal
  <2> QED
    BY <2>1, <2>2, Zenon DEF Recover, Write
<1>3. /\ stopped \in SUBSET Items
      /\ \A i \in stopped : journal.items[i].status \notin Scored
  BY <1>1, OnRecord DEF ItemSound, Recoverable
<1>4. ItemsSound(items)
  BY <1>1, <1>3, OnRecord, RequeueSound
<1>5. \A k \in Items :
        /\ items[k].reason \in {"none", journal.items[k].reason}
        /\ items[k].artifact \in {None, journal.items[k].artifact}
        /\ k \notin stopped => items[k] = journal.items[k]
        /\ k \in stopped => items[k].status = "pending"
  <2>1. fresh.status = "pending" /\ fresh.reason = "none" /\ fresh.artifact = None
    OBVIOUS
  <2> HIDE DEF fresh, stopped
  <2> QED
    BY <2>1
<1>6. \A k \in Items : items[k].reason = "none"
  <2>1. PICK i \in Items : journal.items[i].reason \in Recoverable
    BY <1>1
  <2>2. \A k \in Items : k # i => journal.items[k].reason = "none"
    BY <1>1, <2>1, OnRecord DEF ReasonAlone, Recoverable
  <2>3. items[i].reason = "none"
    BY <2>1
  <2> QED
    BY <1>5, <2>2, <2>3
<1> HIDE DEF items, stopped
<1>7. journal' \in Journal /\ journal'.items = items
  <2>1. items \in [Items -> Item] /\ "none" \in StopReason \cup {"none"} /\ FALSE \in BOOLEAN
        /\ "running" \in CampaignStatus
    BY <1>4 DEF ItemsSound, CampaignStatus
  <2>2. journal' \in Journal
    BY <1>1, <1>2, <2>1, Zenon DEF Journal
  <2>3. journal'.items = items
    BY <1>1, <1>2, Zenon DEF Journal
  <2> QED
    BY <2>2, <2>3
<1>8. FiledIn(items, files) /\ ReasonAlone(items, journal'.reason) /\ Clean'
  BY <1>1, <1>5, <1>6, <1>7, OnRecord DEF FiledIn, ReasonAlone, Clean
<1>9. JournalSound'
  BY <1>1, <1>4, <1>7, <1>8, WriteSound
<1>10. runner' \in Runner /\ RunnerSound'
  BY <1>1, <1>2, <1>7, <1>8, ContinueSound
<1>11. RunnerTypes'
  <2>1. starts' \in 0 .. MaxStarts
    BY <1>1 DEF RunnerInv, RunnerTypes
  <2> QED
    BY <1>1, <1>7, <1>10, <2>1 DEF RunnerInv, RunnerTypes
<1>12. ScoresKept
  BY <1>1, <1>3, <1>5, <1>7 DEF ScoresKept, Scored
<1> QED
  BY <1>9, <1>10, <1>11, <1>12

\* Audits, authorizations, deaths and stutters touch neither disk nor loop.
LEMMA QuietSound ==
  ASSUME RunnerInv,
         \/ \E c \in CallIds : AuditCall(c) \/ OperatorAuthorizes(c)
         \/ Crash \/ UNCHANGED vars
  PROVE  RunnerTypes' /\ JournalSound' /\ RunnerSound' /\ ScoresKept
<1>1. CASE Crash
  <2>1. runner' = Down /\ flight' = {} /\ UNCHANGED <<diskVars, starts>>
    BY <1>1 DEF Crash
  <2>2. RunnerTypes'
    BY <2>1, DownSound DEF RunnerInv, RunnerTypes, diskVars
  <2> QED
    BY <2>1, <2>2, DownSound, DiskStays
<1>2. CASE (\E c \in CallIds : AuditCall(c) \/ OperatorAuthorizes(c)) \/ UNCHANGED vars
  <2>1. UNCHANGED <<diskVars, runner, flight, starts>>
    BY <1>2 DEF AuditCall, OperatorAuthorizes, vars
  <2>2. RunnerTypes'
    BY <2>1 DEF RunnerInv, RunnerTypes, diskVars
  <2>3. RunnerSound'
    BY <2>1 DEF RunnerInv, RunnerSound, diskVars, Status, Clean, OthersClean
  <2> QED
    BY <2>1, <2>2, <2>3, DiskStays
<1> QED
  BY <1>1, <1>2

(***************************************************************************)
(* The theorems.                                                           *)
(***************************************************************************)

\* Nothing is on disk and no process runs at first.
LEMMA RunnerInit == Init => RunnerInv
<1> SUFFICES ASSUME Init PROVE RunnerInv
  OBVIOUS
<1>1. StoreTypeOK
  BY DEF Init, StoreInit, StoreTypeOK, Absent, Row
<1>2. Down \in Runner /\ Down.pc = "down"
  BY DEF Down, Runner
<1>3. RunnerTypes
  <2>1. starts \in 0 .. MaxStarts
    BY RunnerAssumption DEF Init
  <2>2. plan \in BOOLEAN
    BY DEF Init
  <2> QED
    BY <1>2, <2>1, <2>2 DEF Init, RunnerTypes
<1>4. RunnerSound
  BY <1>2 DEF Init, RunnerSound
<1>5. JournalSound
  BY NoneAssumption DEF Init, JournalSound
<1> QED
  BY <1>1, <1>3, <1>4, <1>5 DEF RunnerInv

\* Every step of the runner keeps the invariant.
LEMMA RunnerStep == RunnerInv /\ [Next]_vars => RunnerInv' /\ ScoresKept
<1> SUFFICES ASSUME RunnerInv, [Next]_vars PROVE RunnerInv' /\ ScoresKept
  OBVIOUS
<1>1. StoreTypeOK'
  BY RunnerStoreStep, StoreTypeStep DEF RunnerInv
<1>2. RunnerTypes' /\ JournalSound' /\ RunnerSound' /\ ScoresKept
  <2>1. CASE Executor
    BY <2>1, ExecutorSound, ExecReturnsSound DEF Executor
  <2>2. CASE Loop
    BY <2>2, CreateJournalSound, BeginFinishSound, NextItemSound, StopItemSound, LinkSound,
       PauseSound, MarkBudgetSound, AuditDoneSound, QuietSound DEF Loop
  <2>3. CASE Invocation
    BY <2>3, ResumeStoppedSound, RunSound, RecoverSound, ResumeRunningSound,
       ResumeInterruptedSound, ResumePausedIdleSound DEF Invocation
  <2>4. CASE ExecInterrupted \/ Crash \/ (\E c \in CallIds : OperatorAuthorizes(c)) \/ UNCHANGED vars
    BY <2>4, ExecInterruptedSound, QuietSound
  <2> QED
    BY <2>1, <2>2, <2>3, <2>4 DEF Next
<1> QED
  BY <1>1, <1>2 DEF RunnerInv

\* The runner's inductive invariant holds at all times.
LEMMA RunnerInvariant == Spec => []RunnerInv
BY RunnerInit, RunnerStep, PTL DEF Spec

\* The runner, its files and its journal keep every value in its type.
THEOREM RunnerTypeCorrect == Spec => []TypeOK
<1>1. RunnerInv => TypeOK
  BY DEF RunnerInv, RunnerTypes, TypeOK
<1> QED
  BY <1>1, RunnerInvariant, PTL

\* Whatever invocations, crashes and recoveries there are, the campaign uses the
\* ledger by its transactions only.
THEOREM RunnerUsesLedger == Spec => StoreSpec
<1>1. Init => StoreInit
  BY DEF Init
<1> QED
  BY <1>1, RunnerStoreStep, RunnerInvariant, PTL DEF Spec, StoreSpec

\* Hence a campaign pays for a call at most once per authorization.
COROLLARY CampaignPaysOnce == Spec => []HandedOncePerOpening /\ []SlotOwnedOnce /\ AuditTrailKept
BY RunnerUsesLedger, HandedOnce, SlotsOwnedOnce, AuditTrailIsKept, PTL

\* And it keeps what it pays and has promised within the cap, but for an answer
\* that cost more than was reserved for it.
COROLLARY CampaignKeepsCap == Spec => []CommittedWithinCap
BY RunnerUsesLedger, CapIsKept, PTL

\* Every artifact the journal vouches for is on disk.
THEOREM LinkedIsOnDisk == Spec => []LinkedArtifactsOnDisk
<1>1. RunnerInv => LinkedArtifactsOnDisk
  BY DEF RunnerInv, RunnerTypes, JournalSound, FiledIn, LinkedArtifactsOnDisk
<1> QED
  BY <1>1, RunnerInvariant, PTL

\* The schedule is executed in order, across crashes, resumes and recoveries.
THEOREM InScheduleOrder == Spec => []ScheduleOrder
<1>1. RunnerInv => ScheduleOrder
  BY DEF RunnerInv, RunnerTypes, JournalSound, ItemsSound, InOrder, ScheduleOrder, Status
<1> QED
  BY <1>1, RunnerInvariant, PTL

\* At most one item is unsettled at any time.
THEOREM OneInHand == Spec => []OneItemInHand
<1>1. RunnerInv => OneItemInHand
  <2> SUFFICES ASSUME RunnerInv, journal # None
               PROVE  Cardinality(With({"running", "interrupted", "stopped"})) <= 1
    BY DEF OneItemInHand
  <2> DEFINE InHand == With({"running", "interrupted", "stopped"})
  <2>1. journal \in Journal
    BY DEF RunnerInv, RunnerTypes
  <2>2. \A i, k \in InHand : i = k
    <3> SUFFICES ASSUME NEW i \in InHand, NEW k \in InHand, i # k PROVE FALSE
      OBVIOUS
    <3>1. /\ i \in Items /\ journal.items[i].status \in {"running", "interrupted", "stopped"}
          /\ k \in Items /\ journal.items[k].status \in {"running", "interrupted", "stopped"}
      BY DEF With, Status
    <3>2. /\ k < i => journal.items[k].status \in Scored
          /\ k > i => journal.items[k].status \in {"pending", "not_run_budget"}
      BY <2>1, <3>1, OnRecord, InHandAlone
    <3> QED
      BY <3>1, <3>2, ItemsAreNumbers DEF Scored
  <2>3. InHand = {} \/ \E i : InHand = {i}
    BY <2>2
  <2> HIDE DEF InHand
  <2>4. Cardinality(InHand) \in {0, 1}
    BY <2>3, FS_EmptySet, FS_Singleton
  <2> QED
    BY <2>4 DEF InHand
<1> QED
  BY <1>1, RunnerInvariant, PTL

=============================================================================
