---------------------- MODULE CalibrationCollectorProofs ----------------------
(***************************************************************************)
(* What holds of the calibration collector for any number of cases, calls  *)
(* and process starts: a closed case is final, the record vouches only for *)
(* what the other files say, a collection that is published as complete    *)
(* passes the replay, one that ended can be resumed, and no call is paid   *)
(* for under a stop.                                                       *)
(***************************************************************************)
EXTENDS CalibrationCollector, RunStoreProofs

-----------------------------------------------------------------------------
(***************************************************************************)
(* The inductive invariant.                                                *)
(***************************************************************************)

\* Where the collector is, or goes once the sidecar is written.
Place == IF At("sidecar") THEN collector.next ELSE collector.pc

\* Where it has a case in hand, and where the files agree on what is closed.
InHand == {"open", "exec", "hand", "build", "close", "link"}
AtRest == {"newRecord", "audit", "relink", "models", "loop", "link", "pause", "finish"}

\* The process holds an activity record, which is the one on disk but for what
\* it is about to write.
Held == collector.pc \notin {"down", "newJournal", "newRecord"}

\* What the collector is working on.
WorkSound ==
  /\ Place \in InHand \cup {"pause", "fail", "failRecord"} => collector.case \in Cases
  /\ Place \in {"fail", "failRecord"} => collector.reason \in StopReason
  /\ Place \notin {"exec", "hand"} => flight = {}
  /\ flight \subseteq RowsOf(collector.case)
  /\ At("hand") => collector.call \in RowsOf(collector.case)

\* The files come into being in order; the sidecar is behind only between the
\* two writes of a record, or once a process died there.
FilesSound ==
  /\ journal # None => plan
  /\ record # None => journal # None
  /\ record = None => \A i \in Cases : cases[i] = None
  /\ At("newJournal") => plan /\ record = None
  /\ At("newRecord") => journal # None /\ record = None
  /\ Held => record # None /\ collector.activity # None
  /\ Held /\ ~At("sidecar") => sidecar
  /\ Held /\ collector.pc \notin {"relink", "fail", "failRecord"} => collector.activity = record

\* An answer is on record only in a final row.
RowsSound == \A c \in CallIds : calls[c].payload # None => calls[c].state \in Final

\* A closed case accounts for its calls as the ledger does, all of them priced
\* and answered by one model, and the cases before it are closed.
CaseSound(i) ==
  /\ cases[i] = Accounting(i)
  /\ RowsIn(i, CallState) = RowsIn(i, {"completed"})
  /\ Cardinality(ModelIds(RowsOf(i))) = 1
  /\ \A k \in 1 .. i - 1 : cases[k] # None

CasesSound == \A i \in Cases : cases[i] # None => CaseSound(i)

\* The journal may be behind the case files, never ahead; one case is running.
JournalSound ==
  journal # None =>
    /\ \A i \in Cases :
         /\ Status(i) = "complete" => cases[i] # None /\ journal[i].artifact = cases[i]
         /\ Status(i) # "complete" => journal[i].artifact = None
    /\ \A i, k \in Cases : Status(i) = "running" /\ Status(k) = "running" => i = k

\* The journal is not behind, but for the case in hand.
JournalCaughtUp ==
  /\ Place \in AtRest =>
       \A i \in Cases : Status(i) # "running" /\ (cases[i] # None => Status(i) = "complete")
  /\ Place \in {"open", "exec", "hand", "build", "close"} =>
       /\ Status(collector.case) = "running"
       /\ \A i \in Cases \ {collector.case} :
            Status(i) # "running" /\ (cases[i] # None => Status(i) = "complete")
       /\ \A k \in 1 .. collector.case - 1 : cases[k] # None
  /\ Place \in {"open", "exec", "hand", "build"} => cases[collector.case] = None
  /\ Place \in {"close", "link"} => cases[collector.case] # None
  /\ Place = "finish" => view = cases /\ \A i \in Cases : Status(i) = "complete"

\* A record that says the collection is closed.
ClosedBy(act) == act.calibration = "complete" /\ act.reason = "none"

\* What a record act says is true of case files cs, a journal j, a view v and
\* the models ms in the ledger and, when it is closed, everything the replay
\* looks at is in place.
VouchesFor(act, cs, j, v, ms) ==
  /\ act.billing => act.reason = "billing_uncertain"
  /\ \A i \in Cases : act.links[i] # None => act.links[i] = cs[i]
  /\ act.models \subseteq ms
  /\ ClosedBy(act) =>
       /\ act.journal = j /\ v = cs
       /\ \A i \in Cases : j[i].status = "complete" /\ act.links[i] # None
       /\ act.models = ms /\ Cardinality(act.models) = 1

Vouches(act) == VouchesFor(act, cases, journal, view, ModelIds(CallIds))

RecordsSound ==
  /\ record # None => Vouches(record)
  /\ Held => Vouches(collector.activity)
  /\ At("fail") => ~ClosedBy(record) /\ ~ClosedBy(collector.activity)

\* What the loop knows: the phase is running, the closed cases are linked, and
\* the answers outside the case in hand come from the one model on record.
LoopSound ==
  /\ Place \in {"exec", "hand", "build", "close", "link", "pause"} =>
       collector.activity.calibration = "running" /\ collector.activity.reason = "none"
  /\ Place \in {"models", "loop", "pause", "finish"} \cup InHand =>
       \A i \in Cases : cases[i] # None =>
         \/ collector.activity.links[i] # None
         \/ Place \in {"close", "link"} /\ i = collector.case
  /\ Place \in {"loop", "pause", "finish"} \cup InHand =>
       /\ \A m, n \in collector.activity.models : m = n
       /\ \A c \in CallIds : calls[c].payload # None =>
            \/ calls[c].payload \in collector.activity.models
            \/ Place \in InHand /\ c \in RowsOf(collector.case)
  /\ Place \in {"close", "link"} =>
       collector.activity.models \subseteq ModelIds(RowsOf(collector.case))

\* The inductive invariant.
CollectorInv ==
  /\ CollectorTypeOK /\ WorkSound /\ FilesSound
  /\ RowsSound /\ CasesSound /\ JournalSound /\ JournalCaughtUp
  /\ RecordsSound /\ LoopSound

-----------------------------------------------------------------------------
(***************************************************************************)
(* Reasons, rows, cases and models.                                        *)
(***************************************************************************)

\* The stop reasons, written out.
LEMMA TheReasons ==
  StopReason = {"billing_uncertain", "usage_missing", "model_drift", "budget",
                "internal_error", "user_cancelled", "process_interruption", "user_paused"}
<1>1. Len(Precedence) = 8
  BY DEF Precedence
<1>2. 1 .. 8 = {1, 2, 3, 4, 5, 6, 7, 8}
  OBVIOUS
<1>3. StopReason = {Precedence[n] : n \in {1, 2, 3, 4, 5, 6, 7, 8}}
  BY <1>1, <1>2 DEF StopReason
<1> QED
  BY <1>3 DEF Precedence

\* Every call belongs to one case.
LEMMA CallsOfCases ==
  /\ \A i \in Cases : RowsOf(i) \subseteq CallIds
  /\ \A i \in Cases, t \in Tasks : <<i, t>> \in CallIds /\ <<i, t>> \in RowsOf(i)
  /\ \A c \in CallIds : \E i \in Cases : c \in RowsOf(i)
  /\ \A i, k \in Cases : \A c \in RowsOf(i) : c \in RowsOf(k) => i = k
BY CollectorAssumption DEF RowsOf

\* The models of a set of calls are finitely many.
LEMMA ModelsFinite ==
  ASSUME NEW ids \in SUBSET CallIds
  PROVE  IsFiniteSet(ModelIds(ids))
<1> DEFINE f == [c \in ids |-> calls[c].payload]
           image == {f[c] : c \in ids}
<1>1. IsFiniteSet(ids)
  BY StoreAssumption, FS_Subset
<1>2. f \in Surjection(ids, image)
  BY DEF Surjection
<1>3. IsFiniteSet(image)
  BY <1>1, <1>2, FS_Surjection
<1>4. ModelIds(ids) \in SUBSET image
  BY DEF ModelIds
<1> QED
  BY <1>3, <1>4, FS_Subset

\* A finite set has one element or at most one, as one would say it.
LEMMA OneElement ==
  ASSUME NEW S, IsFiniteSet(S)
  PROVE  /\ Cardinality(S) = 1 <=> S # {} /\ \A x, y \in S : x = y
         /\ ~(Cardinality(S) > 1) <=> \A x, y \in S : x = y
         /\ Cardinality(S) <= 1 <=> \A x, y \in S : x = y
<1>1. Cardinality(S) \in Nat /\ (Cardinality(S) = 0 <=> S = {})
  BY FS_CardinalityType, FS_EmptySet
<1>2. Cardinality(S) = 1 <=> \E x : S = {x}
  BY FS_Singleton
<1>3. (\E x : S = {x}) <=> S # {} /\ \A x, y \in S : x = y
  <2>1. ASSUME S # {}, \A x, y \in S : x = y PROVE \E x : S = {x}
    <3>1. PICK x : x \in S
      BY <2>1
    <3>2. S = {x}
      BY <2>1, <3>1
    <3> QED
      BY <3>2
  <2> QED
    BY <2>1
<1>4. S = {} => \A x, y \in S : x = y
  OBVIOUS
<1> QED
  BY <1>1, <1>2, <1>3, <1>4

\* What a transaction does to the rows while case k is in hand, if any: a row
\* that is final stays as it is, no row is inserted and no answer recorded but
\* for case k, and an answer is recorded in a final row.
RowsMove(k) ==
  \A c \in CallIds :
    /\ calls[c].state \in Final => calls'[c] = calls[c]
    /\ calls[c].state = "absent" /\ c \notin RowsOf(k) => calls'[c] = calls[c]
    /\ calls'[c].payload # calls[c].payload => c \in RowsOf(k)
    /\ calls'[c].payload # None => calls'[c].state \in Final

\* The transactions the collector and the operator make.
LEMMA TransactionsMove ==
  ASSUME StoreTypeOK, RowsSound, NEW k, NEW c \in CallIds,
         \/ MarkSent(c) \/ MarkBillingUncertain(c)
         \/ \E audit \in Audits : AuthorizeBillingUncertainRetry(c, audit)
         \/ /\ c \in RowsOf(k)
            /\ \E req \in Requests, amount \in Estimates : ReserveCall(c, req, c, amount)
         \/ /\ c \in RowsOf(k)
            /\ \E payload \in Payloads, usage \in Usages, req \in Requests :
                 CompleteCall(c, req, payload, usage)
  PROVE  RowsMove(k)
<1> USE DEF StoreTypeOK, Row, RowsSound, RowsMove, Final
<1>1. CASE MarkSent(c)
  BY <1>1 DEF MarkSent
<1>2. CASE MarkBillingUncertain(c)
  BY <1>2 DEF MarkBillingUncertain
<1>3. CASE \E audit \in Audits : AuthorizeBillingUncertainRetry(c, audit)
  BY <1>3 DEF AuthorizeBillingUncertainRetry
<1>4. ASSUME c \in RowsOf(k), NEW req \in Requests, NEW amount \in Estimates,
             ReserveCall(c, req, c, amount)
      PROVE  RowsMove(k)
  <2>1. calls[c].state = "absent"
    BY <1>4 DEF ReserveCall, ReserveOutcome
  <2>2. calls' = [calls EXCEPT ![c] = [Absent EXCEPT !.state = "reserved", !.slot = c,
                                                     !.request = req, !.reserved = amount]]
    BY <1>4 DEF ReserveCall
  <2>3. calls'[c].payload = None
    BY <2>2 DEF Absent
  <2> QED
    BY <1>4, <2>1, <2>2, <2>3
<1>5. ASSUME c \in RowsOf(k), NEW payload \in Payloads, NEW usage \in Usages,
             NEW req \in Requests, CompleteCall(c, req, payload, usage)
      PROVE  RowsMove(k)
  <2>1. calls[c].state \notin Final
    BY <1>5 DEF CompleteCall, CompleteOutcome
  <2> DEFINE state == IF usage.complete THEN "completed" ELSE "usage_missing"
  <2>2. calls'[c].state = state
    <3>1. /\ calls' = [calls EXCEPT ![c].state = state, ![c].actual = usage.cost,
                                   ![c].payload = payload]
      BY <1>5, Zenon DEF CompleteCall
    <3> HIDE DEF state
    <3> QED
      BY <3>1
  <2>3. \A d \in CallIds : d # c => calls'[d] = calls[d]
    BY <1>5 DEF CompleteCall
  <2> QED
    BY <1>5, <2>1, <2>2, <2>3, StoreAssumption
<1> QED
  BY <1>1, <1>2, <1>3, <1>4, <1>5

\* Rows that did not change account for the same calls and models.
LEMMA SameRows ==
  ASSUME NEW i \in Cases, \A c \in RowsOf(i) : calls'[c] = calls[c]
  PROVE  /\ Accounting(i)' = Accounting(i)
         /\ RowsIn(i, CallState)' = RowsIn(i, CallState)
         /\ RowsIn(i, {"completed"})' = RowsIn(i, {"completed"})
         /\ ModelIds(RowsOf(i))' = ModelIds(RowsOf(i))
<1>1. \A t \in Tasks : calls'[<<i, t>>] = calls[<<i, t>>]
  BY CallsOfCases
<1>2. Accounting(i)' = Accounting(i)
  BY <1>1, Zenon DEF Accounting
<1>3. RowsIn(i, CallState)' = RowsIn(i, CallState)
      /\ RowsIn(i, {"completed"})' = RowsIn(i, {"completed"})
  BY <1>1 DEF RowsIn
<1>4. ModelIds(RowsOf(i))' = ModelIds(RowsOf(i))
  BY DEF ModelIds, RowsOf
<1> QED
  BY <1>2, <1>3, <1>4

\* The rows of a closed case are final or absent.
LEMMA ClosedRows ==
  ASSUME StoreTypeOK, NEW i \in Cases, CaseSound(i), NEW c \in RowsOf(i)
  PROVE  calls[c].state \in {"absent", "completed"}
<1>1. PICK t \in Tasks : c = <<i, t>> /\ c \in CallIds
  BY CallsOfCases DEF RowsOf
<1>2. calls[c].state \in CallState \cup {"absent"}
  BY <1>1 DEF StoreTypeOK, Row
<1>3. calls[c].state \in CallState => calls[c].state = "completed"
  BY <1>1 DEF CaseSound, RowsIn
<1> QED
  BY <1>2, <1>3

\* A transaction for a case that is not closed leaves the closed ones alone,
\* and no answer that was on record is lost.
LEMMA MoveKeeps ==
  ASSUME StoreTypeOK, RowsSound, CasesSound, UNCHANGED cases, NEW k, RowsMove(k),
         k \in Cases => cases[k] = None, k \notin Cases => RowsOf(k) \cap CallIds = {}
  PROVE  /\ RowsSound' /\ CasesSound'
         /\ \A i \in Cases : cases[i] # None => \A c \in RowsOf(i) : calls'[c] = calls[c]
         /\ ModelIds(CallIds) \subseteq ModelIds(CallIds)'
<1>1. RowsSound'
  BY DEF RowsSound, RowsMove
<1>2. ASSUME NEW i \in Cases, cases[i] # None, NEW c \in RowsOf(i) PROVE calls'[c] = calls[c]
  <2>1. c \in CallIds /\ c \notin RowsOf(k)
    BY <1>2, CallsOfCases
  <2>2. calls[c].state \in {"absent", "completed"}
    BY <1>2, ClosedRows DEF CasesSound
  <2> QED
    BY <2>1, <2>2 DEF RowsMove, Final
<1>3. CasesSound'
  <2> SUFFICES ASSUME NEW i \in Cases, cases'[i] # None PROVE CaseSound(i)'
    BY DEF CasesSound
  <2>1. CaseSound(i) /\ cases[i] # None
    BY DEF CasesSound
  <2>2. \A c \in RowsOf(i) : calls'[c] = calls[c]
    BY <1>2, <2>1
  <2> QED
    BY <2>1, <2>2, SameRows DEF CaseSound
<1>4. ModelIds(CallIds) \subseteq ModelIds(CallIds)'
  BY DEF ModelIds, RowsMove, RowsSound
<1> QED
  BY <1>1, <1>2, <1>3, <1>4

-----------------------------------------------------------------------------
(***************************************************************************)
(* Records.                                                                *)
(***************************************************************************)

\* A record stays true while closed cases stay, models only come to the ledger,
\* and nothing changes once it is closed.
LEMMA VouchingLasts ==
  ASSUME NEW act, NEW cs, NEW j, NEW v, NEW ms, NEW cs2, NEW j2, NEW v2, NEW ms2,
         VouchesFor(act, cs, j, v, ms),
         \A i \in Cases : cs[i] # None => cs2[i] = cs[i],
         ms \subseteq ms2,
         ClosedBy(act) => j2 = j /\ cs2 = cs /\ v2 = cs2 /\ ms2 = ms
  PROVE  VouchesFor(act, cs2, j2, v2, ms2)
BY DEF VouchesFor

\* What the updates of a record leave of it.
LEMMA RunningRecord ==
  ASSUME NEW act \in Activity
  PROVE  /\ Running(act) \in Activity
         /\ Running(act).calibration = "running" /\ Running(act).reason = "none"
         /\ Running(act).billing = FALSE /\ Running(act).links = act.links
         /\ Running(act).models = act.models /\ Running(act).journal = act.journal
BY DEF Running, Activity, CampaignStatus

\* Opening the phase keeps stop, links and models.
LEMMA OpenedRecord ==
  ASSUME journal \in [Cases -> CaseState], NEW act \in Activity
  PROVE  /\ Opened(act) \in Activity
         /\ Opened(act).calibration = "running" /\ Opened(act).reason = act.reason
         /\ Opened(act).billing = act.billing /\ Opened(act).links = act.links
         /\ Opened(act).models = act.models /\ Opened(act).journal = journal
BY DEF Opened, Activity, CampaignStatus

\* A pause keeps links and models.
LEMMA PausedRecord ==
  ASSUME NEW act \in Activity
  PROVE  /\ Paused(act) \in Activity
         /\ Paused(act).calibration = "paused" /\ Paused(act).reason = "user_paused"
         /\ Paused(act).billing = act.billing /\ Paused(act).links = act.links
         /\ Paused(act).models = act.models /\ Paused(act).journal = act.journal
<1>1. "user_paused" \in StopReason /\ "paused" \in CampaignStatus
  BY TheReasons DEF CampaignStatus
<1> QED
  BY <1>1 DEF Paused, Activity

\* The models of calls are models.
LEMMA ModelsTyped ==
  ASSUME StoreTypeOK, NEW ids \in SUBSET CallIds
  PROVE  ModelIds(ids) \in SUBSET Payloads /\ ModelIds(ids) \subseteq ModelIds(CallIds)
BY DEF StoreTypeOK, Row, ModelIds

\* Linking a case adds its link and its models.
LEMMA LinkedRecord ==
  ASSUME StoreTypeOK, cases \in [Cases -> Case \cup {None}], journal \in [Cases -> CaseState],
         NEW act \in Activity, NEW i \in Cases
  PROVE  /\ Linked(act, i) \in Activity
         /\ Linked(act, i).calibration = act.calibration /\ Linked(act, i).reason = act.reason
         /\ Linked(act, i).billing = act.billing
         /\ Linked(act, i).links[i] = cases[i]
         /\ \A k \in Cases : k # i => Linked(act, i).links[k] = act.links[k]
         /\ Linked(act, i).models = act.models \cup ModelIds(RowsOf(i))
         /\ Linked(act, i).journal = journal
<1> DEFINE more == act.models \cup ModelIds(RowsOf(i))
           entry == cases[i]
<1>1. more \in SUBSET Payloads /\ entry \in Case \cup {None}
  BY ModelsTyped, CallsOfCases DEF Activity
<1>2. Linked(act, i) = [act EXCEPT !.links[i] = entry, !.journal = journal, !.models = more]
  BY Zenon DEF Linked
<1> HIDE DEF more, entry
<1> DEFINE links == [act.links EXCEPT ![i] = entry]
<1>3. links \in [Cases -> Case \cup {None}] /\ links[i] = entry
      /\ \A k \in Cases : k # i => links[k] = act.links[k]
  BY <1>1 DEF Activity
<1>4. Linked(act, i) = [act EXCEPT !.links = links, !.journal = journal, !.models = more]
  BY <1>2 DEF Activity
<1> HIDE DEF links
<1>5. Linked(act, i).links = links
  BY <1>4 DEF Activity
<1>6. /\ Linked(act, i) \in Activity
      /\ Linked(act, i).calibration = act.calibration /\ Linked(act, i).reason = act.reason
      /\ Linked(act, i).billing = act.billing
      /\ Linked(act, i).links[i] = entry
      /\ \A k \in Cases : k # i => Linked(act, i).links[k] = act.links[k]
      /\ Linked(act, i).models = more
      /\ Linked(act, i).journal = journal
  BY <1>1, <1>3, <1>4, <1>5 DEF Activity
<1> QED
  BY <1>6 DEF more, entry

-----------------------------------------------------------------------------
(***************************************************************************)
(* The kinds of steps.                                                     *)
(***************************************************************************)

\* A step that changes neither rows nor case files keeps what is said of them.
LEMMA QuietSound ==
  ASSUME CollectorInv, UNCHANGED <<calls, cases>>
  PROVE  /\ RowsSound' /\ CasesSound' /\ (UNCHANGED journal => JournalSound')
         /\ ModelIds(CallIds)' = ModelIds(CallIds)
<1>1. RowsSound' /\ (UNCHANGED journal => JournalSound')
      /\ ModelIds(CallIds)' = ModelIds(CallIds)
  BY DEF CollectorInv, RowsSound, JournalSound, Status, ModelIds
<1>2. CasesSound'
  <2> SUFFICES ASSUME NEW i \in Cases, cases'[i] # None PROVE CaseSound(i)'
    BY DEF CasesSound
  <2> QED
    BY SameRows DEF CollectorInv, CasesSound, CaseSound
<1> QED
  BY <1>1, <1>2

\* A process that is down.
LEMMA DownTyped == Down.pc = "down" /\ Down \in Collector
BY DEF Down, Collector

\* The process ends, or dies: what it leaves behind is sound.
LEMMA DownSound ==
  ASSUME CollectorInv, UNCHANGED <<storeVars, plan, journal, cases, view, record>>,
         starts' \in 0 .. MaxStarts, sidecar' \in BOOLEAN, collector' = Down, flight' = {}
  PROVE  CollectorInv'
<1>1. Down.pc = "down" /\ Down \in Collector
  BY DownTyped
<1>2. collector'.pc = "down" /\ Place' = "down"
  BY <1>1 DEF Place, At
<1>3. CollectorTypeOK'
  BY <1>1 DEF CollectorInv, CollectorTypeOK, StoreTypeOK, storeVars
<1>4. WorkSound' /\ FilesSound'
  BY <1>2 DEF CollectorInv, WorkSound, FilesSound, At, Held, InHand
<1>5. RowsSound' /\ CasesSound' /\ JournalSound' /\ ModelIds(CallIds)' = ModelIds(CallIds)
  BY QuietSound DEF storeVars
<1>6. JournalCaughtUp' /\ LoopSound'
  BY <1>2 DEF JournalCaughtUp, LoopSound, AtRest, InHand
<1>7. RecordsSound'
  BY <1>2, <1>5 DEF CollectorInv, RecordsSound, Vouches, Held, At
<1> QED
  BY <1>3, <1>4, <1>5, <1>6, <1>7 DEF CollectorInv

\* A step of the executor: it moves rows of the case in hand, and goes on, ends
\* or fails.
LEMMA ExecSound ==
  ASSUME CollectorInv, collector.pc \in {"exec", "hand"}, StoreTypeOK',
         RowsMove(collector.case), UNCHANGED <<fileVars, starts>>, collector' \in Collector,
         collector'.pc \in {"exec", "hand", "build", "fail"},
         collector'.case = collector.case, collector'.activity = collector.activity,
         collector'.pc = "hand" => collector'.call \in RowsOf(collector.case),
         collector'.pc = "fail" => collector'.reason \in StopReason,
         collector'.pc \in {"build", "fail"} => flight' = {},
         flight' \subseteq RowsOf(collector.case)
  PROVE  CollectorInv'
<1> DEFINE i == collector.case
           act == collector.activity
<1>1. /\ Place = collector.pc /\ Place' = collector'.pc
      /\ UNCHANGED <<plan, journal, cases, view, record, sidecar>>
  BY DEF Place, At, fileVars
<1>2. i \in Cases /\ cases[i] = None /\ act = record /\ record # None
  BY <1>1 DEF CollectorInv, WorkSound, FilesSound, JournalCaughtUp, InHand, Held
<1>3. act.calibration = "running" /\ act.reason = "none" /\ ~ClosedBy(act)
  BY <1>1 DEF CollectorInv, LoopSound, ClosedBy
<1>4. /\ RowsSound' /\ CasesSound' /\ ModelIds(CallIds) \subseteq ModelIds(CallIds)'
      /\ \A c \in CallIds \ RowsOf(i) : calls'[c].payload = calls[c].payload
  BY <1>1, <1>2, MoveKeeps DEF CollectorInv, CollectorTypeOK, RowsMove
<1>5. CollectorTypeOK'
  BY <1>1, <1>2, CallsOfCases DEF CollectorInv, CollectorTypeOK
<1>6. WorkSound'
  BY <1>1, <1>2 DEF WorkSound, At, RowsOf
<1>7. FilesSound'
  BY <1>1, <1>2 DEF CollectorInv, FilesSound, Held, At
<1>8. JournalSound'
  BY <1>1 DEF CollectorInv, JournalSound, Status
<1>9. JournalCaughtUp'
  BY <1>1, <1>2 DEF CollectorInv, JournalCaughtUp, Status, AtRest
<1>10. RecordsSound'
  <2>1. VouchesFor(act, cases, journal, view, ModelIds(CallIds))
    BY <1>2 DEF CollectorInv, RecordsSound, Vouches, Held
  <2>2. VouchesFor(act, cases', journal', view', ModelIds(CallIds)')
    BY <1>1, <1>3, <1>4, <2>1, VouchingLasts
  <2> QED
    BY <1>1, <1>2, <1>3, <2>2 DEF RecordsSound, Vouches
<1>11. LoopSound'
  BY <1>1, <1>2, <1>3, <1>4 DEF CollectorInv, LoopSound, InHand, RowsOf
<1> QED
  BY <1>4, <1>5, <1>6, <1>7, <1>8, <1>9, <1>10, <1>11 DEF CollectorInv

\* A failure at a step that moves no rows: the files are as they were.
LEMMA FailSound ==
  ASSUME CollectorInv, UNCHANGED <<storeVars, fileVars, starts>>,
         collector.pc \in {"open", "build", "close", "link", "pause"},
         collector' \in Collector, collector'.pc = "fail", collector'.case = collector.case,
         collector'.reason \in StopReason, flight' = {},
         collector'.activity # None, Vouches(collector'.activity),
         ~ClosedBy(record), ~ClosedBy(collector'.activity)
  PROVE  CollectorInv'
<1>1. /\ Place = collector.pc /\ Place' = "fail"
      /\ UNCHANGED <<calls, plan, journal, cases, view, record, sidecar>>
  BY DEF Place, At, fileVars, storeVars
<1>2. CollectorTypeOK'
  BY DEF CollectorInv, CollectorTypeOK, StoreTypeOK, storeVars, fileVars
<1>3. WorkSound'
  BY <1>1 DEF CollectorInv, WorkSound, At, InHand
<1>4. FilesSound'
  BY <1>1 DEF CollectorInv, FilesSound, Held, At
<1>5. RowsSound' /\ CasesSound' /\ JournalSound' /\ ModelIds(CallIds)' = ModelIds(CallIds)
  BY <1>1, QuietSound
<1>6. JournalCaughtUp' /\ LoopSound'
  BY <1>1 DEF JournalCaughtUp, LoopSound, AtRest, InHand
<1>7. RecordsSound'
  BY <1>1, <1>5 DEF CollectorInv, RecordsSound, Vouches, Held, At
<1> QED
  BY <1>2, <1>3, <1>4, <1>5, <1>6, <1>7 DEF CollectorInv

\* A record is written: the sidecar comes next.
LEMMA PersistSound ==
  ASSUME CollectorInv, UNCHANGED <<storeVars, plan, journal, cases, view, flight, starts>>,
         collector.pc \notin {"exec", "hand", "sidecar"}, journal # None, record' \in Activity,
         Vouches(record'), sidecar' = FALSE,
         collector' \in Collector, collector'.pc = "sidecar", collector'.activity = record',
         collector'.next \in {"exec", "pause"} => collector'.case \in Cases,
         JournalCaughtUp', LoopSound'
  PROVE  CollectorInv'
<1>1. /\ Place' = collector'.next
      /\ UNCHANGED <<calls, plan, journal, cases, view>>
      /\ record' # None
  BY FilesAssumption DEF Place, At, storeVars
<1>2. collector'.next \in {"down", "models", "loop", "exec", "pause"}
  BY DEF Collector
<1>3. flight = {}
  BY DEF CollectorInv, WorkSound, Place, At
<1>4. CollectorTypeOK'
  BY DEF CollectorInv, CollectorTypeOK, StoreTypeOK, storeVars
<1>5. WorkSound'
  BY <1>1, <1>2, <1>3 DEF WorkSound, At, InHand
<1>6. FilesSound'
  BY <1>1 DEF CollectorInv, FilesSound, Held, At
<1>7. RowsSound' /\ CasesSound' /\ JournalSound' /\ ModelIds(CallIds)' = ModelIds(CallIds)
  BY <1>1, QuietSound
<1>8. RecordsSound'
  BY <1>1, <1>7 DEF RecordsSound, Vouches, Held, At
<1> QED
  BY <1>4, <1>5, <1>6, <1>7, <1>8 DEF CollectorInv

-----------------------------------------------------------------------------
(***************************************************************************)
(* The invocation, and the reconciliation of a resume.                     *)
(***************************************************************************)

\* A fresh collection finds no file.
LEMMA FreshSound ==
  ASSUME CollectorInv, NEW batch \in Batches, CollectFresh(batch)
  PROVE  CollectorInv'
<1> DEFINE new == [Down EXCEPT !.pc = "newJournal", !.left = batch]
<1>1. /\ At("down") /\ starts < MaxStarts /\ starts' = starts + 1 /\ plan' = TRUE
      /\ journal = None /\ record = None /\ collector' = new
      /\ UNCHANGED <<storeVars, journal, cases, view, record, sidecar, flight>>
  BY DEF CollectFresh
<1>2. /\ new.pc = "newJournal" /\ new \in Collector
  <2>1. batch \in Nat /\ Down \in Collector
    BY CollectorAssumption, DownTyped
  <2> QED
    BY <2>1 DEF Collector
<1> HIDE DEF new
<1>3. Place' = "newJournal" /\ collector'.pc = "newJournal" /\ Place = "down"
  BY <1>1, <1>2 DEF Place, At
<1>4. CollectorTypeOK'
  BY <1>1, <1>2, CollectorAssumption DEF CollectorInv, CollectorTypeOK, StoreTypeOK, storeVars
<1>5. WorkSound'
  BY <1>1, <1>3 DEF CollectorInv, WorkSound, At, InHand
<1>6. FilesSound'
  BY <1>1, <1>3 DEF CollectorInv, FilesSound, Held, At
<1>7. RowsSound' /\ CasesSound' /\ JournalSound'
  BY <1>1, QuietSound DEF storeVars
<1>8. JournalCaughtUp' /\ LoopSound' /\ RecordsSound'
  BY <1>1, <1>3 DEF JournalCaughtUp, LoopSound, RecordsSound, AtRest, InHand, Held, At
<1> QED
  BY <1>4, <1>5, <1>6, <1>7, <1>8 DEF CollectorInv

\* The new journal has every case pending.
LEMMA NewJournalSound ==
  ASSUME CollectorInv, CreateJournal
  PROVE  CollectorInv'
<1>1. /\ At("newJournal") /\ journal' = NewJournal /\ Goto("newRecord")
      /\ UNCHANGED <<storeVars, plan, cases, view, record, sidecar, flight, starts>>
  BY DEF CreateJournal
<1>2. /\ collector' \in Collector /\ collector'.pc = "newRecord"
  BY <1>1 DEF Goto, CollectorInv, CollectorTypeOK, Collector
<1>3. /\ Place' = "newRecord" /\ Place = "newJournal"
  BY <1>1, <1>2 DEF Place, At
<1>4. NewJournal \in [Cases -> CaseState] /\ NewJournal # None
      /\ \A i \in Cases : NewJournal[i].status = "pending" /\ NewJournal[i].artifact = None
  BY FilesAssumption DEF NewJournal, Entry, CaseState, CaseStatus
<1>5. /\ plan /\ record = None /\ flight = {} /\ \A i \in Cases : cases[i] = None
  BY <1>1, <1>3 DEF CollectorInv, FilesSound, WorkSound
<1>6. CollectorTypeOK'
  BY <1>1, <1>2, <1>4 DEF CollectorInv, CollectorTypeOK, StoreTypeOK, storeVars
<1>7. WorkSound' /\ FilesSound'
  BY <1>1, <1>2, <1>3, <1>4, <1>5 DEF WorkSound, FilesSound, Held, At, InHand
<1>8. RowsSound' /\ CasesSound'
  BY <1>1, QuietSound DEF storeVars
<1>9. JournalSound' /\ JournalCaughtUp'
  BY <1>1, <1>3, <1>4, <1>5 DEF JournalSound, JournalCaughtUp, Status, AtRest
<1>10. LoopSound' /\ RecordsSound'
  BY <1>1, <1>2, <1>3, <1>5 DEF LoopSound, RecordsSound, InHand, Held, At
<1> QED
  BY <1>6, <1>7, <1>8, <1>9, <1>10 DEF CollectorInv

\* The new record vouches for nothing.
LEMMA NewRecordSound ==
  ASSUME CollectorInv, CreateRecord
  PROVE  CollectorInv'
<1> DEFINE act == InitialActivity
<1>1. /\ At("newRecord") /\ record' = act /\ sidecar' = FALSE
      /\ collector' = [collector EXCEPT !.pc = "sidecar", !.next = "models", !.activity = act]
      /\ UNCHANGED <<storeVars, plan, journal, cases, view, flight, starts>>
  BY DEF CreateRecord, Persist
<1>2. /\ journal \in [Cases -> CaseState] /\ journal # None /\ record = None
      /\ \A i \in Cases : cases[i] = None
  BY <1>1 DEF CollectorInv, CollectorTypeOK, FilesSound, At
<1>3. /\ act \in Activity /\ act.billing = FALSE /\ act.calibration = "planned"
      /\ act.models = {} /\ \A i \in Cases : act.links[i] = None
  BY <1>2 DEF InitialActivity, Activity, CampaignStatus
<1> HIDE DEF act
<1>4. /\ collector' \in Collector /\ collector'.pc = "sidecar" /\ collector'.next = "models"
      /\ collector'.activity = act
  BY <1>1, <1>3 DEF CollectorInv, CollectorTypeOK, Collector
<1>5. Place' = "models" /\ Place = "newRecord"
  BY <1>1, <1>4 DEF Place, At
<1>6. Vouches(act)
  BY <1>3 DEF Vouches, VouchesFor, ClosedBy
<1>7. JournalCaughtUp'
  BY <1>1, <1>5 DEF CollectorInv, JournalCaughtUp, Status, AtRest
<1>8. LoopSound'
  BY <1>1, <1>2, <1>5 DEF LoopSound, InHand
<1> QED
  BY <1>1, <1>2, <1>3, <1>4, <1>6, <1>7, <1>8, PersistSound DEF At

\* What reconciliation makes of a journal: the closed cases are complete, no
\* case is running, and a journal that had all cases complete stays.
LEMMA ReconciledJournal ==
  ASSUME CollectorInv, journal # None
  PROVE  /\ Reconciled(journal) \in [Cases -> CaseState]
         /\ \A i \in Cases :
              /\ Reconciled(journal)[i].status # "running"
              /\ Reconciled(journal)[i].status = "complete" <=> cases[i] # None
              /\ Reconciled(journal)[i].artifact = cases[i]
         /\ (\A i \in Cases : Status(i) = "complete") => Reconciled(journal) = journal
<1> DEFINE j == Reconciled(journal)
<1>1. /\ journal \in [Cases -> CaseState] /\ cases \in [Cases -> Case \cup {None}]
  BY DEF CollectorInv, CollectorTypeOK
<1>2. ASSUME NEW i \in Cases
      PROVE  /\ j[i] \in CaseState /\ j[i].status # "running"
             /\ j[i].status = "complete" <=> cases[i] # None
             /\ j[i].artifact = cases[i]
             /\ Status(i) = "complete" => j[i] = journal[i]
  <2>1. journal[i] \in CaseState
        /\ (journal[i].status = "complete" => cases[i] # None /\ journal[i].artifact = cases[i])
        /\ (journal[i].status # "complete" => journal[i].artifact = None)
    BY <1>1 DEF CollectorInv, JournalSound, Status
  <2>2. CASE cases[i] # None
    <3>1. j[i] = [status |-> "complete", artifact |-> cases[i]]
      BY <2>2 DEF Reconciled
    <3>2. journal[i].status = "complete" => journal[i] = [status |-> "complete", artifact |-> cases[i]]
      BY <2>1 DEF CaseState
    <3> QED
      BY <1>1, <2>2, <3>1, <3>2 DEF CaseState, CaseStatus, Status
  <2>3. CASE cases[i] = None /\ journal[i].status = "running"
    <3>1. j[i] = Entry("interrupted")
      BY <2>3 DEF Reconciled
    <3> QED
      BY <2>3, <3>1 DEF Entry, CaseState, CaseStatus, Status
  <2>4. CASE cases[i] = None /\ journal[i].status # "running"
    <3>1. j[i] = journal[i]
      BY <2>4 DEF Reconciled
    <3> QED
      BY <2>1, <2>4, <3>1
  <2> QED
    BY <2>2, <2>3, <2>4
<1>3. j = [i \in Cases |-> j[i]]
  BY DEF Reconciled
<1>4. (\A i \in Cases : Status(i) = "complete") => j = journal
  BY <1>1, <1>2, <1>3
<1> HIDE DEF j
<1> QED
  BY <1>2, <1>3, <1>4 DEF j

\* A resume takes up the journal that reconciliation makes.
LEMMA ResumeSound ==
  ASSUME CollectorInv, NEW batch \in Batches, CollectResume(batch)
  PROVE  CollectorInv'
<1> DEFINE new == [Down EXCEPT !.pc = "audit", !.left = batch, !.activity = record]
           j == Reconciled(journal)
<1>1. /\ At("down") /\ starts < MaxStarts /\ starts' = starts + 1 /\ journal' = j
      /\ plan /\ journal # None /\ record # None /\ sidecar /\ collector' = new
      /\ UNCHANGED <<storeVars, plan, cases, view, record, sidecar, flight>>
  BY DEF CollectResume, ResumeEntryAccepted
<1>2. record \in Activity
  BY <1>1 DEF CollectorInv, CollectorTypeOK
<1>3. new.pc = "audit" /\ new.activity = record /\ new \in Collector
  <2>1. batch \in Nat /\ Down \in Collector
    BY CollectorAssumption, DownTyped
  <2> QED
    BY <1>2, <2>1 DEF Collector
<1>4. /\ j \in [Cases -> CaseState]
      /\ \A i \in Cases : /\ j[i].status # "running"
                          /\ j[i].status = "complete" <=> cases[i] # None
                          /\ j[i].artifact = cases[i]
      /\ (\A i \in Cases : Status(i) = "complete") => j = journal
  BY <1>1, ReconciledJournal
<1> HIDE DEF new, j
<1>5. Place' = "audit" /\ Place = "down" /\ collector'.pc = "audit" /\ collector'.activity = record
  BY <1>1, <1>3 DEF Place, At
<1>6. CollectorTypeOK'
  BY <1>1, <1>3, <1>4, CollectorAssumption DEF CollectorInv, CollectorTypeOK, StoreTypeOK, storeVars
<1>7. WorkSound'
  BY <1>1, <1>5 DEF CollectorInv, WorkSound, At, InHand
<1>8. j # None
  BY <1>4, FilesAssumption
<1>9. FilesSound'
  BY <1>1, <1>5, <1>8 DEF CollectorInv, FilesSound, Held, At
<1>10. RowsSound' /\ CasesSound' /\ ModelIds(CallIds)' = ModelIds(CallIds)
  BY <1>1, QuietSound DEF storeVars
<1>11. JournalSound' /\ JournalCaughtUp'
  BY <1>1, <1>4, <1>5 DEF JournalSound, JournalCaughtUp, Status, AtRest
<1>12. LoopSound'
  BY <1>5 DEF LoopSound, InHand
<1>13. Vouches(record)
  BY <1>1 DEF CollectorInv, RecordsSound
<1>14. VouchesFor(record, cases', journal', view', ModelIds(CallIds)')
  <2>1. ClosedBy(record) => journal' = journal /\ view' = cases'
    BY <1>1, <1>4, <1>13 DEF Vouches, VouchesFor, Status
  <2> QED
    BY <1>1, <1>10, <1>13, <2>1, VouchingLasts DEF Vouches
<1>15. RecordsSound'
  BY <1>1, <1>5, <1>14 DEF RecordsSound, Vouches, At
<1> QED
  BY <1>6, <1>7, <1>9, <1>10, <1>11, <1>12, <1>15 DEF CollectorInv

\* While the collector is between cases, the record in memory is the one on
\* disk, and it vouches.
LEMMA RecordHeld ==
  ASSUME CollectorInv, Held
  PROVE  /\ record \in Activity /\ collector.activity \in Activity
         /\ journal \in [Cases -> CaseState] /\ journal # None /\ plan
         /\ Vouches(record) /\ Vouches(collector.activity)
         /\ collector.pc \notin {"relink", "fail", "failRecord"} => collector.activity = record
         /\ ~At("sidecar") => sidecar
BY DEF CollectorInv, CollectorTypeOK, Collector, FilesSound, RecordsSound

\* A step that changes the collector's place only.
LEMMA GotoKeeps ==
  ASSUME collector \in Collector, NEW pc \in {"relink", "loop", "close", "link", "failRecord", "finish"},
         Goto(pc)
  PROVE  /\ collector' \in Collector /\ collector'.pc = pc /\ Place' = pc
         /\ collector'.case = collector.case /\ collector'.activity = collector.activity
         /\ collector'.reason = collector.reason
BY DEF Goto, Collector, Place, At

\* The audit requeues the stopped cases, or leaves the journal as it is.
LEMMA AuditSound ==
  ASSUME CollectorInv, AuditLedger
  PROVE  CollectorInv'
<1> DEFINE j == Requeued(journal)
           act == collector.activity
           running == Running(act)
<1>1. /\ At("audit") /\ UNCHANGED <<storeVars, plan, cases, view, record, sidecar, flight, starts>>
      /\ \/ /\ act.reason = "billing_uncertain" /\ journal' = j
            /\ collector' = [collector EXCEPT !.pc = "relink", !.activity = running]
         \/ Goto("relink") /\ UNCHANGED journal
         \/ collector' = Down /\ UNCHANGED journal
  BY DEF AuditLedger
<1>2. Held /\ Place = "audit" /\ collector \in Collector /\ flight = {}
  BY <1>1 DEF CollectorInv, CollectorTypeOK, Held, At, Place, WorkSound
<1>3. /\ record \in Activity /\ act = record /\ Vouches(record) /\ sidecar /\ plan
      /\ journal \in [Cases -> CaseState] /\ journal # None /\ record # None
  BY <1>1, <1>2, RecordHeld, FilesAssumption DEF At
<1>4. /\ running \in Activity /\ running.calibration = "running" /\ running.billing = FALSE
      /\ running.links = act.links /\ running.models = act.models
  BY <1>3, RunningRecord
<1>5. CASE collector' = Down /\ UNCHANGED journal
  BY <1>1, <1>2, <1>5, DownSound DEF CollectorInv, CollectorTypeOK
<1>6. ASSUME collector' \in Collector, collector'.pc = "relink", Place' = "relink",
             journal' \in [Cases -> CaseState],
             collector'.activity \in Activity, Vouches(collector'.activity),
             ~ClosedBy(collector'.activity) \/ UNCHANGED journal,
             ~ClosedBy(record) \/ UNCHANGED journal,
             \A i \in Cases :
               /\ journal'[i].status = "complete" <=> Status(i) = "complete"
               /\ journal'[i].artifact = journal[i].artifact
               /\ journal'[i].status # "running"
      PROVE  CollectorInv'
  <2>1. journal' # None /\ collector'.activity # None
    BY <1>6, FilesAssumption
  <2>2. CollectorTypeOK'
    BY <1>1, <1>6 DEF CollectorInv, CollectorTypeOK, StoreTypeOK, storeVars
  <2>3. WorkSound' /\ FilesSound'
    BY <1>1, <1>2, <1>3, <1>6, <2>1 DEF WorkSound, FilesSound, Held, At, InHand
  <2>4. RowsSound' /\ CasesSound' /\ ModelIds(CallIds)' = ModelIds(CallIds)
    BY <1>1, QuietSound DEF storeVars
  <2>5. JournalSound' /\ JournalCaughtUp'
    BY <1>1, <1>2, <1>3, <1>6 DEF CollectorInv, JournalSound, JournalCaughtUp, Status, AtRest
  <2>6. LoopSound'
    BY <1>6 DEF LoopSound, InHand
  <2>7. VouchesFor(record, cases', journal', view', ModelIds(CallIds)')
    BY <1>1, <1>3, <1>6, <2>4, VouchingLasts DEF Vouches, VouchesFor
  <2>8. VouchesFor(collector'.activity, cases', journal', view', ModelIds(CallIds)')
    BY <1>1, <1>6, <2>4, VouchingLasts DEF Vouches, VouchesFor
  <2> QED
    BY <1>1, <1>6, <2>2, <2>3, <2>4, <2>5, <2>6, <2>7, <2>8
       DEF CollectorInv, RecordsSound, Vouches, At
<1>7. CASE Goto("relink") /\ UNCHANGED journal
  <2>1. collector' \in Collector /\ collector'.pc = "relink" /\ Place' = "relink"
        /\ collector'.activity = act
    BY <1>2, <1>7, GotoKeeps
  <2>2. \A i \in Cases : Status(i) # "running"
    BY <1>2 DEF CollectorInv, JournalCaughtUp, AtRest
  <2> QED
    BY <1>3, <1>6, <1>7, <2>1, <2>2 DEF Status
<1>8. CASE /\ act.reason = "billing_uncertain" /\ journal' = j
           /\ collector' = [collector EXCEPT !.pc = "relink", !.activity = running]
  <2> HIDE DEF running
  <2>1. collector' \in Collector /\ collector'.pc = "relink" /\ collector'.activity = running
    BY <1>2, <1>4, <1>8 DEF Collector
  <2>2. Place' = "relink"
    BY <2>1 DEF Place, At
  <2>3. ASSUME NEW i \in Cases
        PROVE  /\ j[i] \in CaseState /\ j[i].artifact = journal[i].artifact
               /\ j[i].status = "complete" <=> Status(i) = "complete"
               /\ j[i].status # "running"
    <3>1. /\ journal[i] \in CaseState /\ Status(i) # "running"
          /\ Status(i) # "complete" => journal[i].artifact = None
      BY <1>2, <1>3 DEF CollectorInv, JournalSound, JournalCaughtUp, AtRest
    <3>2. j[i] = IF journal[i].status = "stopped" THEN Entry("pending") ELSE journal[i]
      BY DEF Requeued
    <3> QED
      BY <3>1, <3>2 DEF Entry, CaseState, CaseStatus, Status
  <2>4. j = [i \in Cases |-> j[i]]
    BY DEF Requeued
  <2> HIDE DEF j
  <2>5. j \in [Cases -> CaseState]
    BY <2>3, <2>4
  <2>6. Vouches(running) /\ ~ClosedBy(running)
    BY <1>3, <1>4 DEF Vouches, VouchesFor, ClosedBy
  <2>7. ~ClosedBy(record)
    BY <1>3, <1>8 DEF ClosedBy
  <2> QED
    BY <1>4, <1>6, <1>8, <2>1, <2>2, <2>3, <2>5, <2>6, <2>7
<1> QED
  BY <1>1, <1>5, <1>7, <1>8

\* The collector on its way to write a record that it holds.
LEMMA PersistKeeps ==
  ASSUME collector \in Collector, NEW act \in Activity,
         NEW next \in {"down", "models", "loop", "exec", "pause"}, Persist(act, next)
  PROVE  /\ collector' \in Collector /\ collector'.pc = "sidecar" /\ collector'.next = next
         /\ collector'.activity = act /\ collector'.case = collector.case
         /\ Place' = next /\ record' = act /\ sidecar' = FALSE
<1>1. /\ collector' = [collector EXCEPT !.pc = "sidecar", !.next = next, !.activity = act]
      /\ record' = act /\ sidecar' = FALSE
  BY DEF Persist
<1>2. /\ collector' \in Collector /\ collector'.pc = "sidecar" /\ collector'.next = next
      /\ collector'.activity = act /\ collector'.case = collector.case
  BY <1>1 DEF Collector
<1> QED
  BY <1>1, <1>2 DEF Place, At

\* The links a resume adds are those of the closed cases.
LEMMA RelinkedRecord ==
  ASSUME CollectorInv, At("relink")
  PROVE  LET act == collector.activity IN
         /\ Relinked(act) \in Activity /\ Vouches(Relinked(act))
         /\ Relinked(act).calibration = act.calibration /\ Relinked(act).reason = act.reason
         /\ \A i \in Cases : cases[i] # None => Relinked(act).links[i] # None
<1> DEFINE act == collector.activity
           links == [i \in Cases |-> IF Status(i) = "complete" THEN journal[i].artifact
                                    ELSE act.links[i]]
<1>1. Held /\ Place = "relink"
  BY DEF Held, At, Place
<1>2. /\ act \in Activity /\ Vouches(act) /\ journal \in [Cases -> CaseState] /\ journal # None
      /\ cases \in [Cases -> Case \cup {None}]
  BY <1>1, RecordHeld DEF CollectorInv, CollectorTypeOK
<1>3. ASSUME NEW i \in Cases
      PROVE  /\ links[i] \in {None, cases[i]}
             /\ cases[i] # None => links[i] = cases[i]
             /\ act.links[i] # None => links[i] = cases[i]
  <2>1. /\ Status(i) = "complete" => cases[i] # None /\ journal[i].artifact = cases[i]
        /\ cases[i] # None => Status(i) = "complete"
    BY <1>1, <1>2 DEF CollectorInv, JournalSound, JournalCaughtUp, AtRest
  <2>2. act.links[i] # None => act.links[i] = cases[i]
    BY <1>2 DEF Vouches, VouchesFor
  <2> QED
    BY <2>1, <2>2
<1>4. links \in [Cases -> Case \cup {None}]
  <2>1. \A i \in Cases : links[i] \in Case \cup {None}
    BY <1>2, <1>3
  <2>2. links = [i \in Cases |-> links[i]]
    OBVIOUS
  <2> HIDE DEF links
  <2> QED
    BY <2>1, <2>2
<1>5. Relinked(act) = [act EXCEPT !.links = links, !.journal = journal]
  BY <1>2, Zenon DEF Relinked, Activity
<1> HIDE DEF links
<1>6. /\ Relinked(act) \in Activity /\ Relinked(act).calibration = act.calibration
      /\ Relinked(act).reason = act.reason /\ Relinked(act).billing = act.billing
      /\ Relinked(act).links = links /\ Relinked(act).models = act.models
      /\ Relinked(act).journal = journal
  BY <1>2, <1>4, <1>5 DEF Activity
<1>7. Vouches(Relinked(act))
  BY <1>2, <1>3, <1>6 DEF Vouches, VouchesFor, ClosedBy
<1> QED
  BY <1>3, <1>6, <1>7

\* Linking what is closed is sound, and a stop that an interruption or a pause
\* left is lifted.
LEMMA RelinkSound ==
  ASSUME CollectorInv, RelinkCases
  PROVE  CollectorInv'
<1> DEFINE act == Relinked(collector.activity)
           new == IF act.reason \in {"process_interruption", "user_paused"} THEN Running(act) ELSE act
<1>1. /\ At("relink") /\ UNCHANGED <<storeVars, plan, journal, cases, view, flight, starts>>
      /\ \/ Persist(new, "models")
         \/ collector' = Down /\ UNCHANGED <<record, sidecar>>
  BY DEF RelinkCases
<1>2. Held /\ Place = "relink" /\ collector \in Collector /\ flight = {}
  BY <1>1 DEF CollectorInv, CollectorTypeOK, Held, At, Place, WorkSound
<1>3. /\ act \in Activity /\ Vouches(act)
      /\ \A i \in Cases : cases[i] # None => act.links[i] # None
  BY <1>1, RelinkedRecord
<1>4. /\ new \in Activity /\ Vouches(new)
      /\ \A i \in Cases : cases[i] # None => new.links[i] # None
  <2> HIDE DEF act
  <2>1. /\ Running(act) \in Activity /\ Running(act).calibration = "running"
        /\ Running(act).billing = FALSE /\ Running(act).links = act.links
        /\ Running(act).models = act.models
    BY <1>3, RunningRecord
  <2>2. Vouches(Running(act))
    BY <1>3, <2>1 DEF Vouches, VouchesFor, ClosedBy
  <2> QED
    BY <1>3, <2>1, <2>2
<1> HIDE DEF new, act
<1>5. CASE collector' = Down /\ UNCHANGED <<record, sidecar>>
  BY <1>1, <1>2, <1>5, DownSound DEF CollectorInv, CollectorTypeOK
<1>6. CASE Persist(new, "models")
  <2>1. /\ collector' \in Collector /\ collector'.pc = "sidecar" /\ collector'.next = "models"
        /\ collector'.activity = new /\ Place' = "models" /\ record' = new /\ sidecar' = FALSE
    BY <1>2, <1>4, <1>6, PersistKeeps
  <2>2. JournalCaughtUp'
    BY <1>1, <1>2, <2>1 DEF CollectorInv, JournalCaughtUp, Status, AtRest
  <2>3. LoopSound'
    BY <1>1, <1>4, <2>1 DEF LoopSound, InHand
  <2>4. journal # None
    BY <1>2, RecordHeld
  <2> QED
    BY <1>1, <1>4, <2>1, <2>2, <2>3, <2>4, PersistSound DEF At
<1> QED
  BY <1>1, <1>5, <1>6

\* The model check goes on to the loop when the ledger and the record know one
\* model at most, which is then on record.
LEMMA ModelCheckSound ==
  ASSUME CollectorInv, CheckModels
  PROVE  CollectorInv'
<1> DEFINE act == collector.activity
           models == act.models \cup ModelIds(CallIds)
           new == [act EXCEPT !.models = models]
<1>1. /\ At("models") /\ UNCHANGED <<storeVars, plan, journal, cases, view, flight, starts>>
      /\ \/ ~(Cardinality(models) > 1) /\ models # act.models /\ Persist(new, "loop")
         \/ /\ ~(Cardinality(models) > 1) /\ models = act.models
            /\ Goto("loop") /\ UNCHANGED <<record, sidecar>>
         \/ collector' = Down /\ UNCHANGED <<record, sidecar>>
  BY DEF CheckModels
<1>2. Held /\ Place = "models" /\ collector \in Collector /\ flight = {}
  BY <1>1 DEF CollectorInv, CollectorTypeOK, Held, At, Place, WorkSound
<1>3. /\ record \in Activity /\ act = record /\ Vouches(act) /\ sidecar /\ journal # None /\ plan
  BY <1>1, <1>2, RecordHeld DEF At
<1>4. models = ModelIds(CallIds) /\ models \in SUBSET Payloads /\ IsFiniteSet(models)
  BY <1>3, ModelsFinite, ModelsTyped DEF Vouches, VouchesFor, CollectorInv, CollectorTypeOK
<1>5. \A c \in CallIds : calls[c].payload # None => calls[c].payload \in models
  BY <1>4 DEF ModelIds
<1>6. \A i \in Cases : cases[i] # None => act.links[i] # None
  BY <1>2 DEF CollectorInv, LoopSound
<1> HIDE DEF models
<1>7. CASE collector' = Down /\ UNCHANGED <<record, sidecar>>
  BY <1>1, <1>2, <1>7, DownSound DEF CollectorInv, CollectorTypeOK
<1>8. CASE ~(Cardinality(models) > 1) /\ models # act.models /\ Persist(new, "loop")
  <2>1. /\ new \in Activity /\ new.models = models /\ new.links = act.links
        /\ new.calibration = act.calibration /\ new.reason = act.reason
        /\ new.billing = act.billing
    BY <1>3, <1>4 DEF Activity
  <2> HIDE DEF new
  <2>2. /\ collector' \in Collector /\ collector'.pc = "sidecar" /\ collector'.next = "loop"
        /\ collector'.activity = new /\ Place' = "loop" /\ record' = new /\ sidecar' = FALSE
    BY <1>2, <1>8, <2>1, PersistKeeps
  <2>3. Vouches(new)
    BY <1>3, <1>4, <1>8, <2>1 DEF Vouches, VouchesFor, ClosedBy
  <2>4. JournalCaughtUp'
    BY <1>1, <1>2, <2>2 DEF CollectorInv, JournalCaughtUp, Status, AtRest
  <2>5. \A m, n \in models : m = n
    BY <1>4, <1>8, OneElement
  <2>6. LoopSound'
    BY <1>1, <1>5, <1>6, <2>1, <2>2, <2>5 DEF LoopSound, InHand, storeVars
  <2> QED
    BY <1>1, <1>3, <2>1, <2>2, <2>3, <2>4, <2>6, PersistSound DEF At
<1>9. CASE /\ ~(Cardinality(models) > 1) /\ models = act.models
           /\ Goto("loop") /\ UNCHANGED <<record, sidecar>>
  <2>1. /\ collector' \in Collector /\ collector'.pc = "loop" /\ Place' = "loop"
        /\ collector'.activity = act
    BY <1>2, <1>9, GotoKeeps
  <2>2. CollectorTypeOK'
    BY <1>1, <1>9, <2>1 DEF CollectorInv, CollectorTypeOK, StoreTypeOK, storeVars
  <2>3. WorkSound' /\ FilesSound'
    BY <1>1, <1>2, <1>3, <1>9, <2>1 DEF CollectorInv, WorkSound, FilesSound, Held, At, InHand
  <2>4. RowsSound' /\ CasesSound' /\ JournalSound' /\ ModelIds(CallIds)' = ModelIds(CallIds)
    BY <1>1, QuietSound DEF storeVars
  <2>5. JournalCaughtUp'
    BY <1>1, <1>2, <2>1 DEF CollectorInv, JournalCaughtUp, Status, AtRest
  <2>6. RecordsSound'
    BY <1>1, <1>3, <1>9, <2>1, <2>4 DEF RecordsSound, Vouches, At
  <2>7. \A m, n \in models : m = n
    BY <1>4, <1>9, OneElement
  <2>8. LoopSound'
    BY <1>1, <1>5, <1>6, <1>9, <2>1, <2>7 DEF LoopSound, InHand, storeVars
  <2> QED
    BY <2>2, <2>3, <2>4, <2>5, <2>6, <2>8 DEF CollectorInv
<1> QED
  BY <1>1, <1>7, <1>8, <1>9

-----------------------------------------------------------------------------
(***************************************************************************)
(* The loop over the cases.                                                *)
(***************************************************************************)

\* The next case is the first that is not complete.
LEMMA NextCase ==
  ASSUME Open # {}
  PROVE  /\ Min(Open) \in Cases /\ Status(Min(Open)) # "complete"
         /\ \A k \in 1 .. Min(Open) - 1 : k \in Cases /\ Status(k) = "complete"
<1>1. Open \subseteq Nat /\ Open \subseteq Cases
  BY CollectorAssumption DEF Open, Cases
<1>2. Min(Open) \in Open /\ \A n \in Open : Min(Open) <= n
  BY <1>1, MinIsLeast
<1>3. Min(Open) \in 1 .. N /\ N \in Nat /\ Status(Min(Open)) # "complete"
  BY <1>1, <1>2, CollectorAssumption DEF Open, Cases
<1>4. ASSUME NEW k \in 1 .. Min(Open) - 1 PROVE k \in Cases /\ Status(k) = "complete"
  <2>1. k \in 1 .. N /\ k \in Nat /\ k < Min(Open)
    BY <1>3
  <2>2. k \notin Open
    BY <1>2, <1>3, <2>1
  <2> QED
    BY <2>1, <2>2 DEF Open, Cases
<1> QED
  BY <1>3, <1>4 DEF Cases

\* A case is begun when no case is running and the ones before it are closed.
LEMMA BeginSound ==
  ASSUME CollectorInv, BeginCase
  PROVE  CollectorInv'
<1> DEFINE i == Min(Open)
           act == collector.activity
           j == [journal EXCEPT ![i] = Entry("running")]
<1>1. /\ At("loop") /\ Open # {}
      /\ UNCHANGED <<storeVars, plan, cases, view, record, sidecar, flight, starts>>
      /\ \/ collector' = Down /\ UNCHANGED journal
         \/ journal' = j /\ collector' = [collector EXCEPT !.pc = "open", !.case = i]
  BY DEF BeginCase
<1>2. Held /\ Place = "loop" /\ collector \in Collector /\ flight = {}
  BY <1>1 DEF CollectorInv, CollectorTypeOK, Held, At, Place, WorkSound
<1>3. /\ record \in Activity /\ act = record /\ Vouches(act) /\ sidecar /\ plan
      /\ journal \in [Cases -> CaseState] /\ journal # None /\ record # None
  BY <1>1, <1>2, RecordHeld, FilesAssumption DEF At
<1>4. /\ i \in Cases /\ Status(i) # "complete"
      /\ \A k \in 1 .. i - 1 : k \in Cases /\ Status(k) = "complete"
  BY <1>1, NextCase
<1> HIDE DEF i
<1>5. \A k \in Cases : Status(k) # "running" /\ (cases[k] # None <=> Status(k) = "complete")
  BY <1>2, <1>3 DEF CollectorInv, JournalCaughtUp, JournalSound, AtRest
<1>6. CASE collector' = Down /\ UNCHANGED journal
  BY <1>1, <1>2, <1>6, DownSound DEF CollectorInv, CollectorTypeOK
<1>7. CASE journal' = j /\ collector' = [collector EXCEPT !.pc = "open", !.case = i]
  <2>1. /\ collector' \in Collector /\ collector'.pc = "open" /\ collector'.case = i
        /\ collector'.activity = act
    BY <1>2, <1>4, <1>7 DEF Collector
  <2>2. Place' = "open"
    BY <2>1 DEF Place, At
  <2>3. /\ j \in [Cases -> CaseState] /\ j[i].status = "running" /\ j[i].artifact = None
        /\ \A k \in Cases : k # i => j[k] = journal[k]
    BY <1>3, <1>4 DEF Entry, CaseState, CaseStatus
  <2> HIDE DEF j
  <2>4. CollectorTypeOK'
    BY <1>1, <1>7, <2>1, <2>3 DEF CollectorInv, CollectorTypeOK, StoreTypeOK, storeVars
  <2>5. j # None
    BY <2>3, FilesAssumption
  <2>6. WorkSound' /\ FilesSound'
    BY <1>1, <1>2, <1>3, <1>4, <1>7, <2>1, <2>2, <2>5 DEF WorkSound, FilesSound, Held, At, InHand
  <2>7. RowsSound' /\ CasesSound' /\ ModelIds(CallIds)' = ModelIds(CallIds)
    BY <1>1, QuietSound DEF storeVars
  <2>8. JournalSound'
    BY <1>1, <1>3, <1>5, <1>7, <2>3 DEF CollectorInv, JournalSound, Status
  <2>9. JournalCaughtUp'
    BY <1>1, <1>4, <1>5, <1>7, <2>1, <2>2, <2>3 DEF JournalCaughtUp, Status, AtRest
  <2>10. RecordsSound'
    <3>1. ~ClosedBy(act)
      BY <1>3, <1>4 DEF Vouches, VouchesFor, Status
    <3>2. VouchesFor(act, cases', journal', view', ModelIds(CallIds)')
      BY <1>1, <1>3, <2>7, <3>1, VouchingLasts DEF Vouches
    <3> QED
      BY <1>1, <1>3, <2>1, <3>2 DEF RecordsSound, Vouches, At
  <2>11. LoopSound'
    BY <1>1, <1>2, <2>1, <2>2 DEF CollectorInv, LoopSound, InHand, storeVars
  <2> QED
    BY <2>4, <2>6, <2>7, <2>8, <2>9, <2>10, <2>11 DEF CollectorInv
<1> QED
  BY <1>1, <1>6, <1>7

\* The phase is opened on record, unless a stop forbids it.
LEMMA OpenSound ==
  ASSUME CollectorInv, OpenPhase
  PROVE  CollectorInv'
<1> DEFINE act == collector.activity
           new == Opened(act)
<1>1. /\ At("open") /\ UNCHANGED <<storeVars, plan, journal, cases, view, starts>>
      /\ \/ /\ MayRun(act) /\ record' = new /\ sidecar' = FALSE /\ UNCHANGED flight
            /\ collector' = [collector EXCEPT !.pc = "sidecar", !.next = "exec",
                                              !.activity = new, !.run = 1]
         \/ ~MayRun(act) /\ Fail("internal_error") /\ UNCHANGED <<record, sidecar>>
  BY DEF OpenPhase
<1>2. Held /\ Place = "open" /\ collector \in Collector /\ flight = {}
  BY <1>1 DEF CollectorInv, CollectorTypeOK, Held, At, Place, WorkSound
<1>3. /\ record \in Activity /\ act = record /\ Vouches(act) /\ sidecar /\ plan
      /\ journal \in [Cases -> CaseState] /\ journal # None /\ act # None
  BY <1>1, <1>2, RecordHeld, FilesAssumption DEF At
<1>4. collector.case \in Cases /\ Status(collector.case) = "running"
  BY <1>2 DEF CollectorInv, WorkSound, JournalCaughtUp, InHand
<1>5. CASE /\ MayRun(act) /\ record' = new /\ sidecar' = FALSE /\ UNCHANGED flight
           /\ collector' = [collector EXCEPT !.pc = "sidecar", !.next = "exec",
                                             !.activity = new, !.run = 1]
  <2>1. /\ new \in Activity /\ new.calibration = "running" /\ new.reason = act.reason
        /\ new.billing = act.billing /\ new.links = act.links
        /\ new.models = act.models /\ act.reason = "none"
    BY <1>3, <1>5, OpenedRecord DEF MayRun
  <2> HIDE DEF new
  <2>2. /\ collector' \in Collector /\ collector'.pc = "sidecar" /\ collector'.next = "exec"
        /\ collector'.activity = new /\ collector'.case = collector.case
    <3>1. 1 \in 0 .. Len(Runs)
      BY DEF Runs
    <3> QED
      BY <1>2, <1>5, <2>1, <3>1 DEF Collector
  <2>3. Place' = "exec"
    BY <2>2 DEF Place, At
  <2>4. Vouches(new)
    BY <1>3, <2>1 DEF Vouches, VouchesFor, ClosedBy
  <2>5. JournalCaughtUp'
    BY <1>1, <1>2, <2>2, <2>3 DEF CollectorInv, JournalCaughtUp, Status, AtRest
  <2>6. LoopSound'
    BY <1>1, <1>2, <2>1, <2>2, <2>3 DEF CollectorInv, LoopSound, InHand, storeVars
  <2> QED
    BY <1>1, <1>3, <1>4, <1>5, <2>1, <2>2, <2>4, <2>5, <2>6, PersistSound DEF At
<1>6. CASE ~MayRun(act) /\ Fail("internal_error") /\ UNCHANGED <<record, sidecar>>
  <2>1. /\ collector' \in Collector /\ collector'.pc = "fail" /\ collector'.reason = "internal_error"
        /\ collector'.activity = act /\ collector'.case = collector.case /\ flight' = {}
        /\ collector'.reason \in StopReason
    BY <1>2, <1>6, TheReasons DEF Fail, Collector
  <2>2. ~ClosedBy(act)
    BY <1>3, <1>4 DEF Vouches, VouchesFor, Status
  <2> QED
    BY <1>1, <1>3, <1>6, <2>1, <2>2, FailSound DEF At, fileVars
<1> QED
  BY <1>1, <1>5, <1>6

\* An exception while the executor is at work.
LEMMA FailKeeps ==
  ASSUME collector \in Collector, NEW reason \in StopReason, Fail(reason)
  PROVE  /\ collector' \in Collector /\ collector'.pc = "fail" /\ collector'.reason = reason
         /\ collector'.case = collector.case /\ collector'.activity = collector.activity
         /\ flight' = {}
BY DEF Fail, Collector

\* Every step of the executor is a step of it on the case in hand.
LEMMA ExecutorSound ==
  ASSUME CollectorInv,
         \/ \E t \in Tasks : CallReserve(t) \/ CallReuseStops(t)
         \/ CallHandOver \/ RunFails \/ RunEnds
         \/ \E c \in CallIds : CallAnswer(c) \/ CallTransportFails(c)
  PROVE  CollectorInv' /\ RowsMove(collector.case) /\ UNCHANGED fileVars
<1> DEFINE i == collector.case
<1>1. collector.pc \in {"exec", "hand"} /\ Place = collector.pc /\ UNCHANGED <<fileVars, starts>>
  BY DEF CallReserve, CallReuseStops, CallHandOver, RunFails, RunEnds, CallAnswer,
         CallTransportFails, At, Place
<1>2. /\ i \in Cases /\ flight \subseteq RowsOf(i) /\ collector \in Collector
      /\ StoreTypeOK /\ RowsSound /\ RowsOf(i) \subseteq CallIds
      /\ (At("hand") => collector.call \in RowsOf(i))
  BY <1>1, CallsOfCases DEF CollectorInv, CollectorTypeOK, WorkSound, InHand
<1>3. {"budget", "usage_missing", "billing_uncertain", "internal_error"} \subseteq StopReason
  BY TheReasons
<1>4. ASSUME UNCHANGED storeVars PROVE StoreTypeOK' /\ RowsMove(i)
  BY <1>2, <1>4 DEF StoreTypeOK, RowsSound, RowsMove, storeVars
<1>5. ASSUME NEW pc, collector' = [collector EXCEPT !.pc = pc], pc \in {"exec", "build"}
      PROVE  /\ collector' \in Collector /\ collector'.pc = pc /\ collector'.case = i
             /\ collector'.activity = collector.activity
  BY <1>2, <1>5 DEF Collector
<1>6. TheRequest \in Requests
  BY CollectorAssumption DEF TheRequest
<1>7. ASSUME NEW t \in Tasks, CallReserve(t) PROVE CollectorInv' /\ RowsMove(i)
  <2> DEFINE c == <<i, t>>
  <2>1. c \in RowsOf(i) /\ c \in CallIds
    BY <1>2, CallsOfCases
  <2>2. PICK amount \in Estimates :
          \/ /\ ReserveCall(c, TheRequest, c, amount)
             /\ collector' = [collector EXCEPT !.pc = "hand", !.call = c] /\ UNCHANGED flight
          \/ /\ collector' = [collector EXCEPT !.pc = "hand", !.call = c]
             /\ UNCHANGED <<storeVars, flight>>
          \/ Fail("budget") /\ UNCHANGED storeVars
    BY <1>7 DEF CallReserve
  <2> HIDE DEF c
  <2>3. CASE collector' = [collector EXCEPT !.pc = "hand", !.call = c] /\ UNCHANGED flight
    <3>1. /\ collector' \in Collector /\ collector'.pc = "hand" /\ collector'.call = c
          /\ collector'.case = i /\ collector'.activity = collector.activity
      BY <1>2, <2>1, <2>3 DEF Collector
    <3>2. StoreTypeOK' /\ RowsMove(i)
      <4>1. CASE UNCHANGED storeVars
        BY <1>4, <4>1
      <4>2. CASE ReserveCall(c, TheRequest, c, amount)
        <5>1. StoreNext
          BY <1>6, <2>1, <4>2, CollectorAssumption DEF StoreNext
        <5>2. StoreTypeOK'
          BY <1>2, <5>1, StoreTypeStep
        <5>3. RowsMove(i)
          BY <1>2, <1>6, <2>1, <4>2, TransactionsMove
        <5> QED
          BY <5>2, <5>3
      <4>3. ~Fail("budget")
        BY <3>1, <1>3, <1>2, FailKeeps
      <4> QED
        BY <2>2, <4>1, <4>2, <4>3 DEF storeVars
    <3> QED
      BY <1>1, <1>2, <2>1, <2>3, <3>1, <3>2, ExecSound
  <2>4. CASE Fail("budget") /\ UNCHANGED storeVars
    BY <1>1, <1>2, <1>3, <1>4, <2>4, FailKeeps, ExecSound
  <2> QED
    BY <2>2, <2>3, <2>4
<1>8. CASE CallHandOver
  <2> DEFINE c == collector.call
  <2>1. /\ c \in RowsOf(i) /\ c \in CallIds /\ MarkSent(c)
        /\ collector' = [collector EXCEPT !.pc = "exec", !.call = None] /\ flight' = flight \cup {c}
    BY <1>2, <1>8 DEF CallHandOver
  <2>2. /\ collector' \in Collector /\ collector'.pc = "exec" /\ collector'.case = i
        /\ collector'.activity = collector.activity
    BY <1>2, <2>1 DEF Collector
  <2>3. StoreTypeOK' /\ RowsMove(i)
    <3>1. StoreNext
      BY <2>1 DEF StoreNext
    <3> QED
      BY <1>2, <2>1, <3>1, StoreTypeStep, TransactionsMove
  <2> QED
    BY <1>1, <1>2, <2>1, <2>2, <2>3, ExecSound
<1>9. ASSUME NEW c \in CallIds, CallAnswer(c) PROVE CollectorInv' /\ RowsMove(i)
  <2>1. PICK usage \in Usages, model \in Payloads :
          /\ CompleteCall(c, TheRequest, model, usage)
          /\ \/ Fail("budget") \/ Fail("usage_missing")
             \/ flight' = flight \ {c} /\ UNCHANGED collector
    BY <1>9 DEF CallAnswer
  <2>2. c \in RowsOf(i)
    BY <1>2, <1>9 DEF CallAnswer
  <2>3. StoreTypeOK' /\ RowsMove(i)
    <3>1. StoreNext
      BY <1>6, <2>1 DEF StoreNext
    <3>2. RowsMove(i)
      BY <1>2, <1>6, <2>1, <2>2, TransactionsMove
    <3> QED
      BY <1>2, <3>1, <3>2, StoreTypeStep
  <2>4. CASE flight' = flight \ {c} /\ UNCHANGED collector
    <3>1. collector.pc = "exec"
      BY <1>9 DEF CallAnswer, At
    <3> QED
      BY <1>1, <1>2, <2>3, <2>4, <3>1, ExecSound
  <2>5. CASE Fail("budget") \/ Fail("usage_missing")
    <3>1. PICK reason \in {"budget", "usage_missing"} : Fail(reason)
      BY <2>5
    <3> QED
      BY <1>1, <1>2, <1>3, <2>3, <3>1, FailKeeps, ExecSound
  <2> QED
    BY <2>1, <2>4, <2>5
<1>10. ASSUME NEW c \in CallIds, CallTransportFails(c) PROVE CollectorInv' /\ RowsMove(i)
  <2>1. MarkBillingUncertain(c) /\ Fail("billing_uncertain")
    BY <1>10 DEF CallTransportFails
  <2>2. StoreTypeOK' /\ RowsMove(i)
    <3>1. StoreNext
      BY <2>1 DEF StoreNext
    <3> QED
      BY <1>2, <2>1, <3>1, StoreTypeStep, TransactionsMove
  <2> QED
    BY <1>1, <1>2, <1>3, <2>1, <2>2, FailKeeps, ExecSound
<1>11. ASSUME NEW t \in Tasks, CallReuseStops(t) PROVE CollectorInv' /\ RowsMove(i)
  <2>1. Fail("usage_missing") /\ UNCHANGED storeVars
    BY <1>11 DEF CallReuseStops
  <2> QED
    BY <1>1, <1>2, <1>3, <1>4, <2>1, FailKeeps, ExecSound
<1>12. CASE RunFails
  <2>1. Fail("internal_error") /\ UNCHANGED storeVars
    BY <1>12 DEF RunFails
  <2> QED
    BY <1>1, <1>2, <1>3, <1>4, <2>1, FailKeeps, ExecSound
<1>13. CASE RunEnds
  <2>1. UNCHANGED storeVars /\ flight = {} /\ flight' = {} /\ collector.pc = "exec"
    BY <1>13 DEF RunEnds, At
  <2>2. \/ collector.run < 3 /\ collector' = [collector EXCEPT !.run = @ + 1]
        \/ collector' = [collector EXCEPT !.pc = "build"]
    BY <1>13 DEF RunEnds, Runs
  <2>3. /\ collector' \in Collector /\ collector'.pc \in {"exec", "build"} /\ collector'.case = i
        /\ collector'.activity = collector.activity
    BY <1>2, <2>1, <2>2 DEF Collector, Runs
  <2> QED
    BY <1>1, <1>2, <1>4, <2>1, <2>3, ExecSound
<1> QED
  BY <1>1, <1>7, <1>8, <1>9, <1>10, <1>11, <1>12, <1>13


-----------------------------------------------------------------------------
(***************************************************************************)
(* Closing a case.                                                         *)
(***************************************************************************)

\* What a case that is not refused is: all calls made were answered, by one
\* model, which is the one on record if there is any.
LEMMA NotRefused ==
  ASSUME NEW i \in Cases, CaseRefusal(i) = "none"
  PROVE  /\ RowsIn(i, CallState) = RowsIn(i, {"completed"})
         /\ Cardinality(ModelIds(RowsOf(i))) = 1
         /\ collector.activity.models \subseteq ModelIds(RowsOf(i))
BY DEF CaseRefusal

\* A case is refused for a reason for which the collection stops.
LEMMA RefusalIsAReason ==
  ASSUME NEW i \in Cases, CaseRefusal(i) # "none"
  PROVE  CaseRefusal(i) \in StopReason
BY TheReasons DEF CaseRefusal

\* The accounting of a case is a case file.
LEMMA AccountingTyped ==
  ASSUME StoreTypeOK, NEW i \in Cases
  PROVE  Accounting(i) \in Case /\ Accounting(i) # None
<1>1. ASSUME NEW t \in Tasks PROVE Accounting(i)[t] \in SavedCall
  <2>1. calls[<<i, t>>] \in Row
    BY CallsOfCases DEF StoreTypeOK
  <2>2. Accounting(i)[t] =
          [state |-> calls[<<i, t>>].state, request |-> calls[<<i, t>>].request,
           actual |-> calls[<<i, t>>].actual, payload |-> calls[<<i, t>>].payload]
    BY DEF Accounting
  <2> QED
    BY <2>1, <2>2 DEF Row, SavedCall
<1>2. Accounting(i) = [t \in Tasks |-> Accounting(i)[t]]
  BY DEF Accounting
<1>3. Accounting(i) \in [Tasks -> SavedCall]
  BY <1>1, <1>2
<1> QED
  BY <1>3, FilesAssumption DEF Case

\* The file of a case is written once its runs are complete, or the case fails.
LEMMA WriteCaseSound ==
  ASSUME CollectorInv, WriteCase
  PROVE  CollectorInv'
<1> DEFINE i == collector.case
           act == collector.activity
           file == Accounting(i)
<1>1. /\ At("build") /\ UNCHANGED <<storeVars, plan, journal, view, record, sidecar, starts>>
      /\ \/ CaseRefusal(i) # "none" /\ Fail(CaseRefusal(i)) /\ UNCHANGED cases
         \/ /\ CaseRefusal(i) = "none" /\ cases' = [cases EXCEPT ![i] = file]
            /\ Goto("close") /\ UNCHANGED flight
  BY DEF WriteCase
<1>2. Held /\ Place = "build" /\ collector \in Collector /\ flight = {} /\ StoreTypeOK
  BY <1>1 DEF CollectorInv, CollectorTypeOK, Held, At, Place, WorkSound
<1>3. /\ record \in Activity /\ act = record /\ Vouches(act) /\ sidecar /\ plan
      /\ journal \in [Cases -> CaseState] /\ journal # None /\ act # None
      /\ cases \in [Cases -> Case \cup {None}]
  BY <1>1, <1>2, RecordHeld, FilesAssumption DEF At, CollectorInv, CollectorTypeOK
<1>4. i \in Cases /\ Status(i) = "running" /\ cases[i] = None
  BY <1>2 DEF CollectorInv, WorkSound, JournalCaughtUp, InHand
<1>5. act.calibration = "running" /\ act.reason = "none" /\ ~ClosedBy(act)
  BY <1>2 DEF CollectorInv, LoopSound, ClosedBy
<1>6. CASE CaseRefusal(i) # "none" /\ Fail(CaseRefusal(i)) /\ UNCHANGED cases
  <2>1. CaseRefusal(i) \in StopReason
    BY <1>4, <1>6, RefusalIsAReason
  <2> QED
    BY <1>1, <1>2, <1>3, <1>5, <1>6, <2>1, FailKeeps, FailSound DEF At, fileVars
<1>7. CASE /\ CaseRefusal(i) = "none" /\ cases' = [cases EXCEPT ![i] = file]
           /\ Goto("close") /\ UNCHANGED flight
  <2>1. /\ collector' \in Collector /\ collector'.pc = "close" /\ Place' = "close"
        /\ collector'.case = i /\ collector'.activity = act
    BY <1>2, <1>7, GotoKeeps
  <2>2. file \in Case /\ file # None
    BY <1>2, <1>4, AccountingTyped
  <2>3. /\ UNCHANGED calls /\ \A c \in CallIds : calls'[c] = calls[c]
    BY <1>1 DEF storeVars
  <2>4. Accounting(i)' = file
    BY <1>4, <2>1, <2>3, Zenon DEF Accounting
  <2>5. /\ RowsIn(i, CallState) = RowsIn(i, {"completed"})
        /\ Cardinality(ModelIds(RowsOf(i))) = 1
        /\ act.models \subseteq ModelIds(RowsOf(i))
    BY <1>4, <1>7, NotRefused
  <2> HIDE DEF file
  <2>6. /\ cases' \in [Cases -> Case \cup {None}] /\ cases'[i] = file
        /\ \A k \in Cases : k # i => cases'[k] = cases[k]
    BY <1>3, <1>4, <1>7, <2>2
  <2>7. ModelIds(CallIds)' = ModelIds(CallIds)
    BY <2>3 DEF ModelIds
  <2>8. CollectorTypeOK'
    BY <1>1, <1>2, <1>7, <2>1, <2>6 DEF CollectorInv, CollectorTypeOK, StoreTypeOK, storeVars
  <2>9. WorkSound' /\ FilesSound'
    BY <1>1, <1>2, <1>3, <1>4, <1>7, <2>1, FilesAssumption
       DEF WorkSound, FilesSound, Held, At, InHand
  <2>10. RowsSound'
    BY <2>3 DEF CollectorInv, RowsSound
  <2>11. CasesSound'
    <3> SUFFICES ASSUME NEW k \in Cases, cases'[k] # None PROVE CaseSound(k)'
      BY DEF CasesSound
    <3>1. /\ Accounting(k)' = Accounting(k) /\ RowsIn(k, CallState)' = RowsIn(k, CallState)
          /\ RowsIn(k, {"completed"})' = RowsIn(k, {"completed"})
          /\ ModelIds(RowsOf(k))' = ModelIds(RowsOf(k))
      <4>1. \A c \in RowsOf(k) : calls'[c] = calls[c]
        BY <2>3
      <4> QED
        BY <4>1, SameRows
    <3>2. CASE k = i
      <4>1. \A m \in 1 .. i - 1 : m \in Cases /\ m # i /\ cases[m] # None
        BY <1>2, <1>4, CollectorAssumption DEF CollectorInv, JournalCaughtUp, Cases
      <4>2. \A m \in 1 .. i - 1 : cases'[m] # None
        BY <2>6, <4>1
      <4>3. cases'[i] = Accounting(i)'
        BY <2>4, <2>6
      <4>4. /\ RowsIn(k, CallState)' = RowsIn(k, {"completed"})'
            /\ Cardinality(ModelIds(RowsOf(k)))' = 1
            /\ cases'[k] = Accounting(k)'
        BY <2>5, <3>1, <3>2, <2>6, <4>3 DEF file
      <4> QED
        BY <3>2, <4>2, <4>4 DEF CaseSound
    <3>3. CASE k # i
      <4>1. CaseSound(k) /\ cases'[k] = cases[k]
        BY <2>6, <3>3 DEF CollectorInv, CasesSound
      <4>2. \A m \in 1 .. k - 1 : cases'[m] # None
        <5>1. \A m \in 1 .. k - 1 : m \in Cases
          BY CollectorAssumption DEF Cases
        <5> QED
          BY <2>2, <2>6, <4>1, <5>1 DEF CaseSound
      <4> QED
        BY <3>1, <4>1, <4>2 DEF CaseSound
    <3> QED
      BY <3>2, <3>3
  <2>12. JournalSound'
    BY <1>1, <1>4, <2>2, <2>6 DEF CollectorInv, JournalSound, Status
  <2>13. JournalCaughtUp'
    <3>1. /\ \A k \in Cases \ {i} : Status(k) # "running" /\ (cases[k] # None => Status(k) = "complete")
          /\ \A k \in 1 .. i - 1 : k \in Cases /\ k # i /\ cases[k] # None
      BY <1>2, <1>4, CollectorAssumption DEF CollectorInv, JournalCaughtUp, Cases
    <3>2. \A k \in 1 .. i - 1 : cases'[k] # None
      BY <2>6, <3>1
    <3> QED
      BY <1>1, <1>4, <2>1, <2>2, <2>6, <3>1, <3>2 DEF JournalCaughtUp, Status, AtRest
  <2>14. VouchesFor(act, cases', journal', view', ModelIds(CallIds)')
    BY <1>1, <1>3, <1>4, <1>5, <2>6, <2>7, VouchingLasts DEF Vouches
  <2>15. RecordsSound'
    BY <1>1, <1>3, <2>1, <2>14 DEF RecordsSound, Vouches, At
  <2>16. LoopSound'
    <3>1. /\ \A k \in Cases : cases[k] # None => act.links[k] # None
          /\ \A m, n \in act.models : m = n
          /\ \A c \in CallIds : calls[c].payload # None =>
               calls[c].payload \in act.models \/ c \in RowsOf(i)
      BY <1>2 DEF CollectorInv, LoopSound, InHand
    <3>2. ModelIds(RowsOf(i)) = {calls[c].payload : c \in RowsOf(i)} \ {None}
      BY DEF ModelIds
    <3>3. RowsOf(i)' = RowsOf(i)
      BY <2>1 DEF RowsOf
    <3>4. (act.models \subseteq ModelIds(RowsOf(collector.case)))'
      <4>1. ModelIds(RowsOf(collector.case))' = ModelIds(RowsOf(i))
        BY <2>1, <2>3, <3>3 DEF ModelIds
      <4> QED
        BY <2>1, <2>5, <4>1
    <3> QED
      BY <1>5, <2>1, <2>3, <2>6, <3>1, <3>3, <3>4 DEF LoopSound, InHand
  <2> QED
    BY <2>8, <2>9, <2>10, <2>11, <2>12, <2>13, <2>15, <2>16 DEF CollectorInv
<1> QED
  BY <1>1, <1>6, <1>7


\* The journal catches up with the file.
LEMMA CloseCaseSound ==
  ASSUME CollectorInv, CloseCase
  PROVE  CollectorInv'
<1> DEFINE i == collector.case
           act == collector.activity
           entry == [status |-> "complete", artifact |-> cases[i]]
           j == [journal EXCEPT ![i] = entry]
<1>1. /\ At("close") /\ Goto("link") /\ journal' = j
      /\ UNCHANGED <<storeVars, plan, cases, view, record, sidecar, flight, starts>>
  BY DEF CloseCase
<1>2. Held /\ Place = "close" /\ collector \in Collector /\ flight = {}
  BY <1>1 DEF CollectorInv, CollectorTypeOK, Held, At, Place, WorkSound
<1>3. /\ record \in Activity /\ act = record /\ Vouches(act) /\ sidecar /\ plan
      /\ journal \in [Cases -> CaseState] /\ journal # None /\ act # None /\ record # None
      /\ cases \in [Cases -> Case \cup {None}]
  BY <1>1, <1>2, RecordHeld, FilesAssumption DEF At, CollectorInv, CollectorTypeOK
<1>4. i \in Cases /\ Status(i) = "running" /\ cases[i] # None
  BY <1>2 DEF CollectorInv, WorkSound, JournalCaughtUp, InHand
<1>5. act.calibration = "running" /\ act.reason = "none" /\ ~ClosedBy(act)
  BY <1>2 DEF CollectorInv, LoopSound, ClosedBy
<1>6. /\ collector' \in Collector /\ collector'.pc = "link" /\ Place' = "link"
      /\ collector'.case = i /\ collector'.activity = act
  BY <1>1, <1>2, GotoKeeps
<1>7. /\ entry \in CaseState /\ entry.status = "complete" /\ entry.artifact = cases[i]
  BY <1>3, <1>4 DEF CaseState, CaseStatus
<1> HIDE DEF entry
<1>8. /\ j \in [Cases -> CaseState] /\ j[i] = entry
      /\ \A k \in Cases : k # i => j[k] = journal[k]
  BY <1>3, <1>4, <1>7
<1> HIDE DEF j
<1>9. j # None
  BY <1>8, FilesAssumption
<1>10. CollectorTypeOK'
  BY <1>1, <1>6, <1>8 DEF CollectorInv, CollectorTypeOK, StoreTypeOK, storeVars
<1>11. WorkSound' /\ FilesSound'
  BY <1>1, <1>2, <1>3, <1>4, <1>6, <1>9 DEF WorkSound, FilesSound, Held, At, InHand
<1>12. RowsSound' /\ CasesSound' /\ ModelIds(CallIds)' = ModelIds(CallIds)
  BY <1>1, QuietSound DEF storeVars
<1>13. \A k \in Cases \ {i} : Status(k) # "running" /\ (cases[k] # None => Status(k) = "complete")
  BY <1>2 DEF CollectorInv, JournalCaughtUp
<1>14. \A k \in Cases \ {i} :
         /\ Status(k) = "complete" => cases[k] # None /\ journal[k].artifact = cases[k]
         /\ Status(k) # "complete" => journal[k].artifact = None
  BY <1>3 DEF CollectorInv, JournalSound
<1>15. JournalSound'
  <2>1. \A k \in Cases : journal'[k].status # "running"
    BY <1>1, <1>7, <1>8, <1>13 DEF Status
  <2> QED
    BY <1>1, <1>4, <1>7, <1>8, <1>14, <2>1 DEF JournalSound, Status
<1>16. JournalCaughtUp'
  BY <1>1, <1>4, <1>6, <1>7, <1>8, <1>13 DEF JournalCaughtUp, Status, AtRest
<1>17. VouchesFor(act, cases', journal', view', ModelIds(CallIds)')
  BY <1>1, <1>3, <1>5, <1>12, VouchingLasts DEF Vouches
<1>18. RecordsSound'
  BY <1>1, <1>3, <1>6, <1>17 DEF RecordsSound, Vouches, At
<1>19. LoopSound'
  BY <1>1, <1>2, <1>6 DEF CollectorInv, LoopSound, InHand, storeVars, ModelIds, RowsOf
<1> QED
  BY <1>10, <1>11, <1>12, <1>15, <1>16, <1>18, <1>19 DEF CollectorInv

\* The record links the case and names its model.
LEMMA LinkCaseSound ==
  ASSUME CollectorInv, LinkCase
  PROVE  CollectorInv'
<1> DEFINE i == collector.case
           act == collector.activity
           new == Linked(act, i)
           next == IF collector.left = 1 /\ Open # {} THEN "pause" ELSE "loop"
           left == IF collector.left > 0 THEN collector.left - 1 ELSE 0
<1>1. /\ At("link") /\ UNCHANGED <<storeVars, plan, journal, cases, view, starts>>
      /\ \/ /\ record' = new /\ sidecar' = FALSE /\ UNCHANGED flight
            /\ collector' = [collector EXCEPT !.pc = "sidecar", !.activity = new,
                                              !.next = next, !.left = left]
         \/ Fail("internal_error") /\ UNCHANGED <<record, sidecar>>
  BY DEF LinkCase
<1>2. Held /\ Place = "link" /\ collector \in Collector /\ flight = {} /\ StoreTypeOK
  BY <1>1 DEF CollectorInv, CollectorTypeOK, Held, At, Place, WorkSound
<1>3. /\ record \in Activity /\ act \in Activity /\ act = record /\ Vouches(act) /\ sidecar
      /\ plan /\ journal \in [Cases -> CaseState] /\ journal # None /\ act # None
      /\ cases \in [Cases -> Case \cup {None}]
  BY <1>1, <1>2, RecordHeld, FilesAssumption DEF At, CollectorInv, CollectorTypeOK
<1>4. i \in Cases /\ cases[i] # None
  BY <1>2 DEF CollectorInv, WorkSound, JournalCaughtUp, InHand
<1>5. act.calibration = "running" /\ act.reason = "none" /\ ~ClosedBy(act)
  BY <1>2 DEF CollectorInv, LoopSound, ClosedBy
<1>6. CASE Fail("internal_error") /\ UNCHANGED <<record, sidecar>>
  <2>1. "internal_error" \in StopReason
    BY TheReasons
  <2> QED
    BY <1>1, <1>2, <1>3, <1>5, <1>6, <2>1, FailKeeps, FailSound DEF At, fileVars
<1>7. CASE /\ record' = new /\ sidecar' = FALSE /\ UNCHANGED flight
           /\ collector' = [collector EXCEPT !.pc = "sidecar", !.activity = new,
                                             !.next = next, !.left = left]
  <2>1. /\ new \in Activity /\ new.calibration = "running" /\ new.reason = "none"
        /\ new.billing = act.billing /\ new.links[i] = cases[i]
        /\ \A k \in Cases : k # i => new.links[k] = act.links[k]
        /\ new.models = act.models \cup ModelIds(RowsOf(i))
    BY <1>2, <1>3, <1>4, <1>5, LinkedRecord
  <2>2. next \in {"pause", "loop"} /\ left \in Nat
    BY <1>2 DEF Collector
  <2> HIDE DEF new, next, left
  <2>3. /\ collector' \in Collector /\ collector'.pc = "sidecar" /\ collector'.next = next
        /\ collector'.activity = new /\ collector'.case = i
    BY <1>2, <1>7, <2>1, <2>2 DEF Collector
  <2>4. Place' = next
    BY <2>3 DEF Place, At
  <2>5. /\ IsFiniteSet(ModelIds(RowsOf(i))) /\ ModelIds(RowsOf(i)) \subseteq ModelIds(CallIds)
        /\ Cardinality(ModelIds(RowsOf(i))) = 1
    <3>1. RowsOf(i) \in SUBSET CallIds
      BY <1>4, CallsOfCases
    <3>2. Cardinality(ModelIds(RowsOf(i))) = 1
      BY <1>4 DEF CollectorInv, CasesSound, CaseSound
    <3> QED
      BY <1>2, <3>1, <3>2, ModelsFinite, ModelsTyped
  <2>6. new.models = ModelIds(RowsOf(i)) /\ \A m, n \in new.models : m = n
    <3>1. act.models \subseteq ModelIds(RowsOf(i))
      BY <1>2 DEF CollectorInv, LoopSound
    <3>2. new.models = ModelIds(RowsOf(i))
      BY <2>1, <3>1
    <3> QED
      BY <2>5, <3>2, OneElement
  <2>7. Vouches(new)
    <3>1. ~ClosedBy(new)
      BY <2>1 DEF ClosedBy
    <3>2. new.billing => new.reason = "billing_uncertain"
      BY <1>3, <1>5, <2>1 DEF Vouches, VouchesFor
    <3>3. \A k \in Cases : new.links[k] # None => new.links[k] = cases[k]
      <4>1. \A k \in Cases : act.links[k] # None => act.links[k] = cases[k]
        BY <1>3 DEF Vouches, VouchesFor
      <4> QED
        BY <2>1, <4>1
    <3>4. new.models \subseteq ModelIds(CallIds)
      BY <2>5, <2>6
    <3> QED
      BY <3>1, <3>2, <3>3, <3>4 DEF Vouches, VouchesFor
  <2>8. JournalCaughtUp'
    BY <1>1, <1>2, <2>2, <2>4 DEF CollectorInv, JournalCaughtUp, Status, AtRest
  <2>9. \A k \in Cases : cases[k] # None => new.links[k] # None
    BY <1>2, <1>4, <2>1 DEF CollectorInv, LoopSound, InHand
  <2>10. \A c \in CallIds : calls[c].payload # None => calls[c].payload \in new.models
    <3>1. \A c \in CallIds : calls[c].payload # None =>
            calls[c].payload \in act.models \/ c \in RowsOf(i)
      BY <1>2 DEF CollectorInv, LoopSound, InHand
    <3>2. \A c \in RowsOf(i) : calls[c].payload # None => calls[c].payload \in ModelIds(RowsOf(i))
      BY DEF ModelIds
    <3> QED
      BY <2>1, <3>1, <3>2
  <2>11. LoopSound'
    BY <1>1, <2>1, <2>2, <2>3, <2>4, <2>6, <2>9, <2>10 DEF LoopSound, InHand, storeVars
  <2> QED
    BY <1>1, <1>3, <1>4, <1>7, <2>1, <2>3, <2>7, <2>8, <2>11, PersistSound DEF At
<1> QED
  BY <1>1, <1>6, <1>7


\* The record says that the collection is paused, and the process ends.
LEMMA PauseSound ==
  ASSUME CollectorInv, PauseCollection
  PROVE  CollectorInv'
<1> DEFINE act == collector.activity
           new == Paused(act)
<1>1. /\ At("pause") /\ UNCHANGED <<storeVars, plan, journal, cases, view, flight, starts>>
      /\ Persist(new, "down")
  BY DEF PauseCollection
<1>2. Held /\ Place = "pause" /\ collector \in Collector
  BY <1>1 DEF CollectorInv, CollectorTypeOK, Held, At, Place
<1>3. act \in Activity /\ Vouches(act) /\ journal # None
  BY <1>1, <1>2, RecordHeld DEF At
<1>4. act.calibration = "running" /\ act.reason = "none"
  BY <1>2 DEF CollectorInv, LoopSound
<1>5. /\ new \in Activity /\ new.calibration = "paused" /\ new.links = act.links
      /\ new.billing = act.billing /\ new.models = act.models
  BY <1>3, PausedRecord
<1> HIDE DEF new
<1>6. Vouches(new)
  BY <1>3, <1>4, <1>5 DEF Vouches, VouchesFor, ClosedBy
<1>7. /\ collector' \in Collector /\ collector'.pc = "sidecar" /\ collector'.next = "down"
      /\ collector'.activity = new /\ Place' = "down" /\ record' = new /\ sidecar' = FALSE
  BY <1>1, <1>2, <1>5, PersistKeeps
<1>8. JournalCaughtUp' /\ LoopSound'
  BY <1>7 DEF JournalCaughtUp, LoopSound, AtRest, InHand
<1> QED
  BY <1>1, <1>3, <1>5, <1>6, <1>7, <1>8, PersistSound DEF At

-----------------------------------------------------------------------------
(***************************************************************************)
(* Stops, and the end of the collection.                                   *)
(***************************************************************************)

\* A case that stops is not closed again by it, and no record is.
LEMMA StopCaseSound ==
  ASSUME CollectorInv, StopCase
  PROVE  CollectorInv'
<1> DEFINE i == collector.case
           act == collector.activity
           j == [journal EXCEPT ![i] = Entry("stopped")]
<1>1. /\ At("fail") /\ Goto("failRecord") /\ journal' = j
      /\ UNCHANGED <<storeVars, plan, cases, view, record, sidecar, flight, starts>>
  BY DEF StopCase
<1>2. Held /\ Place = "fail" /\ collector \in Collector
  BY <1>1 DEF CollectorInv, CollectorTypeOK, Held, At, Place
<1>3. /\ record \in Activity /\ act \in Activity /\ Vouches(record) /\ Vouches(act) /\ sidecar
      /\ plan /\ journal \in [Cases -> CaseState] /\ journal # None /\ act # None
      /\ record # None
  BY <1>1, <1>2, RecordHeld, FilesAssumption DEF At
<1>4. /\ i \in Cases /\ collector.reason \in StopReason /\ flight = {}
      /\ ~ClosedBy(record) /\ ~ClosedBy(act)
  BY <1>1, <1>2 DEF CollectorInv, WorkSound, RecordsSound
<1>5. /\ collector' \in Collector /\ collector'.pc = "failRecord" /\ Place' = "failRecord"
      /\ collector'.case = i /\ collector'.activity = act /\ collector'.reason = collector.reason
  BY <1>1, <1>2, GotoKeeps
<1>6. /\ j \in [Cases -> CaseState] /\ j[i].status = "stopped" /\ j[i].artifact = None
      /\ \A k \in Cases : k # i => j[k] = journal[k]
  BY <1>3, <1>4 DEF Entry, CaseState, CaseStatus
<1> HIDE DEF j
<1>7. j # None
  BY <1>6, FilesAssumption
<1>8. CollectorTypeOK'
  BY <1>1, <1>5, <1>6 DEF CollectorInv, CollectorTypeOK, StoreTypeOK, storeVars
<1>9. WorkSound' /\ FilesSound'
  BY <1>1, <1>3, <1>4, <1>5, <1>7 DEF WorkSound, FilesSound, Held, At, InHand
<1>10. RowsSound' /\ CasesSound' /\ ModelIds(CallIds)' = ModelIds(CallIds)
  BY <1>1, QuietSound DEF storeVars
<1>11. JournalSound'
  BY <1>1, <1>3, <1>6 DEF CollectorInv, JournalSound, Status
<1>12. JournalCaughtUp' /\ LoopSound'
  BY <1>5 DEF JournalCaughtUp, LoopSound, AtRest, InHand
<1>13. VouchesFor(record, cases', journal', view', ModelIds(CallIds)')
  BY <1>1, <1>3, <1>4, <1>10, VouchingLasts DEF Vouches
<1>14. VouchesFor(act, cases', journal', view', ModelIds(CallIds)')
  BY <1>1, <1>3, <1>4, <1>10, VouchingLasts DEF Vouches
<1>15. RecordsSound'
  BY <1>1, <1>5, <1>13, <1>14 DEF RecordsSound, Vouches, At
<1> QED
  BY <1>8, <1>9, <1>10, <1>11, <1>12, <1>15 DEF CollectorInv

\* What a stop puts on record.
Stopped(act, reason) ==
  [act EXCEPT !.calibration = StopStatus[reason], !.reason = reason,
              !.billing = (reason = "billing_uncertain"),
              !.models = @ \cup ModelIds(CallIds), !.journal = journal]

\* A stop keeps the links and the models, and names the reason.
LEMMA StoppedRecord ==
  ASSUME StoreTypeOK, journal \in [Cases -> CaseState], NEW act \in Activity,
         NEW reason \in StopReason
  PROVE  LET new == Stopped(act, reason) IN
         /\ new \in Activity /\ new.reason = reason /\ new.links = act.links
         /\ new.billing = (reason = "billing_uncertain")
         /\ new.models = act.models \cup ModelIds(CallIds)
<1> DEFINE status == StopStatus[reason]
           billing == reason = "billing_uncertain"
           models == act.models \cup ModelIds(CallIds)
<1>1. status \in CampaignStatus
  BY TheReasons DEF StopStatus, CampaignStatus
<1>2. billing \in BOOLEAN
  OBVIOUS
<1>3. models \in SUBSET Payloads
  BY ModelsTyped DEF Activity
<1> DEFINE new == Stopped(act, reason)
<1>4. new = [act EXCEPT !.calibration = status, !.reason = reason, !.billing = billing,
                        !.models = models, !.journal = journal]
  BY Zenon DEF Stopped
<1> HIDE DEF status, billing, models, new
<1>5. /\ new \in Activity /\ new.reason = reason /\ new.links = act.links
      /\ new.billing = billing /\ new.models = models
  BY <1>1, <1>2, <1>3, <1>4 DEF Activity
<1> QED
  BY <1>5 DEF billing, models, new

\* The stop goes on record, unless the record carries another one.
LEMMA StopRecordSound ==
  ASSUME CollectorInv, StopRecord
  PROVE  CollectorInv'
<1> DEFINE act == collector.activity
           reason == collector.reason
           new == Stopped(act, reason)
<1>1. /\ At("failRecord") /\ UNCHANGED <<storeVars, plan, journal, cases, view, flight, starts>>
      /\ \/ Persist(new, "down")
         \/ collector' = Down /\ UNCHANGED <<record, sidecar>>
  BY DEF StopRecord, Stopped
<1>2. Held /\ Place = "failRecord" /\ collector \in Collector /\ flight = {} /\ StoreTypeOK
  BY <1>1 DEF CollectorInv, CollectorTypeOK, Held, At, Place, WorkSound
<1>3. act \in Activity /\ Vouches(act) /\ journal # None /\ journal \in [Cases -> CaseState]
  BY <1>1, <1>2, RecordHeld DEF At
<1>4. reason \in StopReason
  BY <1>2 DEF CollectorInv, WorkSound
<1>5. /\ new \in Activity /\ new.reason = reason /\ new.links = act.links
      /\ new.billing = (reason = "billing_uncertain")
      /\ new.models = act.models \cup ModelIds(CallIds)
  BY <1>2, <1>3, <1>4, StoppedRecord
<1> HIDE DEF new
<1>6. reason # "none"
  BY <1>4, TheReasons
<1>7. Vouches(new)
  <2>1. ~ClosedBy(new)
    BY <1>5, <1>6 DEF ClosedBy
  <2>2. new.billing => new.reason = "billing_uncertain"
    BY <1>5
  <2>3. new.models \subseteq ModelIds(CallIds)
    BY <1>3, <1>5 DEF Vouches, VouchesFor
  <2>4. \A k \in Cases : new.links[k] # None => new.links[k] = cases[k]
    BY <1>3, <1>5 DEF Vouches, VouchesFor
  <2> QED
    BY <2>1, <2>2, <2>3, <2>4 DEF Vouches, VouchesFor
<1>8. CASE collector' = Down /\ UNCHANGED <<record, sidecar>>
  BY <1>1, <1>2, <1>8, DownSound DEF CollectorInv, CollectorTypeOK
<1>9. CASE Persist(new, "down")
  <2>1. /\ collector' \in Collector /\ collector'.pc = "sidecar" /\ collector'.next = "down"
        /\ collector'.activity = new /\ Place' = "down" /\ record' = new /\ sidecar' = FALSE
    BY <1>2, <1>5, <1>9, PersistKeeps
  <2>2. JournalCaughtUp' /\ LoopSound'
    BY <2>1 DEF JournalCaughtUp, LoopSound, AtRest, InHand
  <2> QED
    BY <1>1, <1>3, <1>5, <1>7, <2>1, <2>2, PersistSound DEF At
<1> QED
  BY <1>1, <1>8, <1>9

\* The replay view is written over all cases.
LEMMA WriteViewSound ==
  ASSUME CollectorInv, WriteView
  PROVE  CollectorInv'
<1> DEFINE act == collector.activity
<1>1. /\ At("loop") /\ Open = {} /\ Goto("finish") /\ view' = cases
      /\ \A i \in Cases : cases[i] # None
      /\ UNCHANGED <<storeVars, plan, journal, cases, record, sidecar, flight, starts>>
  BY DEF WriteView
<1>2. Held /\ Place = "loop" /\ collector \in Collector /\ flight = {}
  BY <1>1 DEF CollectorInv, CollectorTypeOK, Held, At, Place, WorkSound
<1>3. /\ record \in Activity /\ act = record /\ Vouches(act) /\ sidecar /\ plan
      /\ journal # None /\ act # None /\ record # None
      /\ cases \in [Cases -> Case \cup {None}]
  BY <1>1, <1>2, RecordHeld, FilesAssumption DEF At, CollectorInv, CollectorTypeOK
<1>4. /\ collector' \in Collector /\ collector'.pc = "finish" /\ Place' = "finish"
      /\ collector'.activity = act
  BY <1>1, <1>2, GotoKeeps
<1>5. cases \in [Cases -> Case]
  BY <1>1, <1>3
<1>6. CollectorTypeOK'
  BY <1>1, <1>4, <1>5 DEF CollectorInv, CollectorTypeOK, StoreTypeOK, storeVars
<1>7. WorkSound' /\ FilesSound'
  BY <1>1, <1>2, <1>3, <1>4 DEF CollectorInv, WorkSound, FilesSound, Held, At, InHand
<1>8. RowsSound' /\ CasesSound' /\ JournalSound' /\ ModelIds(CallIds)' = ModelIds(CallIds)
  BY <1>1, QuietSound DEF storeVars
<1>9. JournalCaughtUp'
  <2>1. \A i \in Cases : Status(i) = "complete"
    BY <1>1 DEF Open
  <2> QED
    BY <1>1, <1>4, <2>1 DEF JournalCaughtUp, Status, AtRest
<1>10. VouchesFor(act, cases', journal', view', ModelIds(CallIds)')
  BY <1>1, <1>3, <1>8, VouchingLasts DEF Vouches
<1>11. RecordsSound'
  BY <1>1, <1>3, <1>4, <1>10 DEF RecordsSound, Vouches, At
<1>12. LoopSound'
  BY <1>1, <1>2, <1>4 DEF CollectorInv, LoopSound, InHand, storeVars
<1> QED
  BY <1>6, <1>7, <1>8, <1>9, <1>11, <1>12 DEF CollectorInv


\* The record is closed over the files as they are.
LEMMA FinalizeSound ==
  ASSUME CollectorInv, Finalize
  PROVE  CollectorInv'
<1> DEFINE act == collector.activity
           new == [act EXCEPT !.calibration = "complete", !.journal = journal]
<1>1. /\ At("finish") /\ UNCHANGED <<storeVars, plan, journal, cases, view, flight, starts>>
      /\ \/ /\ \A i \in Cases : act.links[i] # None
            /\ Persist(new, "down")
         \/ collector' = Down /\ UNCHANGED <<record, sidecar>>
  BY DEF Finalize
<1>2. Held /\ Place = "finish" /\ collector \in Collector /\ flight = {} /\ StoreTypeOK
  BY <1>1 DEF CollectorInv, CollectorTypeOK, Held, At, Place, WorkSound
<1>3. act \in Activity /\ Vouches(act) /\ journal # None /\ journal \in [Cases -> CaseState]
  BY <1>1, <1>2, RecordHeld DEF At
<1>4. view = cases /\ \A i \in Cases : Status(i) = "complete"
  BY <1>2 DEF CollectorInv, JournalCaughtUp
<1>5. CASE collector' = Down /\ UNCHANGED <<record, sidecar>>
  BY <1>1, <1>2, <1>5, DownSound DEF CollectorInv, CollectorTypeOK
<1>6. CASE (\A i \in Cases : act.links[i] # None) /\ Persist(new, "down")
  <2>1. /\ new \in Activity /\ new.reason = act.reason /\ new.links = act.links
        /\ new.billing = act.billing /\ new.models = act.models /\ new.journal = journal
    BY <1>3 DEF Activity, CampaignStatus
  <2> HIDE DEF new
  <2>2. /\ \A m, n \in act.models : m = n
        /\ \A c \in CallIds : calls[c].payload # None => calls[c].payload \in act.models
    BY <1>2 DEF CollectorInv, LoopSound, InHand
  <2>3. act.models = ModelIds(CallIds)
    <3>1. act.models \subseteq ModelIds(CallIds)
      BY <1>3 DEF Vouches, VouchesFor
    <3>2. ModelIds(CallIds) \subseteq act.models
      BY <2>2 DEF ModelIds
    <3> QED
      BY <3>1, <3>2
  <2>4. Cardinality(act.models) = 1
    <3>1. 1 \in Cases
      BY CollectorAssumption DEF Cases
    <3>2. Cardinality(ModelIds(RowsOf(1))) = 1
      BY <1>3, <1>4, <3>1 DEF CollectorInv, JournalSound, CasesSound, CaseSound
    <3>3. RowsOf(1) \in SUBSET CallIds
      BY <3>1, CallsOfCases
    <3>4. ModelIds(RowsOf(1)) # {} /\ ModelIds(RowsOf(1)) \subseteq act.models
      BY <1>2, <2>3, <3>2, <3>3, ModelsFinite, OneElement, ModelsTyped
    <3>5. IsFiniteSet(act.models)
      BY <2>3, ModelsFinite
    <3> QED
      BY <2>2, <3>4, <3>5, OneElement
  <2>5. Vouches(new)
    <3>1. \A k \in Cases : act.links[k] # None => act.links[k] = cases[k]
      BY <1>3 DEF Vouches, VouchesFor
    <3>2. act.billing => act.reason = "billing_uncertain"
      BY <1>3 DEF Vouches, VouchesFor
    <3> QED
      BY <1>4, <1>6, <2>1, <2>3, <2>4, <3>1, <3>2 DEF Vouches, VouchesFor, Status
  <2>6. /\ collector' \in Collector /\ collector'.pc = "sidecar" /\ collector'.next = "down"
        /\ collector'.activity = new /\ Place' = "down" /\ record' = new /\ sidecar' = FALSE
    BY <1>2, <1>6, <2>1, PersistKeeps
  <2>7. JournalCaughtUp' /\ LoopSound'
    BY <2>6 DEF JournalCaughtUp, LoopSound, AtRest, InHand
  <2> QED
    BY <1>1, <1>3, <2>1, <2>5, <2>6, <2>7, PersistSound DEF At
<1> QED
  BY <1>1, <1>5, <1>6

\* The sidecar seals the record, and the collector goes where it was going.
LEMMA SidecarSound ==
  ASSUME CollectorInv, PersistSidecar
  PROVE  CollectorInv'
<1> DEFINE act == collector.activity
           next == collector.next
<1>1. /\ At("sidecar") /\ sidecar' = TRUE
      /\ collector' = IF next = "down" THEN Down ELSE [collector EXCEPT !.pc = next]
      /\ UNCHANGED <<storeVars, plan, journal, cases, view, record, flight, starts>>
  BY DEF PersistSidecar
<1>2. Held /\ Place = next /\ collector \in Collector
      /\ next \in {"down", "models", "loop", "exec", "pause"}
  BY <1>1 DEF CollectorInv, CollectorTypeOK, Collector, Held, At, Place
<1>3. /\ record \in Activity /\ act = record /\ Vouches(act)
      /\ plan /\ journal # None /\ act # None /\ record # None
  BY <1>1, <1>2, RecordHeld, FilesAssumption DEF At
<1>4. CASE next = "down"
  <2>1. flight = {}
    BY <1>2, <1>4 DEF CollectorInv, WorkSound
  <2> QED
    BY <1>1, <1>4, <2>1, DownSound DEF CollectorInv, CollectorTypeOK
<1>5. CASE next # "down"
  <2>1. /\ collector' \in Collector /\ collector'.pc = next /\ collector'.case = collector.case
        /\ collector'.activity = act
    BY <1>1, <1>2, <1>5 DEF Collector
  <2>2. Place' = Place /\ collector'.pc \in {"models", "loop", "exec", "pause"}
    BY <1>2, <1>5, <2>1 DEF Place, At
  <2>3. CollectorTypeOK'
    BY <1>1, <2>1 DEF CollectorInv, CollectorTypeOK, StoreTypeOK, storeVars
  <2>4. WorkSound'
    BY <1>1, <1>2, <2>1, <2>2 DEF CollectorInv, WorkSound, At, InHand, RowsOf
  <2>5. FilesSound'
    BY <1>1, <1>3, <2>1, <2>2 DEF FilesSound, Held, At
  <2>6. RowsSound' /\ CasesSound' /\ JournalSound' /\ ModelIds(CallIds)' = ModelIds(CallIds)
    BY <1>1, QuietSound DEF storeVars
  <2>7. JournalCaughtUp'
    BY <1>1, <2>1, <2>2 DEF CollectorInv, JournalCaughtUp, Status
  <2>8. RecordsSound'
    BY <1>1, <1>3, <2>1, <2>2, <2>6 DEF RecordsSound, Vouches, At
  <2>9. LoopSound'
    BY <1>1, <2>1, <2>2 DEF CollectorInv, LoopSound, storeVars, ModelIds, RowsOf
  <2> QED
    BY <2>3, <2>4, <2>5, <2>6, <2>7, <2>8, <2>9 DEF CollectorInv
<1> QED
  BY <1>4, <1>5

\* A write that raises fails the case; the record in memory is the one that was
\* to be written.
LEMMA WriteRaisesSound ==
  ASSUME CollectorInv, WriteRaises
  PROVE  CollectorInv'
<1> DEFINE i == collector.case
           act == collector.activity
           new == Pending
<1>1. /\ collector.pc \in {"open", "build", "close", "link", "pause"}
      /\ collector' = [collector EXCEPT !.pc = "fail", !.reason = "internal_error",
                                        !.activity = new]
      /\ flight' = {} /\ UNCHANGED <<storeVars, fileVars, starts>>
  BY DEF WriteRaises
<1>2. Held /\ Place = collector.pc /\ collector \in Collector /\ StoreTypeOK
  BY <1>1 DEF CollectorInv, CollectorTypeOK, Held, At, Place
<1>3. /\ act \in Activity /\ act = record /\ Vouches(act) /\ journal \in [Cases -> CaseState]
      /\ cases \in [Cases -> Case \cup {None}]
  BY <1>1, <1>2, RecordHeld DEF CollectorInv, CollectorTypeOK
<1>4. i \in Cases
  BY <1>1, <1>2 DEF CollectorInv, WorkSound, InHand
<1>5. ~ClosedBy(act)
  <2>1. CASE At("open")
    <3>1. Status(i) = "running"
      BY <1>2, <2>1 DEF CollectorInv, JournalCaughtUp, At
    <3> QED
      BY <1>3, <1>4, <3>1 DEF Vouches, VouchesFor, Status
  <2>2. CASE ~At("open")
    BY <1>1, <1>2, <2>2 DEF CollectorInv, LoopSound, ClosedBy, At
  <2> QED
    BY <2>1, <2>2
<1>6. new \in Activity /\ Vouches(new) /\ ~ClosedBy(new)
  <2>1. CASE At("open")
    <3>1. new = Opened(act)
      BY <2>1 DEF Pending, At
    <3>2. /\ Opened(act) \in Activity /\ Opened(act).calibration = "running"
          /\ Opened(act).reason = act.reason /\ Opened(act).billing = act.billing
          /\ Opened(act).links = act.links /\ Opened(act).models = act.models
      BY <1>3, OpenedRecord
    <3> HIDE DEF new
    <3> QED
      BY <1>3, <3>1, <3>2 DEF Vouches, VouchesFor, ClosedBy
  <2>2. CASE At("link")
    <3>1. new = Linked(act, i)
      BY <2>2 DEF Pending, At
    <3>2. /\ Linked(act, i) \in Activity
          /\ Linked(act, i).calibration = act.calibration /\ Linked(act, i).reason = act.reason
          /\ Linked(act, i).billing = act.billing
          /\ Linked(act, i).links[i] = cases[i]
          /\ \A k \in Cases : k # i => Linked(act, i).links[k] = act.links[k]
          /\ Linked(act, i).models = act.models \cup ModelIds(RowsOf(i))
      BY <1>2, <1>3, <1>4, LinkedRecord
    <3> HIDE DEF new
    <3>3. ModelIds(RowsOf(i)) \subseteq ModelIds(CallIds)
      BY <1>2, <1>4, CallsOfCases, ModelsTyped
    <3>4. new \in Activity /\ ~ClosedBy(new)
      BY <1>5, <3>1, <3>2 DEF ClosedBy
    <3>5. new.billing => new.reason = "billing_uncertain"
      BY <1>3, <3>1, <3>2 DEF Vouches, VouchesFor
    <3>6. \A k \in Cases : new.links[k] # None => new.links[k] = cases[k]
      <4>1. \A k \in Cases : act.links[k] # None => act.links[k] = cases[k]
        BY <1>3 DEF Vouches, VouchesFor
      <4> QED
        BY <3>1, <3>2, <4>1
    <3>7. new.models \subseteq ModelIds(CallIds)
      BY <1>3, <3>1, <3>2, <3>3 DEF Vouches, VouchesFor
    <3> QED
      BY <3>4, <3>5, <3>6, <3>7 DEF Vouches, VouchesFor
  <2>3. CASE At("pause")
    <3>1. new = Paused(act)
      BY <2>3 DEF Pending, At
    <3>2. /\ Paused(act) \in Activity /\ Paused(act).calibration = "paused"
          /\ Paused(act).billing = act.billing
          /\ Paused(act).links = act.links /\ Paused(act).models = act.models
      BY <1>3, PausedRecord
    <3>3. act.reason = "none"
      BY <1>2, <2>3 DEF CollectorInv, LoopSound, At
    <3> HIDE DEF new
    <3> QED
      BY <1>3, <3>1, <3>2, <3>3 DEF Vouches, VouchesFor, ClosedBy
  <2>4. CASE ~At("open") /\ ~At("link") /\ ~At("pause")
    BY <1>3, <1>5, <2>4 DEF Pending
  <2> QED
    BY <2>1, <2>2, <2>3, <2>4
<1> HIDE DEF new
<1>7. /\ collector' \in Collector /\ collector'.pc = "fail" /\ collector'.case = i
      /\ collector'.activity = new /\ collector'.reason = "internal_error"
      /\ "internal_error" \in StopReason
  <2>1. "internal_error" \in StopReason
    BY TheReasons
  <2> QED
    BY <1>1, <1>2, <1>6, <2>1 DEF Collector
<1>8. new # None
  BY <1>6, FilesAssumption
<1> QED
  BY <1>1, <1>3, <1>5, <1>6, <1>7, <1>8, FailSound

\* A process that dies leaves the files it wrote.
LEMMA DiesSound ==
  ASSUME CollectorInv, Dies
  PROVE  CollectorInv'
BY DownSound DEF Dies, fileVars, CollectorInv, CollectorTypeOK

\* The operator authorizes another attempt at a call while no process runs.
LEMMA AuthorizeSound ==
  ASSUME CollectorInv, NEW c \in CallIds, OperatorAuthorizes(c)
  PROVE  CollectorInv'
<1>1. /\ At("down") /\ UNCHANGED <<fileVars, collector, flight, starts>>
      /\ \E audit \in Audits : AuthorizeBillingUncertainRetry(c, audit)
  BY DEF OperatorAuthorizes
<1>2. /\ StoreTypeOK /\ RowsSound /\ CasesSound /\ ~Held /\ Place = "down" /\ Place' = "down"
      /\ collector'.pc = "down"
      /\ UNCHANGED <<plan, journal, cases, view, record, sidecar>>
  BY <1>1 DEF CollectorInv, CollectorTypeOK, Held, At, Place, fileVars
<1>3. StoreTypeOK'
  <2>1. StoreNext
    BY <1>1 DEF StoreNext
  <2> QED
    BY <1>2, <2>1, StoreTypeStep
<1>4. 0 \notin Cases /\ RowsOf(0) \cap CallIds = {}
  BY CollectorAssumption DEF Cases, RowsOf
<1>5. RowsMove(0)
  BY <1>1, <1>2, TransactionsMove
<1>6. /\ RowsSound' /\ CasesSound'
      /\ \A d \in CallIds : calls'[d].payload = calls[d].payload
  BY <1>2, <1>4, <1>5, MoveKeeps DEF RowsMove
<1>7. ModelIds(CallIds)' = ModelIds(CallIds)
  BY <1>6 DEF ModelIds
<1>8. CollectorTypeOK'
  BY <1>1, <1>2, <1>3 DEF CollectorInv, CollectorTypeOK
<1>9. WorkSound' /\ FilesSound' /\ JournalSound'
  BY <1>1, <1>2
     DEF CollectorInv, WorkSound, FilesSound, JournalSound, Status, RowsOf, Held, At, InHand
<1>10. JournalCaughtUp' /\ LoopSound'
  BY <1>2 DEF JournalCaughtUp, LoopSound, AtRest, InHand
<1>11. RecordsSound'
  BY <1>1, <1>2, <1>7 DEF CollectorInv, RecordsSound, Vouches, Held, At
<1> QED
  BY <1>6, <1>8, <1>9, <1>10, <1>11 DEF CollectorInv


-----------------------------------------------------------------------------
(***************************************************************************)
(* The invariant of the collection.                                        *)
(***************************************************************************)

\* Before the first collection there is no file and no row.
LEMMA CollectorInit == Init => CollectorInv
<1> SUFFICES ASSUME Init PROVE CollectorInv
  OBVIOUS
<1>1. /\ StoreInit /\ plan = FALSE /\ journal = None /\ cases = [i \in Cases |-> None]
      /\ view = None /\ record = None /\ sidecar = FALSE
      /\ collector = Down /\ flight = {} /\ starts = 0
  BY DEF Init
<1>2. collector.pc = "down" /\ collector \in Collector /\ Place = "down"
  BY <1>1, DownTyped DEF Place, At
<1>3. StoreTypeOK /\ \A c \in CallIds : calls[c].payload = None
  BY <1>1, StoreAssumption DEF StoreInit, StoreTypeOK, Row, Absent
<1>4. CollectorTypeOK
  <2>1. starts \in 0 .. MaxStarts
    BY <1>1, CollectorAssumption
  <2>2. cases \in [Cases -> Case \cup {None}]
    BY <1>1
  <2> QED
    BY <1>1, <1>2, <1>3, <2>1, <2>2 DEF CollectorTypeOK
<1>5. WorkSound /\ FilesSound
  BY <1>1, <1>2 DEF WorkSound, FilesSound, Held, At, InHand
<1>6. RowsSound /\ CasesSound /\ JournalSound
  BY <1>1, <1>3 DEF RowsSound, CasesSound, JournalSound
<1>7. JournalCaughtUp /\ RecordsSound /\ LoopSound
  BY <1>1, <1>2 DEF JournalCaughtUp, RecordsSound, LoopSound, AtRest, InHand, Held, At
<1> QED
  BY <1>4, <1>5, <1>6, <1>7 DEF CollectorInv

\* A step in which nothing changes.
LEMMA IdleSound ==
  ASSUME CollectorInv, UNCHANGED collectorVars
  PROVE  CollectorInv'
<1>1. /\ UNCHANGED <<storeVars, plan, journal, cases, view, record, sidecar>>
      /\ UNCHANGED <<collector, flight, starts>>
  BY DEF collectorVars, fileVars
<1>2. RowsSound' /\ CasesSound' /\ JournalSound' /\ ModelIds(CallIds)' = ModelIds(CallIds)
  BY <1>1, QuietSound DEF storeVars
<1>3. CollectorTypeOK'
  BY <1>1 DEF CollectorInv, CollectorTypeOK, StoreTypeOK, storeVars
<1>4. WorkSound' /\ FilesSound'
  BY <1>1 DEF CollectorInv, WorkSound, FilesSound, Place, Held, At, RowsOf
<1>5. JournalCaughtUp' /\ RecordsSound'
  BY <1>1, <1>2 DEF CollectorInv, JournalCaughtUp, RecordsSound, Vouches, Place, Held, At, Status
<1>6. LoopSound'
  BY <1>1 DEF CollectorInv, LoopSound, Place, At, storeVars, ModelIds, RowsOf
<1> QED
  BY <1>2, <1>3, <1>4, <1>5, <1>6 DEF CollectorInv

\* A step of the executor, which may move rows of the case in hand.
ExecutorStep ==
  \/ \E t \in Tasks : CallReserve(t) \/ CallReuseStops(t)
  \/ CallHandOver \/ RunFails \/ RunEnds
  \/ \E c \in CallIds : CallAnswer(c) \/ CallTransportFails(c)

\* Every step keeps the invariant.
LEMMA CollectorStep == CollectorInv /\ [Next]_collectorVars => CollectorInv'
<1> SUFFICES ASSUME CollectorInv, [Next]_collectorVars PROVE CollectorInv'
  OBVIOUS
<1>1. ASSUME NEW batch \in Batches, CollectFresh(batch) \/ CollectResume(batch)
      PROVE  CollectorInv'
  BY <1>1, FreshSound, ResumeSound
<1>2. CASE ExecutorStep
  BY <1>2, ExecutorSound DEF ExecutorStep
<1>3. CASE \/ CreateJournal \/ CreateRecord \/ PersistSidecar
           \/ AuditLedger \/ RelinkCases \/ CheckModels
  BY <1>3, NewJournalSound, NewRecordSound, SidecarSound, AuditSound, RelinkSound,
     ModelCheckSound
<1>4. CASE BeginCase \/ OpenPhase \/ WriteCase \/ CloseCase \/ LinkCase \/ PauseCollection
  BY <1>4, BeginSound, OpenSound, WriteCaseSound, CloseCaseSound, LinkCaseSound, PauseSound
<1>5. CASE StopCase \/ StopRecord \/ WriteView \/ Finalize
  BY <1>5, StopCaseSound, StopRecordSound, WriteViewSound, FinalizeSound
<1>6. CASE WriteRaises \/ Dies
  BY <1>6, WriteRaisesSound, DiesSound
<1>7. ASSUME NEW c \in CallIds, OperatorAuthorizes(c) PROVE CollectorInv'
  BY <1>7, AuthorizeSound
<1>8. CASE UNCHANGED collectorVars
  BY <1>8, IdleSound
<1> QED
  BY <1>1, <1>2, <1>3, <1>4, <1>5, <1>6, <1>7, <1>8 DEF Next, Collect, ExecutorStep

\* The inductive invariant holds throughout.
LEMMA CollectorInvariant == Spec => []CollectorInv
BY CollectorInit, CollectorStep, PTL DEF Spec

-----------------------------------------------------------------------------
(***************************************************************************)
(* What follows for the files.                                             *)
(***************************************************************************)

\* Ledger, files and the collecting process keep to their types.
THEOREM CollectorTypeCorrect == Spec => []CollectorTypeOK
<1>1. CollectorInv => CollectorTypeOK
  BY DEF CollectorInv
<1> QED
  BY <1>1, CollectorInvariant, PTL

\* The record never vouches for a case that is not on disk as it says, and
\* linking a case is never refused: cases close in plan order, however often
\* the process died between the file, the journal and the record.
THEOREM LinksNeverRefused == Spec => []LinksFollowCases
<1>1. CollectorInv => LinksFollowCases
  <2> SUFFICES ASSUME CollectorInv PROVE LinksFollowCases
    OBVIOUS
  <2> DEFINE act == collector.activity
  <2>1. record # None => \A i \in Cases : record.links[i] # None => cases[i] = record.links[i]
    BY DEF CollectorInv, RecordsSound, Vouches, VouchesFor
  <2>2. ASSUME NEW i \in Cases, cases[i] # None, NEW k \in 1 .. i - 1
        PROVE  k \in Cases /\ k # i /\ cases[k] # None
    BY <2>2, CollectorAssumption DEF CollectorInv, CasesSound, CaseSound, Cases
  <2>3. CASE At("relink")
    <3>1. Held /\ Place = "relink"
      BY <2>3 DEF Held, Place, At
    <3>2. Vouches(act) /\ journal # None
      BY <3>1, RecordHeld
    <3>3. \A i \in Cases :
            /\ Status(i) = "complete" => cases[i] # None /\ journal[i].artifact = cases[i]
            /\ cases[i] # None => Status(i) = "complete"
            /\ act.links[i] # None => act.links[i] = cases[i]
      BY <3>1, <3>2 DEF CollectorInv, JournalSound, JournalCaughtUp, AtRest, Vouches, VouchesFor
    <3>4. RelinkAccepted(act.links, journal)
      BY <2>2, <3>3 DEF RelinkAccepted, Status
    <3> QED
      BY <2>1, <2>3, <3>4 DEF LinksFollowCases, At
  <2>4. CASE At("link")
    <3>1. Held /\ Place = "link"
      BY <2>4 DEF Held, Place, At
    <3>2. Vouches(act) /\ collector.case \in Cases /\ cases[collector.case] # None
      BY <3>1, RecordHeld DEF CollectorInv, WorkSound, JournalCaughtUp, InHand
    <3>3. \A k \in Cases : cases[k] # None => act.links[k] # None \/ k = collector.case
      BY <3>1 DEF CollectorInv, LoopSound, InHand
    <3>4. act.links[collector.case] \in {None, cases[collector.case]}
      BY <3>2 DEF Vouches, VouchesFor
    <3>5. LinkAccepted(act.links, collector.case, cases[collector.case])
      BY <2>2, <3>2, <3>3, <3>4 DEF LinkAccepted
    <3> QED
      BY <2>1, <2>4, <3>5 DEF LinksFollowCases, At
  <2>5. CASE ~At("relink") /\ ~At("link")
    BY <2>1, <2>5 DEF LinksFollowCases
  <2> QED
    BY <2>3, <2>4, <2>5
<1> QED
  BY <1>1, CollectorInvariant, PTL

\* A collection whose sealed record says that it is complete, without a stop,
\* passes every check of the offline replay, and the replay view is the cases.
THEOREM ClosedCollectionsReplay == Spec => []ClosedIsReplayable
<1>1. CollectorInv => ClosedIsReplayable
  <2> SUFFICES ASSUME CollectorInv, record # None, sidecar, record.calibration = "complete",
                      record.reason = "none"
               PROVE  ReplayAccepted /\ view = cases
    BY DEF ClosedIsReplayable
  <2>1. Vouches(record) /\ ClosedBy(record)
    BY DEF CollectorInv, RecordsSound, ClosedBy
  <2>2. plan /\ journal # None
    BY DEF CollectorInv, FilesSound
  <2>3. /\ record.journal = journal /\ view = cases /\ ~record.billing
        /\ record.models = ModelIds(CallIds) /\ Cardinality(record.models) = 1
        /\ \A i \in Cases : Status(i) = "complete" /\ record.links[i] = cases[i]
    BY <2>1 DEF Vouches, VouchesFor, Status
  <2>4. ASSUME NEW i \in Cases
        PROVE  /\ cases[i] # None /\ journal[i].artifact = cases[i]
               /\ cases[i] = Accounting(i)
               /\ RowsIn(i, CallState) = RowsIn(i, {"completed"})
    BY <2>2, <2>3 DEF CollectorInv, JournalSound, CasesSound, CaseSound
  <2>5. ModelIds(CallIds) = UNION {ModelIds(RowsOf(i)) : i \in Cases}
    BY CallsOfCases DEF ModelIds
  <2> QED
    BY <2>2, <2>3, <2>4, <2>5 DEF ReplayAccepted
<1> QED
  BY <1>1, CollectorInvariant, PTL

\* A collection that ended outside a record write, with no case stopped, no call
\* of unknown billing and no second model, is taken up by the next resume: the
\* journal reconciles, the ledger passes the audit and the links are accepted.
THEOREM EndedCollectionsResume == Spec => []EndedIsResumable
<1>1. CollectorInv => EndedIsResumable
  <2> SUFFICES ASSUME CollectorInv, journal # None, record # None,
                      \A c \in CallIds : calls[c].state \notin Unknown
               PROVE  /\ ReconcileAccepted(journal) /\ LedgerAccepted(Reconciled(journal))
                      /\ RelinkAccepted(record.links, Reconciled(journal))
    BY DEF EndedIsResumable
  <2> DEFINE j == Reconciled(journal)
             running == {i \in Cases : journal[i].status = "running"}
  <2>1. \A i \in Cases :
          /\ Status(i) = "complete" => cases[i] # None /\ journal[i].artifact = cases[i]
          /\ Status(i) # "complete" => journal[i].artifact = None
    BY DEF CollectorInv, JournalSound
  <2>2. Cardinality(running) <= 1
    <3>1. \A i, k \in running : i = k
      BY DEF CollectorInv, JournalSound, Status
    <3>2. IsFiniteSet(Cases)
      BY CollectorAssumption, FS_Interval DEF Cases
    <3>3. IsFiniteSet(running)
      BY <3>2, FS_Subset
    <3> HIDE DEF running
    <3> QED
      BY <3>1, <3>3, OneElement
  <2>3. ReconcileAccepted(journal)
    BY <2>1, <2>2 DEF ReconcileAccepted, Status
  <2>4. \A i \in Cases : (j[i].status = "complete" <=> cases[i] # None) /\ j[i].artifact = cases[i]
    BY ReconciledJournal
  <2> HIDE DEF j
  <2>5. ASSUME NEW i \in Cases
        PROVE  /\ cases[i] # None => cases[i] = Accounting(i)
                                     /\ RowsIn(i, CallState) = RowsIn(i, {"completed"})
               /\ RowsIn(i, Unknown) = {}
    BY CallsOfCases DEF CollectorInv, CasesSound, CaseSound, RowsIn
  <2>6. LedgerAccepted(j)
    BY <2>4, <2>5 DEF LedgerAccepted
  <2>7. ASSUME NEW i \in Cases, cases[i] # None, NEW k \in 1 .. i - 1
        PROVE  k \in Cases /\ cases[k] # None
    BY <2>7, CollectorAssumption DEF CollectorInv, CasesSound, CaseSound, Cases
  <2>8. \A i \in Cases : record.links[i] \in {None, cases[i]}
    BY DEF CollectorInv, RecordsSound, Vouches, VouchesFor
  <2>9. RelinkAccepted(record.links, j)
    BY <2>4, <2>7, <2>8 DEF RelinkAccepted
  <2> QED
    BY <2>3, <2>6, <2>9 DEF j
<1> QED
  BY <1>1, CollectorInvariant, PTL

-----------------------------------------------------------------------------
(***************************************************************************)
(* What a step never does.                                                 *)
(***************************************************************************)

\* A call is handed to the provider only by the executor, at its hand-over.
LEMMA OnlyHandOverPays == Next => CallHandOver \/ UNCHANGED handed
<1> SUFFICES ASSUME Next, ~CallHandOver PROVE UNCHANGED handed
  OBVIOUS
<1>1. ASSUME NEW t \in Tasks, CallReserve(t) \/ CallReuseStops(t) PROVE UNCHANGED handed
  BY <1>1 DEF CallReserve, CallReuseStops, ReserveCall, storeVars
<1>2. ASSUME NEW c \in CallIds, CallAnswer(c) \/ CallTransportFails(c) \/ OperatorAuthorizes(c)
      PROVE  UNCHANGED handed
  BY <1>2 DEF CallAnswer, CallTransportFails, OperatorAuthorizes, CompleteCall,
              MarkBillingUncertain, AuthorizeBillingUncertainRetry
<1>3. ASSUME UNCHANGED storeVars PROVE UNCHANGED handed
  BY <1>3 DEF storeVars
<1>4. ASSUME NEW batch \in Batches, CollectFresh(batch) \/ CollectResume(batch)
      PROVE  UNCHANGED storeVars
  BY <1>4 DEF CollectFresh, CollectResume
<1>5. CASE \/ CreateJournal \/ CreateRecord \/ PersistSidecar
           \/ AuditLedger \/ RelinkCases \/ CheckModels \/ RunFails \/ RunEnds
  BY <1>3, <1>5 DEF CreateJournal, CreateRecord, PersistSidecar, AuditLedger, RelinkCases,
     CheckModels, RunFails, RunEnds
<1>6. CASE BeginCase \/ OpenPhase \/ WriteCase \/ CloseCase \/ LinkCase \/ PauseCollection
  BY <1>3, <1>6 DEF BeginCase, OpenPhase, WriteCase, CloseCase, LinkCase, PauseCollection
<1>7. CASE StopCase \/ StopRecord \/ WriteView \/ Finalize \/ WriteRaises \/ Dies
  BY <1>3, <1>7 DEF StopCase, StopRecord, WriteView, Finalize, WriteRaises, Dies
<1> QED
  BY <1>1, <1>2, <1>3, <1>4, <1>5, <1>6, <1>7 DEF Next, Collect

\* No call is paid for unless the activity on disk, sealed, says that calibration
\* is running and that nothing has stopped it.
THEOREM NoPaymentUnderAStop == Spec => NoPaidCallWhileStopped
<1>1. CollectorInv /\ [Next]_collectorVars =>
        [\A c \in CallIds : handed'[c] # handed[c] =>
           sidecar /\ record.calibration = "running" /\ record.reason = "none"]_collectorVars
  <2> SUFFICES ASSUME CollectorInv, Next, NEW c \in CallIds, handed'[c] # handed[c]
               PROVE  sidecar /\ record.calibration = "running" /\ record.reason = "none"
    OBVIOUS
  <2>1. collector.pc = "hand"
    BY OnlyHandOverPays DEF CallHandOver, At
  <2>2. Held /\ Place = "hand" /\ ~At("sidecar")
    BY <2>1 DEF Held, Place, At
  <2> QED
    BY <2>1, <2>2, RecordHeld DEF CollectorInv, LoopSound
<1> QED
  BY <1>1, CollectorInvariant, PTL DEF Spec, NoPaidCallWhileStopped

\* A closed case is paid for and begun once: its file and the rows of its calls
\* never change again.
THEOREM ClosedCasesStayClosed == Spec => ClosedCasesAreFinal
<1> DEFINE Stays(i) ==
             /\ cases'[i] = cases[i]
             /\ \A c \in RowsOf(i) : calls'[c] = calls[c]
             /\ journal'[i].status = "running" => Status(i) = "running"
<1>1. CollectorInv /\ [Next]_collectorVars =>
        [\A i \in Cases : cases[i] # None => Stays(i)]_collectorVars
  <2> SUFFICES ASSUME CollectorInv, Next, NEW i \in Cases, cases[i] # None PROVE Stays(i)
    OBVIOUS
  <2>1. /\ StoreTypeOK /\ RowsSound /\ CasesSound /\ RowsOf(i) \subseteq CallIds
        /\ record # None /\ journal # None /\ journal \in [Cases -> CaseState]
        /\ cases \in [Cases -> Case \cup {None}]
    BY CallsOfCases DEF CollectorInv, CollectorTypeOK, FilesSound
  <2>2. ASSUME UNCHANGED <<calls, cases, journal>> PROVE Stays(i)
    BY <2>2 DEF Status
  <2>3. ASSUME NEW k, RowsMove(k), UNCHANGED <<cases, journal>>,
               k \in Cases => cases[k] = None, k \notin Cases => RowsOf(k) \cap CallIds = {}
        PROVE  Stays(i)
    BY <2>1, <2>3, MoveKeeps DEF Status
  <2>4. ASSUME NEW batch \in Batches, CollectFresh(batch) PROVE Stays(i)
    BY <2>2, <2>4 DEF CollectFresh, storeVars
  <2>5. ASSUME NEW batch \in Batches, CollectResume(batch) PROVE Stays(i)
    <3>1. journal' = Reconciled(journal) /\ UNCHANGED <<storeVars, cases>>
      BY <2>5 DEF CollectResume
    <3>2. journal'[i].status # "running"
      BY <2>1, <3>1, ReconciledJournal
    <3> QED
      BY <3>1, <3>2 DEF storeVars
  <2>6. CASE ExecutorStep
    <3>1. RowsMove(collector.case) /\ UNCHANGED <<cases, journal>>
      BY <2>6, ExecutorSound DEF ExecutorStep, fileVars
    <3>2. collector.pc \in {"exec", "hand"}
      BY <2>6 DEF ExecutorStep, CallReserve, CallReuseStops, CallHandOver, RunFails, RunEnds,
                  CallAnswer, CallTransportFails, At
    <3>3. collector.case \in Cases /\ cases[collector.case] = None
      BY <3>2 DEF CollectorInv, WorkSound, JournalCaughtUp, Place, At, InHand
    <3> QED
      BY <2>3, <3>1, <3>3
  <2>7. CASE CreateJournal
    BY <2>1, <2>7 DEF CreateJournal, CollectorInv, FilesSound
  <2>8. CASE \/ CreateRecord \/ PersistSidecar \/ RelinkCases \/ CheckModels
    BY <2>2, <2>8 DEF CreateRecord, PersistSidecar, RelinkCases, CheckModels, storeVars
  <2>9. CASE AuditLedger
    <3>1. UNCHANGED <<calls, cases>> /\ (UNCHANGED journal \/ journal' = Requeued(journal))
      BY <2>9 DEF AuditLedger, storeVars
    <3>2. Requeued(journal)[i].status = "running" => Status(i) = "running"
      BY DEF Requeued, Entry, Status
    <3> QED
      BY <3>1, <3>2 DEF Status
  <2>10. CASE BeginCase
    <3>1. Place = "loop" /\ Open # {} /\ UNCHANGED <<calls, cases>>
          /\ (UNCHANGED journal \/ journal' = [journal EXCEPT ![Min(Open)] = Entry("running")])
      BY <2>10 DEF BeginCase, Place, At, storeVars
    <3>2. Status(i) = "complete"
      BY <3>1 DEF CollectorInv, JournalCaughtUp, AtRest
    <3>3. Min(Open) # i
      BY <3>1, <3>2, NextCase
    <3> QED
      BY <2>1, <3>1, <3>3 DEF Status
  <2>11. CASE WriteCase
    <3>1. /\ collector.pc = "build" /\ UNCHANGED <<calls, journal>>
          /\ \/ UNCHANGED cases
             \/ cases' = [cases EXCEPT ![collector.case] = Accounting(collector.case)]
      BY <2>11 DEF WriteCase, At, storeVars
    <3>2. cases[collector.case] = None
      BY <3>1 DEF CollectorInv, JournalCaughtUp, Place, At
    <3> QED
      BY <2>1, <3>1, <3>2 DEF Status
  <2>12. CASE CloseCase \/ StopCase
    <3>1. UNCHANGED <<calls, cases>>
      BY <2>12 DEF CloseCase, StopCase, storeVars
    <3>2. journal'[i].status = "running" => journal[i].status = "running"
      BY <2>1, <2>12 DEF CloseCase, StopCase, Entry
    <3> QED
      BY <3>1, <3>2 DEF Status
  <2>13. CASE OpenPhase \/ LinkCase \/ PauseCollection
    BY <2>2, <2>13 DEF OpenPhase, LinkCase, PauseCollection, storeVars
  <2>14. CASE StopRecord \/ WriteView \/ Finalize \/ WriteRaises \/ Dies
    BY <2>2, <2>14 DEF StopRecord, WriteView, Finalize, WriteRaises, Dies, storeVars, fileVars
  <2>15. ASSUME NEW c \in CallIds, OperatorAuthorizes(c) PROVE Stays(i)
    <3>1. /\ UNCHANGED <<cases, journal>>
          /\ \E audit \in Audits : AuthorizeBillingUncertainRetry(c, audit)
      BY <2>15 DEF OperatorAuthorizes, fileVars
    <3>2. 0 \notin Cases /\ RowsOf(0) \cap CallIds = {}
      BY CollectorAssumption DEF Cases, RowsOf
    <3>3. RowsMove(0)
      BY <2>1, <3>1, TransactionsMove
    <3> QED
      BY <2>3, <3>1, <3>2, <3>3
  <2> QED
    BY <2>4, <2>5, <2>6, <2>7, <2>8, <2>9, <2>10, <2>11, <2>12, <2>13, <2>14, <2>15
       DEF Next, Collect, ExecutorStep
<1>2. ClosedCasesAreFinal <=>
        [][\A i \in Cases : cases[i] # None => Stays(i)]_collectorVars
  BY DEF ClosedCasesAreFinal
<1> QED
  BY <1>1, <1>2, CollectorInvariant, PTL DEF Spec

==============================================================================
