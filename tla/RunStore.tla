------------------------------ MODULE RunStore ------------------------------
(***************************************************************************)
(* The SQLite call ledger, class SQLiteRunStore of artifacts.py.           *)
(*                                                                         *)
(* Every operation is one BEGIN IMMEDIATE ... COMMIT transaction, so it is *)
(* one atomic action here.  An operation that raises rolls back; what it   *)
(* would raise is given by the ...Outcome operators, and only outcomes     *)
(* that write a row are actions.  Money is in micro-CNY.                   *)
(*                                                                         *)
(* Timestamps, token counts, aliases and model ids are not modelled.       *)
(***************************************************************************)
EXTENDS Integers, FiniteSets, FiniteSetsExt

CONSTANTS
  CallIds,    \* call_id primary keys
  Slots,      \* (run_id, node, task_id, logical_attempt) tuples
  Requests,   \* request fingerprints (sha256 of the request, modulo "/v1")
  Payloads,   \* redacted response bodies
  Audits,     \* (reason, evidence) pairs an operator can write down
  Estimates,  \* reservations: cost of max_input_tokens + max_output_tokens
  Actuals,    \* cost of the usage a provider reports
  Cap,        \* cap_micro_cny
  None,       \* SQL NULL
  MaxReopen,  \* bound: times one call is returned to 'reserved'
  MaxAttempts \* bound: transport_attempts of one row

ASSUME StoreAssumption ==
  /\ IsFiniteSet(CallIds)
  /\ Estimates \subseteq Nat
  /\ Actuals \subseteq Nat
  /\ Cap \in Nat
  /\ MaxReopen \in Nat
  /\ MaxAttempts \in Nat
  /\ None \notin Slots \cup Requests \cup Payloads \cup Audits

VARIABLES
  calls,    \* table calls: one row per call id, Absent when not inserted
  events,   \* table billing_recovery_events: the audit record, or None
  handed,   \* history: how often mark_sent handed the call to the provider
  reopened  \* history: how often a sent call was returned to 'reserved'

storeVars == <<calls, events, handed, reopened>>

(***************************************************************************)
(* Rows.                                                                   *)
(***************************************************************************)
CallState == {"reserved", "sent", "completed", "usage_missing", "billing_uncertain"}
Final     == {"completed", "usage_missing"}
Unknown   == {"sent", "billing_uncertain"}

\* Token usage of a response: complete with its cost, or not reported.
Usages == [complete : {TRUE}, cost : Actuals] \cup [complete : {FALSE}, cost : {0}]

Absent == [state |-> "absent", slot |-> None, request |-> None, reserved |-> 0,
           actual |-> 0, payload |-> None, attempts |-> 0]

Row == [state    : CallState \cup {"absent"},
        slot     : Slots \cup {None},
        request  : Requests \cup {None},
        reserved : Nat,
        actual   : Nat,
        payload  : Payloads \cup {None},
        attempts : Nat]

StoreTypeOK ==
  /\ calls \in [CallIds -> Row]
  /\ events \in [CallIds -> Audits \cup {None}]
  /\ handed \in [CallIds -> Nat]
  /\ reopened \in [CallIds -> Nat]

\* What a row counts against the cap in reserve_call's SUM(CASE ...).
Charge(row) == IF row.state = "completed" THEN row.actual ELSE row.reserved

Committed == MapThenSumSet(LAMBDA c : Charge(calls[c]), CallIds)

(***************************************************************************)
(* resume_decision: what the client must do with a call, or the error.     *)
(***************************************************************************)
ResumeDecision(c, req) ==
  LET row == calls[c] IN
  CASE row.state = "absent"        -> "send"
    [] row.state # "absent" /\ row.request # req -> "fingerprint_mismatch"
    [] OTHER ->
         CASE row.state = "completed"     -> "reuse"
           [] row.state = "usage_missing" -> "reuse_and_stop"
           [] row.state = "reserved"      -> "send"
           [] row.state \in Unknown       -> "billing_state"

(***************************************************************************)
(* reserve_call: an existing row is checked and returned; a new one must   *)
(* own its logical slot and fit under the cap.                             *)
(***************************************************************************)
\* Slip: only what is already committed is compared with the cap.
ReserveOutcomeLate(c, req, slot, amount) ==
  LET row == calls[c] IN
  IF row.state # "absent"
    THEN IF row.request # req THEN "fingerprint_mismatch"
         ELSE IF row.state \in Unknown THEN "billing_state" ELSE "existing"
    ELSE IF \E d \in CallIds : calls[d].slot = slot THEN "billing_state"
         ELSE IF Committed > Cap THEN "budget_exceeded" ELSE "inserted"

ReserveOutcome(c, req, slot, amount) ==
  LET row == calls[c] IN
  IF row.state # "absent"
    THEN CASE row.request # req        -> "fingerprint_mismatch"
           [] row.request = req /\ row.state \in Unknown -> "billing_state"
           [] OTHER                    -> "existing"
    ELSE CASE \E d \in CallIds : calls[d].slot = slot -> "billing_state"
           [] (\A d \in CallIds : calls[d].slot # slot)
                /\ Committed + amount > Cap -> "budget_exceeded"
           [] OTHER                    -> "inserted"

ReserveCall(c, req, slot, amount) ==
  /\ ReserveOutcome(c, req, slot, amount) = "inserted"
  /\ calls' = [calls EXCEPT ![c] = [Absent EXCEPT !.state = "reserved",
                                                  !.slot = slot,
                                                  !.request = req,
                                                  !.reserved = amount]]
  /\ UNCHANGED <<events, handed, reopened>>

(***************************************************************************)
(* The state transitions of a row.                                         *)
(***************************************************************************)
\* Slip: the UPDATE forgets "AND state = 'reserved'".
MarkSentUnguarded(c) ==
  /\ calls[c].state \in {"reserved"} \cup Unknown
  /\ calls' = [calls EXCEPT ![c].state = "sent", ![c].attempts = @ + 1]
  /\ handed' = [handed EXCEPT ![c] = @ + 1]
  /\ UNCHANGED <<events, reopened>>

MarkSent(c) ==
  /\ calls[c].state = "reserved"
  /\ calls' = [calls EXCEPT ![c].state = "sent", ![c].attempts = @ + 1]
  /\ handed' = [handed EXCEPT ![c] = @ + 1]
  /\ UNCHANGED <<events, reopened>>

MarkTransportRetry(c) ==
  /\ calls[c].state = "sent"
  /\ calls[c].attempts < MaxAttempts          \* model bound
  /\ calls' = [calls EXCEPT ![c].attempts = @ + 1]
  /\ UNCHANGED <<events, handed, reopened>>

MarkRetryableNotBilled(c) ==
  /\ calls[c].state = "sent"
  /\ reopened[c] < MaxReopen                  \* model bound
  /\ calls' = [calls EXCEPT ![c].state = "reserved"]
  /\ reopened' = [reopened EXCEPT ![c] = @ + 1]
  /\ UNCHANGED <<events, handed>>

MarkBillingUncertain(c) ==
  /\ calls[c].state = "sent"
  /\ calls' = [calls EXCEPT ![c].state = "billing_uncertain"]
  /\ UNCHANGED <<events, handed, reopened>>

\* Slip: a later authorization replaces the audit record.
AuthorizeReplacing(c, audit) ==
  /\ calls[c].state = "billing_uncertain"
  /\ reopened[c] < MaxReopen
  /\ calls' = [calls EXCEPT ![c].state = "reserved"]
  /\ events' = [events EXCEPT ![c] = audit]
  /\ reopened' = [reopened EXCEPT ![c] = @ + 1]
  /\ UNCHANGED handed

\* authorize_billing_uncertain_retry: the first authorization is recorded, a
\* later one must repeat it word for word.
AuthorizeBillingUncertainRetry(c, audit) ==
  /\ calls[c].state = "billing_uncertain"
  /\ events[c] \in {None, audit}
  /\ reopened[c] < MaxReopen                  \* model bound
  /\ calls' = [calls EXCEPT ![c].state = "reserved"]
  /\ events' = [events EXCEPT ![c] = audit]
  /\ reopened' = [reopened EXCEPT ![c] = @ + 1]
  /\ UNCHANGED handed

(***************************************************************************)
(* complete_call: the first response wins; any state that is not final is  *)
(* overwritten.  A response dearer than its reservation is recorded before *)
(* BudgetExceeded is raised.                                               *)
(***************************************************************************)
\* Slip: a late response overwrites the one on record.
CompleteOutcomeOverwriting(c, req, usage) ==
  IF calls[c].request # req THEN "fingerprint_mismatch"
  ELSE IF usage.complete /\ usage.cost > calls[c].reserved THEN "budget_exceeded" ELSE "recorded"

CompleteOutcome(c, req, usage) ==
  LET row == calls[c] IN
  CASE row.request # req                         -> "fingerprint_mismatch"
    [] row.request = req /\ row.state \in Final  -> "stored"
    [] OTHER -> IF usage.complete /\ usage.cost > row.reserved
                  THEN "budget_exceeded" ELSE "recorded"

CompleteCall(c, req, payload, usage) ==
  /\ calls[c].state # "absent"
  /\ CompleteOutcome(c, req, usage) \in {"recorded", "budget_exceeded"}
  /\ calls' = [calls EXCEPT
                 ![c].state   = IF usage.complete THEN "completed" ELSE "usage_missing",
                 ![c].actual  = usage.cost,
                 ![c].payload = payload]
  /\ UNCHANGED <<events, handed, reopened>>

(***************************************************************************)
(* Reading the ledger.                                                     *)
(***************************************************************************)
\* unresolved_call_states of the run that owns the call ids in ids.
Unresolved(ids) == {c \in ids : calls[c].state \notin {"absent", "completed"}}

(***************************************************************************)
(* Any client may call any operation at any time.                          *)
(***************************************************************************)
StoreInit ==
  /\ calls = [c \in CallIds |-> Absent]
  /\ events = [c \in CallIds |-> None]
  /\ handed = [c \in CallIds |-> 0]
  /\ reopened = [c \in CallIds |-> 0]

StoreNext ==
  \E c \in CallIds :
    \/ \E req \in Requests, slot \in Slots, amount \in Estimates :
         ReserveCall(c, req, slot, amount)
    \/ MarkSent(c)
    \/ MarkTransportRetry(c)
    \/ MarkRetryableNotBilled(c)
    \/ MarkBillingUncertain(c)
    \/ \E audit \in Audits : AuthorizeBillingUncertainRetry(c, audit)
    \/ \E req \in Requests, payload \in Payloads, usage \in Usages :
         CompleteCall(c, req, payload, usage)

StoreSpec == StoreInit /\ [][StoreNext]_storeVars

(***************************************************************************)
(* Properties.                                                             *)
(***************************************************************************)

\* A call has been handed to the provider exactly as often as it was reopened
\* while it is waiting to be sent, once more while its billing is unknown, and
\* never more than that afterwards.  This is the at-most-once payment promise
\* of the reserved -> sent -> ... life cycle in its inductive form.
HandedOncePerOpening ==
  \A c \in CallIds :
    /\ calls[c].state \in {"absent", "reserved"} => handed[c] = reopened[c]
    /\ calls[c].state \in Unknown => handed[c] = reopened[c] + 1
    /\ calls[c].state \in Final => handed[c] \in {reopened[c], reopened[c] + 1}

\* The cap bounds what the activity has committed, except by the amount the
\* provider itself charged beyond a reservation: serialized reservations never
\* cross it, whatever mixture of open, uncertain and usage-less rows exists.
Overrun(row) ==
  IF row.state = "completed" /\ row.actual > row.reserved
    THEN row.actual - row.reserved ELSE 0

CommittedWithinCap ==
  Committed <= Cap + MapThenSumSet(LAMBDA c : Overrun(calls[c]), CallIds)

\* No two rows share a logical slot: a call site cannot be paid for twice under
\* two different call ids.
SlotOwnedOnce ==
  \A c, d \in CallIds : calls[c].slot # None /\ calls[c].slot = calls[d].slot => c = d

\* The audit trail survives: an authorization once recorded is never replaced,
\* removed or reworded, however often the call becomes uncertain again.
AuditTrailKept ==
  [][\A c \in CallIds : events[c] # None => events'[c] = events[c]]_storeVars

\* The ledger implements the abstract promise about paid calls: the billing
\* phase of a row, its first answer, and the hand-over history.
Phase(state) ==
  CASE state \in {"absent", "reserved"} -> "idle"
    [] state \in Unknown                -> "open"
    [] state \in Final                  -> "settled"

Paid == INSTANCE PaidCalls WITH
  billing <- [c \in CallIds |-> Phase(calls[c].state)],
  answer  <- [c \in CallIds |-> calls[c].payload]

PaidSpec == Paid!Spec

=============================================================================
