---------------------------- MODULE StructuredLLM ----------------------------
(***************************************************************************)
(* The paid-call client, class StructuredLLM of llm.py, on top of the      *)
(* ledger of RunStore.                                                     *)
(*                                                                         *)
(* A process works on one run.  Each call site of the run (a node and task *)
(* of the graph) is a coroutine that invokes one structured call: ask the  *)
(* ledger what to do, reserve, mark sent, await the provider, record the   *)
(* answer, repair an invalid answer once.  Coroutines interleave at every  *)
(* ledger transaction, can be cancelled at an await, and die with their    *)
(* process.  A later process starts the run again over the same ledger, in *)
(* recovery mode after an operator authorized the uncertain calls.         *)
(***************************************************************************)
EXTENDS RunStore

CONSTANTS
  Procs,         \* operating-system processes that open the ledger
  Sites,         \* call sites: (run_id, node, task_id)
  Prompts,       \* message lists a site may be invoked with
  ValidPayloads, \* answers that satisfy the schema
  Retries,       \* settings.transient_retries
  MaxSessions    \* bound: process starts

\* logical_attempt is 0 (base) or 1 (repair or recovery rebase); 2 is room for
\* a client that would go further.
LogicalAttempts == 0 .. 2

\* What _request_hash covers: the messages (with the validation error of the
\* answer a repair quotes) and the logical attempt.
RequestOf(prompt, repairs, attempt) ==
  [prompt |-> prompt, repairs |-> repairs, attempt |-> attempt]

ASSUME LlmAssumption ==
  /\ CallIds = Sites \X LogicalAttempts
  /\ Slots = CallIds
  /\ Requests = [prompt : Prompts, repairs : Payloads \cup {None}, attempt : LogicalAttempts]
  /\ ValidPayloads \subseteq Payloads
  /\ Retries \in Nat /\ MaxSessions \in Nat

VARIABLES
  session,    \* session[p]: the run process p is executing, if any
  co,         \* co[p][s]: the coroutine of site s in process p
  starts,     \* process starts so far
  recovering  \* TRUE once the run was requeued for billing recovery

llmVars == <<session, co, starts, recovering>>
vars == <<storeVars, llmVars>>

NoSession == [live |-> FALSE, recovery |-> FALSE, authorized |-> {}]

Idle == [pc |-> "idle", attempt |-> 0, shift |-> FALSE, prompt |-> None,
         repairs |-> None, tries |-> 0, answer |-> None, out |-> None]

Outcomes == {"value", "invalid_output", "usage_unavailable", "billing_uncertain",
             "billing_state", "budget_exceeded", "fingerprint_mismatch", "cancelled"}

Coroutine ==
  [pc      : {"idle", "decide", "reserve", "mark_sent", "await", "flag", "complete", "done"},
   attempt : LogicalAttempts,
   shift   : BOOLEAN,                          \* may still move to the next slot
   prompt  : Prompts \cup {None},
   repairs : Payloads \cup {None},
   tries   : 0 .. Retries,
   answer  : [payload : Payloads, usage : Usages] \cup {None},
   out     : Outcomes \cup {None}]

TypeOK ==
  /\ StoreTypeOK
  /\ session \in [Procs -> [live : BOOLEAN, recovery : BOOLEAN, authorized : SUBSET CallIds]]
  /\ co \in [Procs -> [Sites -> Coroutine]]
  /\ starts \in 0 .. MaxSessions
  /\ recovering \in BOOLEAN

\* The call a coroutine is working on (make_call_id) and its request hash.
CallOf(p, s) == <<s, co[p][s].attempt>>
RequestIn(p, s) == RequestOf(co[p][s].prompt, co[p][s].repairs, co[p][s].attempt)

At(p, s, pc) == co[p][s].pc = pc
Become(p, s, record) == co' = [co EXCEPT ![p][s] = record]
Finish(p, s, out) ==
  Become(p, s, [co[p][s] EXCEPT !.pc = "done", !.shift = FALSE, !.tries = 0, !.out = out])
Rest == UNCHANGED <<session, starts, recovering>>

(***************************************************************************)
(* invoke: attempt 0, or attempt 1 when the run is being recovered and the *)
(* base call neither completed nor was authorized.                         *)
(***************************************************************************)
RecoveryWanted(p, s) ==
  session[p].recovery /\ <<s, 0>> \notin session[p].authorized

\* Slip: a base call that completed is not looked for.
RebasedBlindly(p, s) == RecoveryWanted(p, s)

Rebased(p, s) == RecoveryWanted(p, s) /\ calls[<<s, 0>>].state # "completed"

Invoke(p, s) ==
  /\ session[p].live
  /\ At(p, s, "idle")
  /\ \E prompt \in Prompts :
       Become(p, s, [Idle EXCEPT !.pc = "decide",
                                 !.attempt = IF Rebased(p, s) THEN 1 ELSE 0,
                                 !.shift = RecoveryWanted(p, s) /\ ~Rebased(p, s),
                                 !.prompt = prompt])
  /\ Rest /\ UNCHANGED storeVars

\* Slip: repairs are counted one too far.
JudgeTwice(p, s, payload) ==
  IF payload \in ValidPayloads THEN Finish(p, s, "value")
  ELSE IF co[p][s].attempt >= 2 THEN Finish(p, s, "invalid_output")
  ELSE Become(p, s, [Idle EXCEPT !.pc = "decide", !.attempt = co[p][s].attempt + 1,
                                 !.prompt = co[p][s].prompt, !.repairs = payload])

\* An answer is parsed; an invalid one is repaired once, at attempt 1.
Judge(p, s, payload) ==
  CASE payload \in ValidPayloads -> Finish(p, s, "value")
    [] payload \notin ValidPayloads /\ co[p][s].attempt >= 1 ->
         Finish(p, s, "invalid_output")
    [] OTHER ->
         Become(p, s, [Idle EXCEPT !.pc = "decide", !.attempt = 1,
                                   !.prompt = co[p][s].prompt, !.repairs = payload])

(***************************************************************************)
(* resume_decision and what follows from it.                               *)
(***************************************************************************)
ReuseAnswer(p, s) ==
  LET payload == calls[CallOf(p, s)].payload
      cached == [payload |-> payload,
                 usage |-> [complete |-> TRUE, cost |-> calls[CallOf(p, s)].actual]]
  IN  IF payload \in ValidPayloads \/ co[p][s].attempt >= 1
        THEN Become(p, s, [co[p][s] EXCEPT
               !.pc = "done", !.shift = FALSE, !.answer = cached,
               !.out = IF payload \in ValidPayloads THEN "value" ELSE "invalid_output"])
        ELSE Judge(p, s, payload)

\* Slip: the slot found taken is asked for again.
DecideSameSlot(p, s) ==
  /\ At(p, s, "decide")
  /\ LET decision == ResumeDecision(CallOf(p, s), RequestIn(p, s)) IN
     \/ /\ decision = "fingerprint_mismatch" /\ co[p][s].shift
        /\ UNCHANGED co
     \/ /\ decision = "fingerprint_mismatch" /\ ~co[p][s].shift
        /\ Finish(p, s, "fingerprint_mismatch")
     \/ /\ decision = "billing_state"
        /\ Finish(p, s, "billing_state")
     \/ /\ decision = "reuse_and_stop"
        /\ Finish(p, s, "usage_unavailable")
     \/ /\ decision = "reuse"
        /\ ReuseAnswer(p, s)
     \/ /\ decision = "send"
        /\ Become(p, s, [co[p][s] EXCEPT !.pc = "reserve", !.shift = FALSE])
  /\ Rest /\ UNCHANGED storeVars

Decide(p, s) ==
  /\ At(p, s, "decide")
  /\ LET decision == ResumeDecision(CallOf(p, s), RequestIn(p, s)) IN
     \/ /\ decision = "fingerprint_mismatch" /\ co[p][s].shift
        /\ Become(p, s, [co[p][s] EXCEPT !.attempt = @ + 1, !.shift = FALSE])
     \/ /\ decision = "fingerprint_mismatch" /\ ~co[p][s].shift
        /\ Finish(p, s, "fingerprint_mismatch")
     \/ /\ decision = "billing_state"
        /\ Finish(p, s, "billing_state")
     \/ /\ decision = "reuse_and_stop"
        /\ Finish(p, s, "usage_unavailable")
     \/ /\ decision = "reuse"
        /\ ReuseAnswer(p, s)
     \/ /\ decision = "send"
        /\ Become(p, s, [co[p][s] EXCEPT !.pc = "reserve", !.shift = FALSE])
  /\ Rest /\ UNCHANGED storeVars

(***************************************************************************)
(* reserve_call, mark_sent.                                                *)
(***************************************************************************)
Reserve(p, s) ==
  /\ At(p, s, "reserve")
  /\ \E amount \in Estimates :
       LET outcome == ReserveOutcome(CallOf(p, s), RequestIn(p, s), CallOf(p, s), amount) IN
       \/ /\ outcome = "inserted"
          /\ ReserveCall(CallOf(p, s), RequestIn(p, s), CallOf(p, s), amount)
          /\ Become(p, s, [co[p][s] EXCEPT !.pc = "mark_sent"])
       \/ /\ outcome = "existing"
          /\ Become(p, s, [co[p][s] EXCEPT !.pc = "mark_sent"])
          /\ UNCHANGED storeVars
       \/ /\ outcome \notin {"inserted", "existing"}
          /\ Finish(p, s, outcome)
          /\ UNCHANGED storeVars
  /\ Rest

\* Slip: the transport is called without mark_sent.
HandOverUnmarked(p, s) ==
  /\ At(p, s, "mark_sent")
  /\ Become(p, s, [co[p][s] EXCEPT !.pc = "await"])
  /\ Rest /\ UNCHANGED storeVars

HandOver(p, s) ==
  /\ At(p, s, "mark_sent")
  /\ \/ /\ MarkSent(CallOf(p, s))
        /\ Become(p, s, [co[p][s] EXCEPT !.pc = "await"])
     \/ /\ calls[CallOf(p, s)].state # "reserved"
        /\ Finish(p, s, "billing_state")
        /\ UNCHANGED storeVars
  /\ Rest

(***************************************************************************)
(* The provider: an answer with or without usage, a retryable error (429   *)
(* or 5xx), any other failure.  The transport retries on its own.          *)
(***************************************************************************)
ProviderAnswers(p, s) ==
  /\ At(p, s, "await")
  /\ \E payload \in Payloads, usage \in Usages :
       Become(p, s, [co[p][s] EXCEPT !.pc = "complete", !.tries = 0,
                                     !.answer = [payload |-> payload, usage |-> usage]])
  /\ Rest /\ UNCHANGED storeVars

RetryTransport(p, s) ==
  /\ At(p, s, "await")
  /\ co[p][s].tries < Retries
  /\ \/ /\ MarkTransportRetry(CallOf(p, s))
        /\ Become(p, s, [co[p][s] EXCEPT !.tries = @ + 1])
     \/ /\ calls[CallOf(p, s)].state # "sent"
        /\ Become(p, s, [co[p][s] EXCEPT !.pc = "flag", !.tries = 0])
        /\ UNCHANGED storeVars
  /\ Rest

\* Slip: the failure is raised without flagging the call.
TransportFailsUnflagged(p, s) ==
  /\ At(p, s, "await")
  /\ Finish(p, s, "billing_uncertain")
  /\ Rest /\ UNCHANGED storeVars

TransportFails(p, s) ==
  /\ At(p, s, "await")
  /\ Become(p, s, [co[p][s] EXCEPT !.pc = "flag", !.tries = 0])
  /\ Rest /\ UNCHANGED storeVars

\* except Exception: mark_billing_uncertain, then raise BillingUncertain.
Flag(p, s) ==
  /\ At(p, s, "flag")
  /\ \/ /\ MarkBillingUncertain(CallOf(p, s))
        /\ Finish(p, s, "billing_uncertain")
     \/ /\ calls[CallOf(p, s)].state # "sent"
        /\ Finish(p, s, "billing_state")
        /\ UNCHANGED storeVars
  /\ Rest

(***************************************************************************)
(* complete_call, then the checks on what came back.                       *)
(***************************************************************************)
\* Slip: a response without usage is used.
AfterAnswerUnpriced(p, s, overBudget) ==
  IF overBudget THEN Finish(p, s, "budget_exceeded") ELSE Judge(p, s, co[p][s].answer.payload)

AfterAnswer(p, s, overBudget) ==
  LET answer == co[p][s].answer IN
  CASE overBudget -> Finish(p, s, "budget_exceeded")
    [] ~overBudget /\ ~answer.usage.complete -> Finish(p, s, "usage_unavailable")
    [] OTHER -> Judge(p, s, answer.payload)

Complete(p, s) ==
  /\ At(p, s, "complete")
  /\ LET answer == co[p][s].answer
         outcome == CompleteOutcome(CallOf(p, s), RequestIn(p, s), answer.usage) IN
     \/ /\ outcome \in {"recorded", "budget_exceeded"}
        /\ CompleteCall(CallOf(p, s), RequestIn(p, s), answer.payload, answer.usage)
        /\ AfterAnswer(p, s, outcome = "budget_exceeded")
     \/ /\ outcome = "stored"
        /\ AfterAnswer(p, s, FALSE)
        /\ UNCHANGED storeVars
  /\ Rest

\* A task cancelled while it awaits (a sibling task failed, or Ctrl-C) raises
\* CancelledError, which "except Exception" does not see.
Cancel(p, s) ==
  /\ At(p, s, "await")
  /\ Finish(p, s, "cancelled")
  /\ Rest /\ UNCHANGED storeVars

Step(p, s) ==
  \/ Decide(p, s) \/ Reserve(p, s) \/ HandOver(p, s) \/ ProviderAnswers(p, s)
  \/ RetryTransport(p, s) \/ TransportFails(p, s) \/ Flag(p, s) \/ Complete(p, s)

(***************************************************************************)
(* The environment: processes, the resume audit and the operator.          *)
(***************************************************************************)

\* A process starts (or starts again) on the run.  Once the run was requeued
\* for recovery its stale artifact keeps ordinary resumes out.
Start(p) ==
  /\ ~session[p].live /\ starts < MaxSessions /\ ~recovering
  /\ session' = [session EXCEPT ![p] = [NoSession EXCEPT !.live = TRUE]]
  /\ starts' = starts + 1
  /\ UNCHANGED <<storeVars, co, recovering>>

\* Recovery: every unresolved call of the run is reserved and authorized.
StartRecovery(p) ==
  /\ ~session[p].live /\ starts \in 1 .. MaxSessions - 1
  /\ \A c \in Unresolved(CallIds) : calls[c].state = "reserved" /\ events[c] # None
  /\ session' = [session EXCEPT ![p] = [live |-> TRUE, recovery |-> TRUE,
                                        authorized |-> Unresolved(CallIds)]]
  /\ starts' = starts + 1
  /\ recovering' = TRUE
  /\ UNCHANGED <<storeVars, co>>

\* The process ends or dies; nothing but the ledger survives.
Exit(p) ==
  /\ session[p].live
  /\ session' = [session EXCEPT ![p] = NoSession]
  /\ co' = [co EXCEPT ![p] = [s \in Sites |-> Idle]]
  /\ UNCHANGED <<storeVars, starts, recovering>>

\* CampaignRunner.resume flags the sent calls of an interrupted run before it
\* executes anything.
AuditInterrupted(c) ==
  /\ \E p \in Procs : ~session[p].live
  /\ MarkBillingUncertain(c)
  /\ UNCHANGED llmVars

OperatorAuthorizes(c) ==
  /\ \E audit \in Audits : AuthorizeBillingUncertainRetry(c, audit)
  /\ UNCHANGED llmVars

-----------------------------------------------------------------------------
Init ==
  /\ StoreInit
  /\ session = [p \in Procs |-> NoSession]
  /\ co = [p \in Procs |-> [s \in Sites |-> Idle]]
  /\ starts = 0
  /\ recovering = FALSE

Next ==
  \/ \E p \in Procs : Start(p) \/ StartRecovery(p) \/ Exit(p)
  \/ \E p \in Procs, s \in Sites : Invoke(p, s) \/ Step(p, s) \/ Cancel(p, s)
  \/ \E c \in CallIds : AuditInterrupted(c) \/ OperatorAuthorizes(c)

Spec == Init /\ [][Next]_vars

\* The event loop keeps scheduling a coroutine that can run, and the client's
\* timeout turns a silent provider into a failure.
FairSpec == Spec /\ \A p \in Procs, s \in Sites : WF_vars(Step(p, s))

(***************************************************************************)
(* Properties.                                                             *)
(***************************************************************************)

\* A call that returns a value returns the answer on record, that answer's
\* usage is known, and it satisfies the schema.
AnswerUsedIsOnRecord ==
  \A p \in Procs, s \in Sites :
    At(p, s, "done") /\ co[p][s].out = "value" =>
      /\ calls[CallOf(p, s)].state = "completed"
      /\ calls[CallOf(p, s)].payload = co[p][s].answer.payload
      /\ co[p][s].answer.payload \in ValidPayloads

\* However a call ends short of being cancelled or refused by the ledger, it
\* does not leave its row in 'sent': billing is known or flagged as uncertain.
ErrorExitSettlesCall ==
  \A p \in Procs, s \in Sites :
    At(p, s, "done")
      /\ co[p][s].out \notin {"cancelled", "billing_state", "fingerprint_mismatch"} =>
      calls[CallOf(p, s)].state # "sent"

\* At most one repair: no site ever owns a third logical call.
RepairAtMostOnce == \A s \in Sites : calls[<<s, 2>>].state = "absent"

\* Nothing is on record for a call that was never handed to the provider.
OnlySentCallsSettle == \A c \in CallIds : calls[c].state \in Final => handed[c] > 0

\* No paid work is repeated under another slot: when a call is handed over, the
\* same messages have no completed answer in the site's other slots.
NoRepeatedWork ==
  [][\A s \in Sites, a, b \in LogicalAttempts :
       (a # b /\ handed'[<<s, a>>] > handed[<<s, a>>]) =>
         ~(/\ calls[<<s, b>>].state = "completed"
           /\ calls[<<s, b>>].request.prompt = calls[<<s, a>>].request.prompt
           /\ calls[<<s, b>>].request.repairs = calls[<<s, a>>].request.repairs)]_vars

\* Every invocation comes to an end, or its process does.
InvocationEnds ==
  \A p \in Procs, s \in Sites : At(p, s, "decide") ~> co[p][s].pc \in {"done", "idle"}

=============================================================================
