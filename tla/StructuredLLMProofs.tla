-------------------------- MODULE StructuredLLMProofs --------------------------
(***************************************************************************)
(* Theorems about the paid-call client, for every set of processes, call   *)
(* sites, prompts and answers: it uses the ledger by its operations only,  *)
(* so that the ledger's theorems hold of it, and it keeps its own promises *)
(* about repairs and about what may be on record.                          *)
(***************************************************************************)
EXTENDS StructuredLLM, RunStoreProofs

\* What holds of a coroutine at every step: it works on messages of its own
\* after it was invoked, in the base slot while it may still move on, in slot 0
\* or 1 always, and it carries the answer it is about to record.
Sound(k) ==
  /\ k \in Coroutine
  /\ k.pc # "idle" => k.prompt \in Prompts
  /\ k.attempt \in {0, 1}
  /\ k.shift => k.attempt = 0
  /\ k.pc = "complete" => k.answer \in [payload : Payloads, usage : Usages]

\* A completed row holds an answer and what it cost.
AnsweredRows ==
  \A c \in CallIds : calls[c].state = "completed" =>
    calls[c].payload \in Payloads /\ calls[c].actual \in Actuals

\* The processes and the counters hold values of their types.
SessionsOK ==
  /\ session \in [Procs -> [live : BOOLEAN, recovery : BOOLEAN, authorized : SUBSET CallIds]]
  /\ starts \in 0 .. MaxSessions
  /\ recovering \in BOOLEAN

\* Every coroutine of every process is sound.
CoroutinesSound ==
  co \in [Procs -> [Sites -> Coroutine]] /\ \A p \in Procs, s \in Sites : Sound(co[p][s])

\* A transaction of the ledger, or none.
StoreStep == StoreNext \/ UNCHANGED storeVars

\* The client's inductive invariant.
ClientInv == StoreTypeOK /\ AnsweredRows /\ SessionsOK /\ CoroutinesSound

-----------------------------------------------------------------------------
(***************************************************************************)
(* The ledger under the client.                                            *)
(***************************************************************************)

\* Only complete_call makes a row completed, with an answer and its price.
LEMMA AnsweredStep ==
  StoreTypeOK /\ AnsweredRows /\ [StoreNext]_storeVars => AnsweredRows'
<1> SUFFICES ASSUME StoreTypeOK, AnsweredRows, [StoreNext]_storeVars PROVE AnsweredRows'
  OBVIOUS
<1> USE DEF StoreTypeOK, AnsweredRows, Row
<1>1. ASSUME NEW c \in CallIds, NEW req \in Requests, NEW slot \in Slots,
             NEW amount \in Estimates, ReserveCall(c, req, slot, amount)
      PROVE  AnsweredRows'
  BY <1>1 DEF ReserveCall, Absent
<1>2. ASSUME NEW c \in CallIds,
             \/ MarkSent(c) \/ MarkTransportRetry(c) \/ MarkRetryableNotBilled(c)
             \/ MarkBillingUncertain(c)
             \/ \E audit \in Audits : AuthorizeBillingUncertainRetry(c, audit)
      PROVE  AnsweredRows'
  BY <1>2 DEF MarkSent, MarkTransportRetry, MarkRetryableNotBilled,
              MarkBillingUncertain, AuthorizeBillingUncertainRetry
<1>3. ASSUME NEW c \in CallIds, NEW req \in Requests, NEW payload \in Payloads,
             NEW usage \in Usages, CompleteCall(c, req, payload, usage)
      PROVE  AnsweredRows'
  <2>1. usage.complete => usage.cost \in Actuals
    BY DEF Usages
  <2>2. /\ calls'[c].state = IF usage.complete THEN "completed" ELSE "usage_missing"
        /\ calls'[c].actual = usage.cost /\ calls'[c].payload = payload
        /\ \A d \in CallIds \ {c} : calls'[d] = calls[d]
    BY <1>3 DEF CompleteCall
  <2> QED
    BY <2>1, <2>2
<1>4. CASE UNCHANGED storeVars
  BY <1>4 DEF storeVars
<1> QED
  BY <1>1, <1>2, <1>3, <1>4 DEF StoreNext

-----------------------------------------------------------------------------
(***************************************************************************)
(* The coroutines.                                                         *)
(***************************************************************************)

\* What a coroutine asks for is a call and a request of the ledger.
LEMMA Addressed ==
  ASSUME NEW p \in Procs, NEW s \in Sites, Sound(co[p][s]), ~At(p, s, "idle")
  PROVE  /\ CallOf(p, s) \in CallIds /\ CallOf(p, s) \in Slots
         /\ RequestIn(p, s) \in Requests
BY LlmAssumption DEF Sound, Coroutine, CallOf, RequestIn, RequestOf, At, LogicalAttempts

\* A coroutine that ends is sound.
LEMMA FinishSound ==
  ASSUME NEW k, Sound(k), k.pc # "idle", NEW out \in Outcomes
  PROVE  Sound([k EXCEPT !.pc = "done", !.shift = FALSE, !.tries = 0, !.out = out])
<1> DEFINE j == [k EXCEPT !.pc = "done", !.shift = FALSE, !.tries = 0, !.out = out]
<1>1. 0 \in 0 .. Retries
  BY LlmAssumption
<1>2. k \in Coroutine
  BY DEF Sound
<1>3. j \in Coroutine
  BY <1>1, <1>2, Zenon DEF Coroutine
<1>4. j.pc = "done" /\ j.shift = FALSE /\ j.prompt = k.prompt /\ j.attempt = k.attempt
  BY <1>2, Zenon DEF Coroutine
<1> QED
  BY <1>3, <1>4 DEF Sound

\* Parsing an answer, or asking for its repair, leaves a sound coroutine.
LEMMA JudgeSound ==
  ASSUME NEW p \in Procs, NEW s \in Sites, Sound(co[p][s]), ~At(p, s, "idle"),
         NEW payload \in Payloads, Judge(p, s, payload)
  PROVE  \E k : Sound(k) /\ Become(p, s, k)
<1> DEFINE repair == [Idle EXCEPT !.pc = "decide", !.attempt = 1,
                                  !.prompt = co[p][s].prompt, !.repairs = payload]
<1>1. CASE payload \in ValidPayloads
  <2>1. Finish(p, s, "value")
    BY <1>1 DEF Judge
  <2> QED
    BY <2>1, FinishSound DEF Finish, At, Outcomes
<1>2. CASE payload \notin ValidPayloads /\ co[p][s].attempt >= 1
  <2>1. Finish(p, s, "invalid_output")
    BY <1>2 DEF Judge
  <2> QED
    BY <2>1, FinishSound DEF Finish, At, Outcomes
<1>3. CASE payload \notin ValidPayloads /\ ~(co[p][s].attempt >= 1)
  <2>1. Become(p, s, repair)
    BY <1>3 DEF Judge
  <2>2. co[p][s].prompt \in Prompts
    BY DEF Sound, At
  <2>3. repair \in Coroutine
    <3>1. 0 \in 0 .. Retries /\ 1 \in LogicalAttempts
      BY LlmAssumption DEF LogicalAttempts
    <3>2. Idle \in [pc : {"idle"}, attempt : {0}, shift : {FALSE}, prompt : {None},
                    repairs : {None}, tries : {0}, answer : {None}, out : {None}]
      BY Zenon DEF Idle
    <3> QED
      BY <2>2, <3>1, <3>2, Zenon DEF Coroutine
  <2>4. /\ repair.pc = "decide" /\ repair.shift = FALSE /\ repair.attempt = 1
        /\ repair.prompt = co[p][s].prompt
    BY Zenon DEF Idle
  <2>5. Sound(repair)
    BY <2>2, <2>3, <2>4 DEF Sound
  <2> QED
    BY <2>1, <2>5
<1> QED
  BY <1>1, <1>2, <1>3

\* Changing the coroutine in hand to a sound one keeps all of them sound.
LEMMA BecomeSound ==
  ASSUME CoroutinesSound, NEW p \in Procs, NEW s \in Sites, NEW k, Sound(k), Become(p, s, k)
  PROVE  CoroutinesSound'
<1>1. co' \in [Procs -> [Sites -> Coroutine]]
  BY DEF CoroutinesSound, Become, Sound
<1>2. \A q \in Procs, t \in Sites : co'[q][t] = IF q = p /\ t = s THEN k ELSE co[q][t]
  BY DEF CoroutinesSound, Become
<1>3. \A q \in Procs, t \in Sites : Sound(co[q][t])
  BY DEF CoroutinesSound
<1>4. \A q \in Procs, t \in Sites : Sound(co'[q][t])
  BY <1>2, <1>3
<1> QED
  BY <1>1, <1>4 DEF CoroutinesSound

\* A new invocation is sound: it may move on only from the base slot.
LEMMA InvokeSound ==
  ASSUME NEW p \in Procs, NEW s \in Sites, Invoke(p, s)
  PROVE  \E k : Sound(k) /\ Become(p, s, k)
<1>1. PICK prompt \in Prompts :
        Become(p, s, [Idle EXCEPT !.pc = "decide",
                                  !.attempt = IF Rebased(p, s) THEN 1 ELSE 0,
                                  !.shift = RecoveryWanted(p, s) /\ ~Rebased(p, s),
                                  !.prompt = prompt])
  BY DEF Invoke
<1> DEFINE attempt == IF Rebased(p, s) THEN 1 ELSE 0
           shift == RecoveryWanted(p, s) /\ ~Rebased(p, s)
           k == [Idle EXCEPT !.pc = "decide", !.attempt = attempt, !.shift = shift,
                             !.prompt = prompt]
<1>2. /\ attempt \in {0, 1} /\ shift \in BOOLEAN /\ (shift => attempt = 0)
      /\ attempt \in LogicalAttempts /\ 0 \in 0 .. Retries
  BY LlmAssumption DEF LogicalAttempts
<1> HIDE DEF attempt, shift
<1>3. Idle \in [pc : {"idle"}, attempt : {0}, shift : {FALSE}, prompt : {None},
                repairs : {None}, tries : {0}, answer : {None}, out : {None}]
  BY Zenon DEF Idle
<1>4. k \in Coroutine
  BY <1>2, <1>3, Zenon DEF Coroutine
<1>5. k.pc = "decide" /\ k.attempt = attempt /\ k.shift = shift /\ k.prompt = prompt
  BY Zenon DEF Idle
<1>6. Sound(k)
  BY <1>2, <1>4, <1>5 DEF Sound
<1> QED
  BY <1>1, <1>6 DEF attempt, shift

\* A coroutine that goes on to another step of the same call is sound.
LEMMA GoOnSound ==
  ASSUME NEW k, Sound(k), k.pc # "idle",
         NEW pc \in {"decide", "reserve", "mark_sent", "await", "flag", "done"}
  PROVE  /\ Sound([k EXCEPT !.pc = pc])
         /\ Sound([k EXCEPT !.pc = pc, !.shift = FALSE])
         /\ Sound([k EXCEPT !.pc = pc, !.tries = 0])
<1>1. k \in Coroutine /\ 0 \in 0 .. Retries
  BY LlmAssumption DEF Sound
<1>2. ASSUME NEW j \in Coroutine, j.pc = pc, j.prompt = k.prompt, j.attempt = k.attempt,
             j.shift \in {FALSE, k.shift}
      PROVE  Sound(j)
  BY <1>2 DEF Sound
<1>3. Sound([k EXCEPT !.pc = pc])
  <2> DEFINE j == [k EXCEPT !.pc = pc]
  <2>1. j \in Coroutine
    BY <1>1, Zenon DEF Coroutine
  <2>2. j.pc = pc /\ j.prompt = k.prompt /\ j.attempt = k.attempt /\ j.shift = k.shift
    BY <1>1, Zenon DEF Coroutine
  <2> QED
    BY <1>2, <2>1, <2>2, Zenon
<1>4. Sound([k EXCEPT !.pc = pc, !.shift = FALSE])
  <2> DEFINE j == [k EXCEPT !.pc = pc, !.shift = FALSE]
  <2>1. j \in Coroutine
    BY <1>1, Zenon DEF Coroutine
  <2>2. j.pc = pc /\ j.prompt = k.prompt /\ j.attempt = k.attempt /\ j.shift = FALSE
    BY <1>1, Zenon DEF Coroutine
  <2> QED
    BY <1>2, <2>1, <2>2, Zenon
<1>5. Sound([k EXCEPT !.pc = pc, !.tries = 0])
  <2> DEFINE j == [k EXCEPT !.pc = pc, !.tries = 0]
  <2>1. j \in Coroutine
    BY <1>1, Zenon DEF Coroutine
  <2>2. j.pc = pc /\ j.prompt = k.prompt /\ j.attempt = k.attempt /\ j.shift = k.shift
    BY <1>1, Zenon DEF Coroutine
  <2> QED
    BY <1>2, <2>1, <2>2, Zenon
<1> QED
  BY <1>3, <1>4, <1>5

\* Taking the answer on record, or repairing it, leaves a sound coroutine.
LEMMA ReuseSound ==
  ASSUME NEW p \in Procs, NEW s \in Sites, Sound(co[p][s]), ~At(p, s, "idle"),
         AnsweredRows, CallOf(p, s) \in CallIds, calls[CallOf(p, s)].state = "completed",
         ReuseAnswer(p, s)
  PROVE  \E k : Sound(k) /\ Become(p, s, k)
<1> DEFINE payload == calls[CallOf(p, s)].payload
           cached == [payload |-> payload,
                      usage |-> [complete |-> TRUE, cost |-> calls[CallOf(p, s)].actual]]
           out == IF payload \in ValidPayloads THEN "value" ELSE "invalid_output"
           k == [co[p][s] EXCEPT !.pc = "done", !.shift = FALSE, !.answer = cached, !.out = out]
<1>1. payload \in Payloads /\ calls[CallOf(p, s)].actual \in Actuals
  BY DEF AnsweredRows
<1>2. CASE payload \in ValidPayloads \/ co[p][s].attempt >= 1
  <2>1. Become(p, s, k)
    BY <1>2 DEF ReuseAnswer
  <2>2. cached \in [payload : Payloads, usage : Usages]
    BY <1>1, Zenon DEF Usages
  <2>3. co[p][s] \in Coroutine /\ out \in Outcomes
    BY DEF Sound, Outcomes
  <2> HIDE DEF cached, out
  <2>4. k \in Coroutine
    BY <2>2, <2>3, Zenon DEF Coroutine
  <2>5. /\ k.pc = "done" /\ k.shift = FALSE /\ k.prompt = co[p][s].prompt
        /\ k.attempt = co[p][s].attempt
    BY <2>3, Zenon DEF Coroutine
  <2>6. Sound(k)
    BY <2>4, <2>5 DEF Sound, At
  <2> QED
    BY <2>1, <2>6
<1>3. CASE ~(payload \in ValidPayloads \/ co[p][s].attempt >= 1)
  <2>1. Judge(p, s, payload)
    BY <1>3 DEF ReuseAnswer
  <2> QED
    BY <1>1, <2>1, JudgeSound
<1> QED
  BY <1>2, <1>3

\* The branch on resume_decision leaves a sound coroutine.
LEMMA DecideSound ==
  ASSUME NEW p \in Procs, NEW s \in Sites, StoreTypeOK, AnsweredRows,
         Sound(co[p][s]), Decide(p, s)
  PROVE  \E k : Sound(k) /\ Become(p, s, k)
<1> DEFINE k == co[p][s]
           decision == ResumeDecision(CallOf(p, s), RequestIn(p, s))
<1>1. k.pc = "decide" /\ ~At(p, s, "idle")
  BY DEF Decide, At
<1>2. CallOf(p, s) \in CallIds
  BY <1>1, Addressed
<1>3. CASE k.shift /\ Become(p, s, [k EXCEPT !.attempt = @ + 1, !.shift = FALSE])
  <2> DEFINE j == [k EXCEPT !.attempt = 1, !.shift = FALSE]
  <2>1. k \in Coroutine /\ k.attempt + 1 = 1 /\ 1 \in LogicalAttempts
    BY <1>3 DEF Sound, LogicalAttempts
  <2>2. j \in Coroutine
    BY <2>1, Zenon DEF Coroutine
  <2>3. j.pc = k.pc /\ j.shift = FALSE /\ j.prompt = k.prompt /\ j.attempt = 1
    BY <2>1, Zenon DEF Coroutine
  <2>4. Sound(j)
    BY <1>1, <2>2, <2>3 DEF Sound
  <2>5. Become(p, s, j)
    BY <1>3, <2>1, Zenon
  <2> QED
    BY <2>4, <2>5
<1>4. ASSUME NEW out \in Outcomes, Finish(p, s, out)
      PROVE  \E j : Sound(j) /\ Become(p, s, j)
  BY <1>1, <1>4, FinishSound DEF Finish
<1>5. CASE decision = "reuse" /\ ReuseAnswer(p, s)
  <2>1. calls[CallOf(p, s)].state = "completed"
    <3>1. calls[CallOf(p, s)].state \in CallState \cup {"absent"}
      BY <1>2 DEF StoreTypeOK, Row
    <3> QED
      BY <1>5, <3>1 DEF ResumeDecision, Unknown, CallState
  <2> QED
    BY <1>1, <1>2, <1>5, <2>1, ReuseSound
<1>6. CASE Become(p, s, [k EXCEPT !.pc = "reserve", !.shift = FALSE])
  BY <1>1, <1>6, GoOnSound
<1> QED
  BY <1>3, <1>4, <1>5, <1>6 DEF Decide, Outcomes

\* Counting a transport retry, and taking in the provider's answer.
LEMMA AwaitSound ==
  ASSUME NEW k, Sound(k), k.pc = "await"
  PROVE  /\ k.tries < Retries => Sound([k EXCEPT !.tries = @ + 1])
         /\ \A answer \in [payload : Payloads, usage : Usages] :
              Sound([k EXCEPT !.pc = "complete", !.tries = 0, !.answer = answer])
<1>1. k \in Coroutine /\ 0 \in 0 .. Retries
  BY LlmAssumption DEF Sound
<1>2. ASSUME k.tries < Retries PROVE Sound([k EXCEPT !.tries = @ + 1])
  <2>1. k.tries \in 0 .. Retries
    BY <1>1, Zenon DEF Coroutine
  <2>2. k.tries + 1 \in 0 .. Retries
    BY <1>2, <2>1, LlmAssumption
  <2> DEFINE j == [k EXCEPT !.tries = @ + 1]
  <2>3. j \in Coroutine
    BY <1>1, <2>2, Zenon DEF Coroutine
  <2>4. j.pc = k.pc /\ j.shift = k.shift /\ j.prompt = k.prompt /\ j.attempt = k.attempt
    BY <1>1, Zenon DEF Coroutine
  <2> QED
    BY <2>3, <2>4 DEF Sound
<1>3. ASSUME NEW answer \in [payload : Payloads, usage : Usages]
      PROVE  Sound([k EXCEPT !.pc = "complete", !.tries = 0, !.answer = answer])
  <2> DEFINE j == [k EXCEPT !.pc = "complete", !.tries = 0, !.answer = answer]
  <2>1. j \in Coroutine
    BY <1>1, Zenon DEF Coroutine
  <2>2. /\ j.shift = k.shift /\ j.prompt = k.prompt /\ j.attempt = k.attempt
        /\ j.answer = answer
    BY <1>1, Zenon DEF Coroutine
  <2> QED
    BY <2>1, <2>2 DEF Sound
<1> QED
  BY <1>2, <1>3

-----------------------------------------------------------------------------
(***************************************************************************)
(* The steps.                                                              *)
(***************************************************************************)

\* Every step of a coroutine is one ledger operation or none, and leaves a
\* sound coroutine.
LEMMA StepSound ==
  ASSUME ClientInv, NEW p \in Procs, NEW s \in Sites,
         Invoke(p, s) \/ Step(p, s) \/ Cancel(p, s)
  PROVE  StoreStep /\ \E k : Sound(k) /\ Become(p, s, k)
<1> DEFINE k == co[p][s]
           Moves == \E j : Sound(j) /\ Become(p, s, j)
<1>1. StoreTypeOK /\ AnsweredRows /\ Sound(k)
  BY DEF ClientInv, CoroutinesSound
<1>2. ASSUME ~At(p, s, "idle")
      PROVE  CallOf(p, s) \in CallIds /\ CallOf(p, s) \in Slots /\ RequestIn(p, s) \in Requests
  BY <1>1, <1>2, Addressed
<1>3. ASSUME ~At(p, s, "idle"), NEW out \in Outcomes, Finish(p, s, out) PROVE Moves
  BY <1>1, <1>3, FinishSound DEF Finish, At
<1>4. ASSUME UNCHANGED storeVars PROVE StoreStep
  BY <1>4 DEF StoreStep
<1>5. CASE Invoke(p, s)
  BY <1>4, <1>5, InvokeSound DEF Invoke
<1>6. CASE Decide(p, s)
  BY <1>1, <1>4, <1>6, DecideSound DEF Decide
<1>7. CASE Reserve(p, s)
  <2>1. ~At(p, s, "idle")
    BY <1>7 DEF Reserve, At
  <2>2. Sound([k EXCEPT !.pc = "mark_sent"])
    BY <1>1, <2>1, GoOnSound DEF At
  <2>3. PICK amount \in Estimates :
          \/ /\ ReserveCall(CallOf(p, s), RequestIn(p, s), CallOf(p, s), amount)
             /\ Become(p, s, [k EXCEPT !.pc = "mark_sent"])
          \/ /\ Become(p, s, [k EXCEPT !.pc = "mark_sent"])
             /\ UNCHANGED storeVars
          \/ /\ Finish(p, s, ReserveOutcome(CallOf(p, s), RequestIn(p, s), CallOf(p, s), amount))
             /\ ReserveOutcome(CallOf(p, s), RequestIn(p, s), CallOf(p, s), amount)
                  \notin {"inserted", "existing"}
             /\ UNCHANGED storeVars
    BY <1>7 DEF Reserve
  <2>4. ReserveOutcome(CallOf(p, s), RequestIn(p, s), CallOf(p, s), amount)
          \in Outcomes \cup {"inserted", "existing"}
    BY DEF ReserveOutcome, Outcomes
  <2>5. ASSUME ReserveCall(CallOf(p, s), RequestIn(p, s), CallOf(p, s), amount)
        PROVE  StoreStep
    BY <1>2, <2>1, <2>5 DEF StoreStep, StoreNext
  <2> QED
    BY <1>3, <1>4, <2>1, <2>2, <2>3, <2>4, <2>5
<1>8. CASE HandOver(p, s)
  <2>1. ~At(p, s, "idle")
    BY <1>8 DEF HandOver, At
  <2>2. Sound([k EXCEPT !.pc = "await"])
    BY <1>1, <2>1, GoOnSound DEF At
  <2>3. MarkSent(CallOf(p, s)) => StoreStep
    BY <1>2, <2>1 DEF StoreStep, StoreNext
  <2> QED
    BY <1>3, <1>4, <1>8, <2>1, <2>2, <2>3 DEF HandOver, Outcomes
<1>9. CASE ProviderAnswers(p, s)
  <2>1. PICK payload \in Payloads, usage \in Usages :
          Become(p, s, [k EXCEPT !.pc = "complete", !.tries = 0,
                                 !.answer = [payload |-> payload, usage |-> usage]])
    BY <1>9 DEF ProviderAnswers
  <2>2. [payload |-> payload, usage |-> usage] \in [payload : Payloads, usage : Usages]
    OBVIOUS
  <2>3. Moves
    BY <1>1, <1>9, <2>1, <2>2, AwaitSound DEF ProviderAnswers, At
  <2> QED
    BY <1>4, <1>9, <2>3 DEF ProviderAnswers
<1>10. CASE RetryTransport(p, s)
  <2>1. ~At(p, s, "idle") /\ k.pc = "await" /\ k.tries < Retries
    BY <1>10 DEF RetryTransport, At
  <2>2. Sound([k EXCEPT !.tries = @ + 1])
    BY <1>1, <2>1, AwaitSound
  <2>3. Sound([k EXCEPT !.pc = "flag", !.tries = 0])
    BY <1>1, <2>1, GoOnSound
  <2>4. MarkTransportRetry(CallOf(p, s)) => StoreStep
    BY <1>2, <2>1 DEF StoreStep, StoreNext
  <2> QED
    BY <1>4, <1>10, <2>2, <2>3, <2>4 DEF RetryTransport
<1>11. CASE TransportFails(p, s)
  <2>1. Sound([k EXCEPT !.pc = "flag", !.tries = 0])
    BY <1>1, <1>11, GoOnSound DEF TransportFails, At
  <2> QED
    BY <1>4, <1>11, <2>1 DEF TransportFails
<1>12. CASE Flag(p, s)
  <2>1. ~At(p, s, "idle")
    BY <1>12 DEF Flag, At
  <2>2. MarkBillingUncertain(CallOf(p, s)) => StoreStep
    BY <1>2, <2>1 DEF StoreStep, StoreNext
  <2> QED
    BY <1>3, <1>4, <1>12, <2>1, <2>2 DEF Flag, Outcomes
<1>13. CASE Complete(p, s)
  <2>1. ~At(p, s, "idle")
    BY <1>13 DEF Complete, At
  <2>2. k.answer.payload \in Payloads /\ k.answer.usage \in Usages
    BY <1>1, <1>13 DEF Complete, At, Sound
  <2>3. ASSUME NEW over \in BOOLEAN, AfterAnswer(p, s, over) PROVE Moves
    <3>1. CASE over
      BY <1>3, <2>1, <2>3, <3>1 DEF AfterAnswer, Outcomes
    <3>2. CASE ~over /\ ~k.answer.usage.complete
      BY <1>3, <2>1, <2>3, <3>2 DEF AfterAnswer, Outcomes
    <3>3. CASE ~over /\ k.answer.usage.complete
      <4>1. Judge(p, s, k.answer.payload)
        BY <2>3, <3>3 DEF AfterAnswer
      <4> QED
        BY <1>1, <2>1, <2>2, <4>1, JudgeSound
    <3> QED
      BY <3>1, <3>2, <3>3
  <2>4. ASSUME CompleteCall(CallOf(p, s), RequestIn(p, s), k.answer.payload, k.answer.usage)
        PROVE  StoreStep
    BY <1>2, <2>1, <2>2, <2>4 DEF StoreStep, StoreNext
  <2>5. \E over \in BOOLEAN : AfterAnswer(p, s, over)
    BY <1>13 DEF Complete
  <2> QED
    BY <1>4, <1>13, <2>3, <2>4, <2>5 DEF Complete
<1>14. CASE Cancel(p, s)
  BY <1>3, <1>4, <1>14 DEF Cancel, At, Outcomes
<1> QED
  BY <1>5, <1>6, <1>7, <1>8, <1>9, <1>10, <1>11, <1>12, <1>13, <1>14 DEF Step

\* Initially, no process runs and the ledger is empty.
LEMMA ClientInit == Init => ClientInv
<1> SUFFICES ASSUME Init PROVE ClientInv
  OBVIOUS
<1>1. StoreTypeOK /\ AnsweredRows
  BY DEF Init, StoreInit, StoreTypeOK, AnsweredRows, Absent, Row
<1>2. SessionsOK
  <2>1. NoSession \in [live : BOOLEAN, recovery : BOOLEAN, authorized : SUBSET CallIds]
    BY Zenon DEF NoSession
  <2>2. 0 \in 0 .. MaxSessions
    BY LlmAssumption
  <2> QED
    BY <2>1, <2>2 DEF Init, SessionsOK
<1>3. 0 \in LogicalAttempts /\ 0 \in 0 .. Retries
  BY LlmAssumption DEF LogicalAttempts
<1>4. Idle \in Coroutine
  BY <1>3, Zenon DEF Idle, Coroutine
<1>5. Sound(Idle)
  BY <1>4, Zenon DEF Sound, Idle
<1>6. CoroutinesSound
  BY <1>4, <1>5 DEF Init, CoroutinesSound
<1> QED
  BY <1>1, <1>2, <1>6 DEF ClientInv

\* Every step of the client keeps the invariant and is a step of the ledger.
LEMMA ClientStep == ClientInv /\ [Next]_vars => ClientInv' /\ StoreStep
<1> SUFFICES ASSUME ClientInv, [Next]_vars PROVE ClientInv' /\ StoreStep
  OBVIOUS
<1>1. ASSUME StoreStep PROVE StoreTypeOK' /\ AnsweredRows'
  BY <1>1, StoreTypeStep, AnsweredStep DEF ClientInv, StoreStep
<1>2. ASSUME UNCHANGED co PROVE CoroutinesSound'
  BY <1>2 DEF ClientInv, CoroutinesSound
<1>3. ASSUME UNCHANGED <<session, starts, recovering>> PROVE SessionsOK'
  BY <1>3 DEF ClientInv, SessionsOK
<1>4. ASSUME UNCHANGED storeVars PROVE StoreStep
  BY <1>4 DEF StoreStep
<1>5. ASSUME NEW p \in Procs, Start(p) PROVE ClientInv' /\ StoreStep
  <2>1. SessionsOK'
    <3>1. [NoSession EXCEPT !.live = TRUE]
            \in [live : BOOLEAN, recovery : BOOLEAN, authorized : SUBSET CallIds]
      BY Zenon DEF NoSession
    <3>2. starts' \in 0 .. MaxSessions
      BY <1>5, LlmAssumption DEF Start, ClientInv, SessionsOK
    <3> QED
      BY <1>5, <3>1, <3>2 DEF Start, ClientInv, SessionsOK
  <2> QED
    BY <1>1, <1>2, <1>4, <1>5, <2>1 DEF Start, ClientInv
<1>6. ASSUME NEW p \in Procs, StartRecovery(p) PROVE ClientInv' /\ StoreStep
  <2>1. SessionsOK'
    <3>1. [live |-> TRUE, recovery |-> TRUE, authorized |-> Unresolved(CallIds)]
            \in [live : BOOLEAN, recovery : BOOLEAN, authorized : SUBSET CallIds]
      BY DEF Unresolved
    <3>2. starts' \in 0 .. MaxSessions
      BY <1>6, LlmAssumption DEF StartRecovery, ClientInv, SessionsOK
    <3> QED
      BY <1>6, <3>1, <3>2 DEF StartRecovery, ClientInv, SessionsOK
  <2> QED
    BY <1>1, <1>2, <1>4, <1>6, <2>1 DEF StartRecovery, ClientInv
<1>7. ASSUME NEW p \in Procs, Exit(p) PROVE ClientInv' /\ StoreStep
  <2>1. SessionsOK'
    BY <1>7 DEF Exit, ClientInv, SessionsOK, NoSession
  <2>2. 0 \in LogicalAttempts /\ 0 \in 0 .. Retries
    BY LlmAssumption DEF LogicalAttempts
  <2>3. Idle \in Coroutine
    BY <2>2, Zenon DEF Idle, Coroutine
  <2>4. Sound(Idle)
    BY <2>3, Zenon DEF Sound, Idle
  <2>5. CoroutinesSound'
    BY <1>7, <2>3, <2>4 DEF Exit, ClientInv, CoroutinesSound
  <2> QED
    BY <1>1, <1>4, <1>7, <2>1, <2>5 DEF Exit, ClientInv
<1>8. ASSUME NEW p \in Procs, NEW s \in Sites, Invoke(p, s) \/ Step(p, s) \/ Cancel(p, s)
      PROVE  ClientInv' /\ StoreStep
  <2>1. UNCHANGED <<session, starts, recovering>>
    BY <1>8 DEF Invoke, Step, Cancel, Rest, Decide, Reserve, HandOver, ProviderAnswers,
                RetryTransport, TransportFails, Flag, Complete
  <2>2. StoreStep /\ \E k : Sound(k) /\ Become(p, s, k)
    BY <1>8, StepSound
  <2>3. CoroutinesSound'
    BY <2>2, BecomeSound DEF ClientInv
  <2> QED
    BY <1>1, <1>3, <2>1, <2>2, <2>3 DEF ClientInv
<1>9. ASSUME NEW c \in CallIds, AuditInterrupted(c) \/ OperatorAuthorizes(c)
      PROVE  ClientInv' /\ StoreStep
  <2>1. StoreStep
    BY <1>9 DEF AuditInterrupted, OperatorAuthorizes, StoreStep, StoreNext
  <2>2. UNCHANGED llmVars
    BY <1>9 DEF AuditInterrupted, OperatorAuthorizes
  <2> QED
    BY <1>1, <1>2, <1>3, <2>1, <2>2 DEF ClientInv, llmVars
<1>10. CASE UNCHANGED vars
  BY <1>1, <1>2, <1>3, <1>4, <1>10 DEF vars, llmVars, ClientInv
<1> QED
  BY <1>5, <1>6, <1>7, <1>8, <1>9, <1>10 DEF Next

\* The client's inductive invariant holds at all times.
LEMMA ClientInvariant == Spec => []ClientInv
BY ClientInit, ClientStep, PTL DEF Spec

\* The client, its processes and the operator keep every value in its type.
THEOREM ClientTypeCorrect == Spec => []TypeOK
<1>1. ClientInv => TypeOK
  BY DEF ClientInv, SessionsOK, CoroutinesSound, TypeOK
<1> QED
  BY <1>1, ClientInvariant, PTL

\* Whatever the coroutines of any number of processes do, they use the ledger
\* by its transactions only.
THEOREM ClientUsesLedger == Spec => StoreSpec
<1>1. Init => StoreInit
  BY DEF Init
<1>2. ClientInv /\ [Next]_vars => [StoreNext]_storeVars
  BY ClientStep DEF StoreStep
<1> QED
  BY <1>1, <1>2, ClientInvariant, PTL DEF Spec, StoreSpec

\* Hence no coroutine is ever handed a call that was already paid for, and the
\* client keeps the abstract promise about paid calls.
COROLLARY ClientPaysOnce == Spec => []HandedOncePerOpening /\ []SlotOwnedOnce /\ PaidSpec
BY ClientUsesLedger, HandedOnce, SlotsOwnedOnce, LedgerImplementsPaidCalls, PTL

-----------------------------------------------------------------------------
(***************************************************************************)
(* What may be on record.                                                  *)
(***************************************************************************)

\* A transaction other than an insertion leaves absent rows absent.
LEMMA AbsentStays ==
  ASSUME StoreTypeOK, NEW c \in CallIds,
         \/ MarkSent(c) \/ MarkTransportRetry(c) \/ MarkBillingUncertain(c)
         \/ \E audit \in Audits : AuthorizeBillingUncertainRetry(c, audit)
         \/ \E req, payload, usage : CompleteCall(c, req, payload, usage)
  PROVE  \A d \in CallIds : calls[d].state = "absent" => calls'[d].state = "absent"
BY DEF StoreTypeOK, Row, MarkSent, MarkTransportRetry, MarkBillingUncertain,
       AuthorizeBillingUncertainRetry, CompleteCall

\* Only an insertion could fill a third slot, and a coroutine inserts where it
\* works: in slot 0 or 1.
LEMMA RepairStep == ClientInv /\ RepairAtMostOnce /\ [Next]_vars => RepairAtMostOnce'
<1> SUFFICES ASSUME ClientInv, RepairAtMostOnce, [Next]_vars, NEW t \in Sites
             PROVE  calls'[<<t, 2>>].state = "absent"
  BY DEF RepairAtMostOnce
<1>1. StoreTypeOK
  BY DEF ClientInv
<1>2. <<t, 2>> \in CallIds /\ calls[<<t, 2>>].state = "absent"
  BY LlmAssumption DEF RepairAtMostOnce, LogicalAttempts
<1>3. ASSUME UNCHANGED storeVars PROVE calls'[<<t, 2>>].state = "absent"
  BY <1>2, <1>3 DEF storeVars
<1>4. ASSUME NEW p \in Procs, NEW s \in Sites, Reserve(p, s)
      PROVE  calls'[<<t, 2>>].state = "absent"
  <2>1. CallOf(p, s) # <<t, 2>>
    <3>1. co[p][s].attempt \in {0, 1}
      BY DEF ClientInv, CoroutinesSound, Sound
    <3> QED
      BY <3>1 DEF CallOf
  <2>2. ASSUME NEW amount, ReserveCall(CallOf(p, s), RequestIn(p, s), CallOf(p, s), amount)
        PROVE  calls'[<<t, 2>>].state = "absent"
    BY <1>1, <1>2, <2>1, <2>2 DEF ReserveCall, StoreTypeOK
  <2> QED
    BY <1>3, <1>4, <2>2 DEF Reserve
<1>5. ASSUME NEW p \in Procs, NEW s \in Sites, Step(p, s), ~Reserve(p, s)
      PROVE  calls'[<<t, 2>>].state = "absent"
  <2>1. ~At(p, s, "idle")
    BY <1>5 DEF Step, Decide, HandOver, ProviderAnswers, RetryTransport, TransportFails,
                Flag, Complete, At
  <2>2. CallOf(p, s) \in CallIds
    BY <2>1, Addressed DEF ClientInv, CoroutinesSound
  <2> QED
    BY <1>1, <1>2, <1>3, <1>5, <2>2, AbsentStays
       DEF Step, Decide, HandOver, ProviderAnswers, RetryTransport, TransportFails, Flag, Complete
<1>6. ASSUME NEW c \in CallIds, AuditInterrupted(c) \/ OperatorAuthorizes(c)
      PROVE  calls'[<<t, 2>>].state = "absent"
  BY <1>1, <1>2, <1>6, AbsentStays DEF AuditInterrupted, OperatorAuthorizes
<1>7. ASSUME NEW p \in Procs,
             Start(p) \/ StartRecovery(p) \/ Exit(p)
               \/ \E s \in Sites : Invoke(p, s) \/ Cancel(p, s)
      PROVE  calls'[<<t, 2>>].state = "absent"
  BY <1>3, <1>7 DEF Start, StartRecovery, Exit, Invoke, Cancel
<1>8. CASE UNCHANGED vars
  BY <1>3, <1>8 DEF vars
<1> QED
  BY <1>4, <1>5, <1>6, <1>7, <1>8 DEF Next

\* No call site ever pays for more than a base call and one repair.
THEOREM RepairedOnce == Spec => []RepairAtMostOnce
<1>1. Init => RepairAtMostOnce
  BY LlmAssumption DEF Init, StoreInit, RepairAtMostOnce, LogicalAttempts, Absent
<1> QED
  BY <1>1, RepairStep, ClientInvariant, PTL DEF Spec

\* A coroutine that awaits the provider, or has just heard of it, handed its
\* call over.
HandedBefore ==
  \A p \in Procs, s \in Sites :
    co[p][s].pc \in {"await", "flag", "complete"} => handed[CallOf(p, s)] > 0

\* Hand-overs are only counted up.
LEMMA HandedGrows ==
  StoreTypeOK /\ StoreStep => \A c \in CallIds : handed'[c] \in Nat /\ handed'[c] >= handed[c]
<1> SUFFICES ASSUME StoreTypeOK, StoreStep, NEW d \in CallIds
             PROVE  handed'[d] \in Nat /\ handed'[d] >= handed[d]
  OBVIOUS
<1>1. ASSUME NEW c \in CallIds, MarkSent(c) PROVE handed'[d] \in Nat /\ handed'[d] >= handed[d]
  BY <1>1 DEF MarkSent, StoreTypeOK
<1>2. CASE UNCHANGED handed
  BY <1>2 DEF StoreTypeOK
<1> QED
  BY <1>1, <1>2 DEF StoreStep, StoreNext, storeVars, ReserveCall, MarkTransportRetry,
       MarkRetryableNotBilled, MarkBillingUncertain, AuthorizeBillingUncertainRetry, CompleteCall

\* Where a coroutine goes when it may have handed its call over.
LEMMA HandedMove ==
  ASSUME ClientInv, HandedBefore, NEW p \in Procs, NEW s \in Sites,
         Invoke(p, s) \/ Step(p, s) \/ Cancel(p, s),
         co'[p][s].pc \in {"await", "flag", "complete"}
  PROVE  handed'[CallOf(p, s)'] > 0
<1> DEFINE k == co[p][s]
<1>1. /\ co \in [Procs -> [Sites -> Coroutine]] /\ k \in Coroutine /\ StoreTypeOK
      /\ \A j : Become(p, s, j) => co'[p][s] = j
  BY DEF ClientInv, CoroutinesSound, Sound, Become
<1>2. \A out : ~Finish(p, s, out)
  <2> SUFFICES ASSUME NEW out, Finish(p, s, out) PROVE FALSE
    OBVIOUS
  <2>1. co'[p][s].pc = "done"
    BY <1>1, Zenon DEF Finish, Coroutine
  <2> QED
    BY <2>1
<1>3. ASSUME NEW payload, Judge(p, s, payload) PROVE FALSE
  <2>1. Become(p, s, [Idle EXCEPT !.pc = "decide", !.attempt = 1,
                                  !.prompt = k.prompt, !.repairs = payload])
    BY <1>2, <1>3 DEF Judge
  <2>2. co'[p][s].pc = "decide"
    BY <1>1, <2>1, Zenon DEF Idle
  <2> QED
    BY <2>2
<1>4. ASSUME k.pc \in {"await", "flag", "complete"}, co'[p][s].attempt = k.attempt, StoreStep
      PROVE  handed'[CallOf(p, s)'] > 0
  <2>1. CallOf(p, s)' = CallOf(p, s) /\ handed[CallOf(p, s)] > 0
    BY <1>4 DEF CallOf, HandedBefore
  <2>2. CallOf(p, s) \in CallIds
    BY <1>4, Addressed DEF ClientInv, CoroutinesSound, At
  <2> QED
    BY <1>1, <1>4, <2>1, <2>2, HandedGrows DEF StoreTypeOK
<1>5. StoreStep
  BY StepSound
<1>6. CASE HandOver(p, s)
  <2>1. MarkSent(CallOf(p, s)) /\ Become(p, s, [k EXCEPT !.pc = "await"])
    BY <1>2, <1>6 DEF HandOver
  <2>2. co'[p][s].attempt = k.attempt
    BY <1>1, <2>1, Zenon DEF Coroutine
  <2>3. CallOf(p, s) \in CallIds
    BY <1>6, Addressed DEF ClientInv, CoroutinesSound, HandOver, At
  <2> QED
    BY <1>1, <2>1, <2>2, <2>3 DEF CallOf, MarkSent, StoreTypeOK
<1>7. CASE ProviderAnswers(p, s) \/ RetryTransport(p, s) \/ TransportFails(p, s)
  <2>1. co'[p][s].attempt = k.attempt
    <3>1. PICK payload, usage :
            \/ Become(p, s, [k EXCEPT !.pc = "complete", !.tries = 0,
                                      !.answer = [payload |-> payload, usage |-> usage]])
            \/ Become(p, s, [k EXCEPT !.tries = @ + 1])
            \/ Become(p, s, [k EXCEPT !.pc = "flag", !.tries = 0])
      BY <1>7 DEF ProviderAnswers, RetryTransport, TransportFails
    <3> QED
      BY <1>1, <3>1, Zenon DEF Coroutine
  <2>2. k.pc = "await"
    BY <1>7 DEF ProviderAnswers, RetryTransport, TransportFails, At
  <2> QED
    BY <1>4, <1>5, <2>1, <2>2
<1>8. CASE Flag(p, s) \/ Cancel(p, s)
  BY <1>2, <1>8 DEF Flag, Cancel
<1>9. CASE Complete(p, s)
  BY <1>2, <1>3, <1>9 DEF Complete, AfterAnswer
<1>10. CASE Reserve(p, s)
  <2>1. Become(p, s, [k EXCEPT !.pc = "mark_sent"])
    BY <1>2, <1>10 DEF Reserve
  <2>2. co'[p][s].pc = "mark_sent"
    BY <1>1, <2>1, Zenon DEF Coroutine
  <2> QED
    BY <2>2
<1>11. CASE Decide(p, s)
  <2>1. ASSUME Become(p, s, [k EXCEPT !.attempt = @ + 1, !.shift = FALSE]) PROVE FALSE
    <3>1. co'[p][s].pc = k.pc
      BY <1>1, <2>1, Zenon DEF Coroutine
    <3> QED
      BY <1>11, <3>1 DEF Decide, At
  <2>2. ASSUME Become(p, s, [k EXCEPT !.pc = "reserve", !.shift = FALSE]) PROVE FALSE
    <3>1. co'[p][s].pc = "reserve"
      BY <1>1, <2>2, Zenon DEF Coroutine
    <3> QED
      BY <3>1
  <2>3. ASSUME ReuseAnswer(p, s) PROVE FALSE
    <3>1. PICK answer, out :
            Become(p, s, [k EXCEPT !.pc = "done", !.shift = FALSE, !.answer = answer, !.out = out])
      BY <1>3, <2>3 DEF ReuseAnswer
    <3>2. co'[p][s].pc = "done"
      BY <1>1, <3>1, Zenon DEF Coroutine
    <3> QED
      BY <3>2
  <2> QED
    BY <1>2, <1>11, <2>1, <2>2, <2>3 DEF Decide
<1>12. CASE Invoke(p, s)
  <2>1. PICK attempt, shift, prompt :
          Become(p, s, [Idle EXCEPT !.pc = "decide", !.attempt = attempt, !.shift = shift,
                                    !.prompt = prompt])
    BY <1>12, Zenon DEF Invoke
  <2>2. co'[p][s].pc = "decide"
    BY <1>1, <2>1, Zenon DEF Idle
  <2> QED
    BY <2>2
<1> QED
  BY <1>6, <1>7, <1>8, <1>9, <1>10, <1>11, <1>12 DEF Step

\* Every step of the client keeps the hand-over ahead of the answer.
LEMMA HandedBeforeStep ==
  ClientInv /\ HandedBefore /\ [Next]_vars => HandedBefore'
<1> SUFFICES ASSUME ClientInv, HandedBefore, [Next]_vars, NEW q \in Procs, NEW t \in Sites,
                    co'[q][t].pc \in {"await", "flag", "complete"}
             PROVE  handed'[CallOf(q, t)'] > 0
  BY DEF HandedBefore, CallOf
<1>1. StoreStep
  BY ClientStep
<1>2. ASSUME co'[q][t] = co[q][t] PROVE handed'[CallOf(q, t)'] > 0
  <2>1. CallOf(q, t)' = CallOf(q, t) /\ handed[CallOf(q, t)] > 0
    BY <1>2 DEF CallOf, HandedBefore
  <2>2. CallOf(q, t) \in CallIds
    BY <1>2, Addressed DEF ClientInv, CoroutinesSound, At
  <2> QED
    BY <1>1, <2>1, <2>2, HandedGrows DEF ClientInv, StoreTypeOK
<1>3. ASSUME NEW p \in Procs, NEW s \in Sites, Invoke(p, s) \/ Step(p, s) \/ Cancel(p, s)
      PROVE  handed'[CallOf(q, t)'] > 0
  <2>1. CASE p = q /\ s = t
    BY <1>3, <2>1, HandedMove
  <2>2. CASE ~(p = q /\ s = t)
    <3>1. PICK k : Become(p, s, k)
      BY <1>3, StepSound
    <3>2. co'[q][t] = co[q][t]
      BY <2>2, <3>1 DEF Become, ClientInv, CoroutinesSound
    <3> QED
      BY <1>2, <3>2
  <2> QED
    BY <2>1, <2>2
<1>4. ASSUME NEW p \in Procs, Exit(p) PROVE handed'[CallOf(q, t)'] > 0
  <2>1. CASE p = q
    <3>1. co'[q][t].pc = "idle"
      BY <1>4, <2>1 DEF Exit, ClientInv, CoroutinesSound, Idle
    <3> QED
      BY <3>1
  <2>2. CASE p # q
    BY <1>2, <1>4, <2>2 DEF Exit, ClientInv, CoroutinesSound
  <2> QED
    BY <2>1, <2>2
<1>5. CASE UNCHANGED co
  BY <1>2, <1>5
<1> QED
  BY <1>3, <1>4, <1>5 DEF Next, Start, StartRecovery, AuditInterrupted, OperatorAuthorizes,
                          vars, llmVars

\* A row settles by complete_call alone, which a coroutine calls for a call that
\* it has handed over.
LEMMA OnlySentStep ==
  ClientInv /\ HandedBefore /\ OnlySentCallsSettle /\ [Next]_vars => OnlySentCallsSettle'
<1> SUFFICES ASSUME ClientInv, HandedBefore, OnlySentCallsSettle, [Next]_vars,
                    NEW d \in CallIds, calls'[d].state \in Final
             PROVE  handed'[d] > 0
  BY DEF OnlySentCallsSettle
<1>1. StoreTypeOK /\ StoreStep
  BY ClientStep DEF ClientInv
<1>2. ASSUME handed[d] > 0 PROVE handed'[d] > 0
  BY <1>1, <1>2, HandedGrows DEF StoreTypeOK
<1>3. ASSUME calls[d].state \in Final PROVE handed'[d] > 0
  BY <1>2, <1>3 DEF OnlySentCallsSettle
<1>4. ASSUME NEW c \in CallIds,
             \/ MarkSent(c) \/ MarkTransportRetry(c) \/ MarkRetryableNotBilled(c)
             \/ MarkBillingUncertain(c)
             \/ \E audit \in Audits : AuthorizeBillingUncertainRetry(c, audit)
             \/ \E req \in Requests, slot \in Slots, amount \in Estimates :
                  ReserveCall(c, req, slot, amount)
      PROVE  calls[d].state \in Final
  <2>1. ASSUME NEW row, calls' = [calls EXCEPT ![c] = row], row.state \notin Final
        PROVE  calls[d].state \in Final
    BY <1>1, <2>1 DEF StoreTypeOK
  <2>2. ASSUME NEW req, NEW slot, NEW amount, ReserveCall(c, req, slot, amount)
        PROVE  calls[d].state \in Final
    BY <2>1, <2>2 DEF ReserveCall, Absent, Final
  <2>3. ASSUME MarkTransportRetry(c) PROVE calls[d].state \in Final
    BY <1>1, <2>3 DEF MarkTransportRetry, StoreTypeOK, Row
  <2>4. ASSUME MarkSent(c) \/ MarkRetryableNotBilled(c) \/ MarkBillingUncertain(c)
                 \/ \E audit : AuthorizeBillingUncertainRetry(c, audit)
        PROVE  calls[d].state \in Final
    BY <1>1, <2>4 DEF MarkSent, MarkRetryableNotBilled, MarkBillingUncertain,
                      AuthorizeBillingUncertainRetry, StoreTypeOK, Row, Final
  <2> QED
    BY <1>4, <2>2, <2>3, <2>4
<1>5. CASE UNCHANGED storeVars
  BY <1>3, <1>5 DEF storeVars
<1>6. ASSUME NEW p \in Procs, NEW s \in Sites, Complete(p, s) PROVE handed'[d] > 0
  <2>1. CallOf(p, s) \in CallIds /\ handed[CallOf(p, s)] > 0
    BY <1>6, Addressed DEF Complete, At, HandedBefore, ClientInv, CoroutinesSound
  <2>2. CASE d = CallOf(p, s)
    BY <1>2, <2>1, <2>2
  <2>3. CASE d # CallOf(p, s)
    BY <1>1, <1>3, <1>6, <2>3 DEF Complete, CompleteCall, storeVars, StoreTypeOK
  <2> QED
    BY <2>2, <2>3
<1>7. ASSUME NEW p \in Procs, NEW s \in Sites,
             Invoke(p, s) \/ (Step(p, s) /\ ~Complete(p, s)) \/ Cancel(p, s)
      PROVE  handed'[d] > 0
  <2>1. CASE Invoke(p, s) \/ Decide(p, s) \/ ProviderAnswers(p, s) \/ TransportFails(p, s)
               \/ Cancel(p, s)
    BY <1>5, <2>1 DEF Invoke, Decide, ProviderAnswers, TransportFails, Cancel
  <2>2. CASE Reserve(p, s) \/ HandOver(p, s) \/ RetryTransport(p, s) \/ Flag(p, s)
    <3>1. ~At(p, s, "idle")
      BY <2>2 DEF Reserve, HandOver, RetryTransport, Flag, At
    <3>2. /\ CallOf(p, s) \in CallIds /\ CallOf(p, s) \in Slots
          /\ RequestIn(p, s) \in Requests
      BY <3>1, Addressed DEF ClientInv, CoroutinesSound
    <3> QED
      BY <1>3, <1>4, <1>5, <2>2, <3>2 DEF Reserve, HandOver, RetryTransport, Flag
  <2> QED
    BY <1>7, <2>1, <2>2 DEF Step
<1>8. ASSUME NEW c \in CallIds, AuditInterrupted(c) \/ OperatorAuthorizes(c)
      PROVE  handed'[d] > 0
  BY <1>3, <1>4, <1>8 DEF AuditInterrupted, OperatorAuthorizes
<1>9. ASSUME NEW p \in Procs, Start(p) \/ StartRecovery(p) \/ Exit(p) PROVE handed'[d] > 0
  BY <1>5, <1>9 DEF Start, StartRecovery, Exit
<1> QED
  BY <1>5, <1>6, <1>7, <1>8, <1>9 DEF Next, vars

\* Nothing is ever on record for a call that was not handed to the provider.
THEOREM SettledWasSent == Spec => []OnlySentCallsSettle
<1>1. Init => HandedBefore /\ OnlySentCallsSettle
  BY DEF Init, StoreInit, HandedBefore, OnlySentCallsSettle, Absent, Final, Idle
<1>2. Spec => []HandedBefore
  BY <1>1, HandedBeforeStep, ClientInvariant, PTL DEF Spec
<1> QED
  BY <1>1, <1>2, OnlySentStep, ClientInvariant, PTL DEF Spec

-----------------------------------------------------------------------------
(***************************************************************************)
(* One process at a time.  No lock keeps a second process from the ledger, *)
(* and with one the answer a coroutine holds may be another than the one   *)
(* on record, once an operator reopened the call it still awaits.  What    *)
(* follows is for a run that a single process works on at a time.          *)
(***************************************************************************)
OneProcess == \A p, q \in Procs : p = q

\* What a coroutine that ended has left behind: a value it returned is the
\* answer on record, and a call it failed over is not open.
Settled(k, row) ==
  /\ k.out = "value" => /\ row.state = "completed" /\ row.payload = k.answer.payload
                        /\ k.answer.payload \in ValidPayloads
  /\ k.out \notin {"cancelled", "billing_state", "fingerprint_mismatch"} => row.state # "sent"

\* How a coroutine k stands to its row and its request.
Engaged(k, row, req) ==
  /\ k.shift => k.pc = "decide"
  /\ k.pc = "mark_sent" => row.request = req
  /\ k.pc \in {"await", "flag", "complete"} => row.state = "sent" /\ row.request = req
  /\ k.pc = "done" => Settled(k, row)

EngagedIn(p, s) == Engaged(co[p][s], calls[CallOf(p, s)], RequestIn(p, s))

\* The same call with the same messages.
SameCall(k, j) == j.attempt = k.attempt /\ j.prompt = k.prompt /\ j.repairs = k.repairs

\* The moves of a coroutine from k to j while its row goes from row to next:
\* it finds its slot taken and moves to the next, it asks for a repair, or it
\* goes on with its call.
TakesNextSlot(k, j, row, next, req) ==
  /\ k.shift /\ k.pc = "decide" /\ row.state # "absent" /\ row.request # req /\ next = row
  /\ j.pc = "decide" /\ j.attempt = 1 /\ ~j.shift
  /\ j.prompt = k.prompt /\ j.repairs = k.repairs

AsksForRepair(k, j, row, next) ==
  /\ j.pc = "decide" /\ j.attempt = 1 /\ ~j.shift
  /\ j.prompt = k.prompt /\ j.repairs \in Payloads
  /\ row.state # "absent"

GoesOn(k, j, row, next, req) ==
  /\ SameCall(k, j) /\ ~j.shift
  /\ \/ j.pc = "reserve" /\ k.pc = "decide" /\ next = row
     \/ /\ j.pc = "mark_sent" /\ k.pc = "reserve" /\ next.request = req
        /\ row.state # "absent" => next = row
     \/ j.pc = "await" /\ row.state # "absent" /\ next.state = "sent" /\ next.request = req
     \/ j.pc \in {"flag", "complete"} /\ row.state # "absent" /\ next = row /\ k.pc = "await"
     \/ j.pc = "done" /\ Settled(j, next) /\ (row.state = "absent" => next = row)

Move(k, j, row, next, req) ==
  TakesNextSlot(k, j, row, next, req) \/ AsksForRepair(k, j, row, next) \/ GoesOn(k, j, row, next, req)

\* What Finish leaves of a coroutine.
LEMMA FinishLeaves ==
  ASSUME co \in [Procs -> [Sites -> Coroutine]], NEW p \in Procs, NEW s \in Sites,
         NEW out, Finish(p, s, out)
  PROVE  /\ co'[p][s].pc = "done" /\ co'[p][s].out = out /\ co'[p][s].shift = FALSE
         /\ SameCall(co[p][s], co'[p][s]) /\ co'[p][s].answer = co[p][s].answer
<1> DEFINE k == co[p][s]
           j == [k EXCEPT !.pc = "done", !.shift = FALSE, !.tries = 0, !.out = out]
<1>1. k \in Coroutine /\ co'[p][s] = j
  BY DEF Finish, Become
<1>2. /\ j.pc = "done" /\ j.out = out /\ j.shift = FALSE /\ j.attempt = k.attempt
      /\ j.prompt = k.prompt /\ j.repairs = k.repairs /\ j.answer = k.answer
  BY <1>1, Zenon DEF Coroutine
<1> HIDE DEF j
<1> QED
  BY <1>1, <1>2 DEF SameCall

\* A coroutine that failed over a row that is not open has settled it.
LEMMA FailureSettles ==
  ASSUME co \in [Procs -> [Sites -> Coroutine]], NEW p \in Procs, NEW s \in Sites,
         NEW out \in Outcomes \ {"value"}, Finish(p, s, out), NEW row, NEW next, NEW req,
         \/ out \in {"cancelled", "billing_state", "fingerprint_mismatch"}
         \/ next.state # "sent",
         row.state = "absent" => next = row
  PROVE  GoesOn(co[p][s], co'[p][s], row, next, req)
<1> DEFINE j == co'[p][s]
<1>1. j.pc = "done" /\ j.out = out /\ j.shift = FALSE /\ SameCall(co[p][s], j)
  BY FinishLeaves
<1>2. Settled(j, next)
  BY <1>1 DEF Settled
<1> QED
  BY <1>1, <1>2 DEF GoesOn

\* Judging an answer that is on record ends with it, or asks for its repair.
LEMMA JudgeMoves ==
  ASSUME co \in [Procs -> [Sites -> Coroutine]], NEW p \in Procs, NEW s \in Sites,
         NEW payload \in Payloads, Judge(p, s, payload), NEW row, NEW next, NEW req,
         row.state # "absent", next.state = "completed", next.payload = payload,
         payload \in ValidPayloads => co[p][s].answer.payload = payload
  PROVE  Move(co[p][s], co'[p][s], row, next, req)
<1> DEFINE j == [Idle EXCEPT !.pc = "decide", !.attempt = 1, !.prompt = co[p][s].prompt,
                             !.repairs = payload]
<1>1. CASE payload \in ValidPayloads
  <2>1. Finish(p, s, "value")
    BY <1>1 DEF Judge
  <2> QED
    BY <1>1, <2>1, FinishLeaves DEF Move, GoesOn, Settled
<1>2. CASE payload \notin ValidPayloads /\ co[p][s].attempt >= 1
  <2>1. Finish(p, s, "invalid_output")
    BY <1>2 DEF Judge
  <2> QED
    BY <2>1, FailureSettles DEF Move, Outcomes
<1>3. CASE payload \notin ValidPayloads /\ ~(co[p][s].attempt >= 1)
  <2>1. co'[p][s] = j
    BY <1>3 DEF Judge, Become
  <2>2. j.pc = "decide" /\ j.attempt = 1 /\ j.shift = FALSE /\ j.prompt = co[p][s].prompt
        /\ j.repairs = payload
    BY Zenon DEF Idle
  <2> HIDE DEF j
  <2> QED
    BY <2>1, <2>2 DEF Move, AsksForRepair
<1> QED
  BY <1>1, <1>2, <1>3

\* Every step of a coroutine on its call is such a move.
LEMMA StepMoves ==
  ASSUME ClientInv, NEW p \in Procs, NEW s \in Sites, EngagedIn(p, s),
         Step(p, s) \/ Cancel(p, s)
  PROVE  Move(co[p][s], co'[p][s], calls[CallOf(p, s)], calls'[CallOf(p, s)], RequestIn(p, s))
<1> DEFINE k == co[p][s]
           j == co'[p][s]
           c == CallOf(p, s)
           req == RequestIn(p, s)
           row == calls[c]
           next == calls'[c]
<1>1. /\ co \in [Procs -> [Sites -> Coroutine]] /\ k \in Coroutine /\ Sound(k)
      /\ StoreTypeOK /\ AnsweredRows
      /\ \A x : Become(p, s, x) => j = x
  BY DEF ClientInv, CoroutinesSound, Sound, Become
<1>2. k.pc \notin {"idle", "done"}
  BY DEF Step, Cancel, At, Decide, Reserve, HandOver, ProviderAnswers, RetryTransport,
         TransportFails, Flag, Complete
<1>3. c \in CallIds /\ req \in Requests
  BY <1>1, <1>2, Addressed DEF At
<1>4. row \in Row
  BY <1>1, <1>3 DEF StoreTypeOK
<1>5. UNCHANGED storeVars => next = row
  BY DEF storeVars, CallOf
<1>6. ASSUME NEW out \in {"cancelled", "billing_state", "fingerprint_mismatch"},
             Finish(p, s, out), UNCHANGED storeVars
      PROVE  Move(k, j, row, next, req)
  BY <1>1, <1>5, <1>6, FailureSettles DEF Move, Outcomes
<1>7. CASE Decide(p, s)
  <2>1. k.pc = "decide" /\ next = row
    BY <1>5, <1>7 DEF Decide, At
  <2>2. CASE k.shift /\ ResumeDecision(c, req) = "fingerprint_mismatch"
             /\ Become(p, s, [k EXCEPT !.attempt = @ + 1, !.shift = FALSE])
    <3> DEFINE x == [k EXCEPT !.attempt = 1, !.shift = FALSE]
    <3>1. k.attempt + 1 = 1
      BY <1>1, <2>2 DEF Sound
    <3>2. x.pc = k.pc /\ x.attempt = 1 /\ x.shift = FALSE /\ x.prompt = k.prompt
          /\ x.repairs = k.repairs
      BY <1>1, Zenon DEF Coroutine
    <3>3. j = x
      BY <1>1, <2>2, <3>1
    <3> HIDE DEF x
    <3>4. row.state # "absent" /\ row.request # req
      BY <1>4, <2>2 DEF ResumeDecision, Row, CallState, Unknown
    <3> QED
      BY <2>1, <2>2, <3>2, <3>3, <3>4 DEF Move, TakesNextSlot
  <2>3. CASE ResumeDecision(c, req) = "reuse_and_stop" /\ Finish(p, s, "usage_unavailable")
    <3>1. row.state = "usage_missing"
      BY <1>4, <2>3 DEF ResumeDecision, Row, CallState, Unknown
    <3> QED
      BY <1>1, <2>1, <2>3, <3>1, FailureSettles DEF Move, Outcomes
  <2>4. CASE ResumeDecision(c, req) = "reuse" /\ ReuseAnswer(p, s)
    <3>1. row.state = "completed"
      BY <1>4, <2>4 DEF ResumeDecision, Row, CallState, Unknown
    <3>2. row.payload \in Payloads
      BY <1>1, <1>3, <3>1 DEF AnsweredRows
    <3>3. CASE row.payload \in ValidPayloads \/ k.attempt >= 1
      <4> DEFINE cached == [payload |-> row.payload,
                            usage |-> [complete |-> TRUE, cost |-> row.actual]]
                 out == IF row.payload \in ValidPayloads THEN "value" ELSE "invalid_output"
                 x == [k EXCEPT !.pc = "done", !.shift = FALSE, !.answer = cached, !.out = out]
      <4>1. j = x
        BY <1>1, <2>4, <3>3 DEF ReuseAnswer
      <4>2. cached.payload = row.payload
        OBVIOUS
      <4> HIDE DEF cached, out
      <4>3. /\ x.pc = "done" /\ x.shift = FALSE /\ x.attempt = k.attempt /\ x.prompt = k.prompt
            /\ x.repairs = k.repairs /\ x.answer = cached /\ x.out = out
        BY <1>1, Zenon DEF Coroutine
      <4> HIDE DEF x
      <4>4. out = "value" => row.payload \in ValidPayloads
        BY DEF out
      <4>5. Settled(j, next)
        BY <2>1, <3>1, <4>1, <4>2, <4>3, <4>4 DEF Settled
      <4> QED
        BY <2>1, <4>1, <4>3, <4>5 DEF Move, GoesOn, SameCall
    <3>4. CASE row.payload \notin ValidPayloads /\ ~(k.attempt >= 1)
      <4>1. Judge(p, s, row.payload)
        BY <2>4, <3>4 DEF ReuseAnswer
      <4> QED
        BY <1>1, <2>1, <3>1, <3>2, <3>4, <4>1, JudgeMoves
    <3> QED
      BY <3>3, <3>4
  <2>5. CASE Become(p, s, [k EXCEPT !.pc = "reserve", !.shift = FALSE])
    <3> DEFINE x == [k EXCEPT !.pc = "reserve", !.shift = FALSE]
    <3>1. /\ x.pc = "reserve" /\ x.shift = FALSE /\ x.attempt = k.attempt
          /\ x.prompt = k.prompt /\ x.repairs = k.repairs
      BY <1>1, Zenon DEF Coroutine
    <3>2. j = x
      BY <1>1, <2>5
    <3> HIDE DEF x
    <3> QED
      BY <2>1, <3>1, <3>2 DEF Move, GoesOn, SameCall
  <2> QED
    BY <1>6, <1>7, <2>2, <2>3, <2>4, <2>5 DEF Decide
<1>8. CASE Reserve(p, s)
  <2>1. k.pc = "reserve"
    BY <1>8 DEF Reserve, At
  <2>2. PICK amount \in Estimates :
          LET outcome == ReserveOutcome(c, req, c, amount) IN
          \/ /\ outcome = "inserted" /\ ReserveCall(c, req, c, amount)
             /\ Become(p, s, [k EXCEPT !.pc = "mark_sent"])
          \/ /\ outcome = "existing" /\ Become(p, s, [k EXCEPT !.pc = "mark_sent"])
             /\ UNCHANGED storeVars
          \/ /\ outcome \notin {"inserted", "existing"} /\ Finish(p, s, outcome)
             /\ UNCHANGED storeVars
    BY <1>8, Zenon DEF Reserve
  <2> DEFINE outcome == ReserveOutcome(c, req, c, amount)
  <2>3. ASSUME Become(p, s, [k EXCEPT !.pc = "mark_sent"]), next.request = req,
               row.state # "absent" => next = row
        PROVE  Move(k, j, row, next, req)
    <3> DEFINE x == [k EXCEPT !.pc = "mark_sent"]
    <3>1. /\ x.pc = "mark_sent" /\ x.shift = k.shift /\ x.attempt = k.attempt
          /\ x.prompt = k.prompt /\ x.repairs = k.repairs
      BY <1>1, Zenon DEF Coroutine
    <3>2. j = x
      BY <1>1, <2>3
    <3>3. k.shift = FALSE
      BY <1>1, <2>1 DEF EngagedIn, Engaged, Coroutine
    <3> HIDE DEF x
    <3> QED
      BY <2>1, <2>3, <3>1, <3>2, <3>3 DEF Move, GoesOn, SameCall
  <2>4. CASE outcome = "inserted" /\ ReserveCall(c, req, c, amount)
             /\ Become(p, s, [k EXCEPT !.pc = "mark_sent"])
    <3>1. row.state = "absent"
      BY <1>4, <2>4 DEF ReserveOutcome
    <3>2. next = [Absent EXCEPT !.state = "reserved", !.slot = c, !.request = req,
                                !.reserved = amount]
      BY <1>1, <1>3, <2>4 DEF ReserveCall, StoreTypeOK, CallOf
    <3>3. next.request = req
      BY <3>2, Zenon DEF Absent
    <3> QED
      BY <2>3, <2>4, <3>1, <3>3
  <2>5. CASE outcome = "existing" /\ Become(p, s, [k EXCEPT !.pc = "mark_sent"])
             /\ UNCHANGED storeVars
    <3>1. row.request = req
      BY <1>4, <2>5 DEF ReserveOutcome
    <3> QED
      BY <1>5, <2>3, <2>5, <3>1
  <2>6. CASE outcome \notin {"inserted", "existing"} /\ Finish(p, s, outcome)
             /\ UNCHANGED storeVars
    <3>1. \/ outcome \in {"fingerprint_mismatch", "billing_state"}
          \/ outcome = "budget_exceeded" /\ row.state = "absent"
      BY <2>6 DEF ReserveOutcome
    <3> HIDE DEF outcome
    <3>2. outcome \in Outcomes \ {"value"}
      BY <3>1 DEF Outcomes
    <3> QED
      BY <1>1, <1>5, <2>6, <3>1, <3>2, FailureSettles DEF Move
  <2> QED
    BY <2>2, <2>4, <2>5, <2>6
<1>9. CASE HandOver(p, s)
  <2>1. k.pc = "mark_sent" /\ row.request = req
    BY <1>9 DEF HandOver, At, EngagedIn, Engaged
  <2>2. CASE MarkSent(c) /\ Become(p, s, [k EXCEPT !.pc = "await"])
    <3> DEFINE x == [k EXCEPT !.pc = "await"]
    <3>1. /\ x.pc = "await" /\ x.shift = k.shift /\ x.attempt = k.attempt
          /\ x.prompt = k.prompt /\ x.repairs = k.repairs
      BY <1>1, Zenon DEF Coroutine
    <3>2. j = x
      BY <1>1, <2>2
    <3>3. k.shift = FALSE
      BY <1>1, <2>1 DEF EngagedIn, Engaged, Coroutine
    <3> HIDE DEF x
    <3>4. row.state # "absent" /\ next.state = "sent" /\ next.request = row.request
      BY <1>1, <1>3, <2>2 DEF MarkSent, StoreTypeOK, Row
    <3> QED
      BY <2>1, <3>1, <3>2, <3>3, <3>4 DEF Move, GoesOn, SameCall
  <2> QED
    BY <1>6, <1>9, <2>2 DEF HandOver
<1>10. CASE ProviderAnswers(p, s) \/ RetryTransport(p, s) \/ TransportFails(p, s)
  <2>1. /\ k.pc = "await" /\ row.state = "sent" /\ row.request = req
        /\ k.shift = FALSE
    BY <1>1, <1>10 DEF ProviderAnswers, RetryTransport, TransportFails, At, EngagedIn, Engaged,
       Coroutine
  <2>2. CASE MarkTransportRetry(c) /\ Become(p, s, [k EXCEPT !.tries = @ + 1])
    <3> DEFINE x == [k EXCEPT !.tries = @ + 1]
    <3>1. /\ x.pc = k.pc /\ x.shift = k.shift /\ x.attempt = k.attempt
          /\ x.prompt = k.prompt /\ x.repairs = k.repairs
      BY <1>1, Zenon DEF Coroutine
    <3>2. j = x
      BY <1>1, <2>2
    <3> HIDE DEF x
    <3>3. next.state = "sent" /\ next.request = row.request
      BY <1>1, <1>3, <2>1, <2>2 DEF MarkTransportRetry, StoreTypeOK, Row
    <3> QED
      BY <2>1, <3>1, <3>2, <3>3 DEF Move, GoesOn, SameCall
  <2>3. CASE \E payload, usage :
               Become(p, s, [k EXCEPT !.pc = "complete", !.tries = 0,
                                      !.answer = [payload |-> payload, usage |-> usage]])
             /\ UNCHANGED storeVars
    <3>1. /\ j.pc = "complete" /\ j.shift = k.shift /\ j.attempt = k.attempt
          /\ j.prompt = k.prompt /\ j.repairs = k.repairs
      BY <1>1, <2>3, Zenon DEF Coroutine
    <3> QED
      BY <1>5, <2>1, <2>3, <3>1 DEF Move, GoesOn, SameCall
  <2>4. CASE Become(p, s, [k EXCEPT !.pc = "flag", !.tries = 0]) /\ UNCHANGED storeVars
    <3>1. /\ j.pc = "flag" /\ j.shift = k.shift /\ j.attempt = k.attempt
          /\ j.prompt = k.prompt /\ j.repairs = k.repairs
      BY <1>1, <2>4, Zenon DEF Coroutine
    <3> QED
      BY <1>5, <2>1, <2>4, <3>1 DEF Move, GoesOn, SameCall
  <2> QED
    BY <1>10, <2>2, <2>3, <2>4 DEF ProviderAnswers, RetryTransport, TransportFails
<1>11. CASE Flag(p, s)
  <2>1. k.pc = "flag" /\ row.state = "sent"
    BY <1>11 DEF Flag, At, EngagedIn, Engaged
  <2>2. MarkBillingUncertain(c) /\ Finish(p, s, "billing_uncertain")
    BY <1>11, <2>1 DEF Flag
  <2>3. next.state = "billing_uncertain"
    BY <1>1, <1>3, <2>2 DEF MarkBillingUncertain, StoreTypeOK, Row
  <2> QED
    BY <1>1, <2>1, <2>2, <2>3, FailureSettles DEF Move, Outcomes
<1>12. CASE Complete(p, s)
  <2> DEFINE answer == k.answer
             outcome == CompleteOutcome(c, req, answer.usage)
  <2>1. k.pc = "complete" /\ row.state = "sent" /\ row.request = req
    BY <1>12 DEF Complete, At, EngagedIn, Engaged
  <2>2. answer.payload \in Payloads /\ answer.usage \in Usages
    BY <1>1, <2>1 DEF Sound
  <2>3. outcome # "stored"
    BY <2>1 DEF CompleteOutcome, Final
  <2>4. /\ CompleteCall(c, req, answer.payload, answer.usage)
        /\ AfterAnswer(p, s, outcome = "budget_exceeded")
    BY <1>12, <2>3 DEF Complete
  <2>5. /\ next.state = IF answer.usage.complete THEN "completed" ELSE "usage_missing"
        /\ next.payload = answer.payload
    BY <1>1, <1>3, <2>4 DEF CompleteCall, StoreTypeOK, Row
  <2>6. CASE outcome = "budget_exceeded"
    <3>1. Finish(p, s, "budget_exceeded")
      BY <2>4, <2>6 DEF AfterAnswer
    <3> QED
      BY <1>1, <2>1, <2>5, <3>1, FailureSettles DEF Move, Outcomes
  <2>7. CASE outcome # "budget_exceeded" /\ ~answer.usage.complete
    <3>1. Finish(p, s, "usage_unavailable")
      BY <2>4, <2>7 DEF AfterAnswer
    <3> QED
      BY <1>1, <2>1, <2>5, <3>1, FailureSettles DEF Move, Outcomes
  <2>8. CASE outcome # "budget_exceeded" /\ answer.usage.complete
    <3>1. Judge(p, s, answer.payload)
      BY <2>4, <2>8 DEF AfterAnswer
    <3> QED
      BY <1>1, <2>1, <2>2, <2>5, <2>8, <3>1, JudgeMoves
  <2> QED
    BY <2>6, <2>7, <2>8
<1>13. CASE Cancel(p, s)
  BY <1>6, <1>13 DEF Cancel
<1> QED
  BY <1>7, <1>8, <1>9, <1>10, <1>11, <1>12, <1>13 DEF Step

(***************************************************************************)
(* The invariant of a single process.                                      *)
(***************************************************************************)

\* A process that is not running has no coroutines; one that is running knows
\* whether the run is recovered, and then of every base call that is neither
\* absent nor completed that it was authorized.
ProcessSound(p) ==
  /\ ~session[p].live => \A s \in Sites : co[p][s].pc = "idle"
  /\ session[p].live => session[p].recovery = recovering
  /\ session[p].live /\ session[p].recovery =>
       \A s \in Sites : \/ calls[<<s, 0>>].state \in {"absent", "completed"}
                        \/ <<s, 0>> \in session[p].authorized
  /\ \A c \in session[p].authorized : calls[c].state # "absent"

\* A row holds the request of the attempt it is filed under; no base call repairs.
RowsAddressed ==
  \A s \in Sites, a \in LogicalAttempts : calls[<<s, a>>].state # "absent" =>
    /\ calls[<<s, a>>].request \in Requests /\ calls[<<s, a>>].request.attempt = a
    /\ a = 0 => calls[<<s, a>>].request.repairs = None

\* A base row is absent, or was completed for other messages.
BaseApart(base, prompt) ==
  base.state = "absent" \/ (base.state = "completed" /\ base.request.prompt # prompt)

\* A second call of a site that repairs nothing is the work of a recovery, and
\* its messages have no base call.
RowsApart ==
  \A s \in Sites :
    calls[<<s, 1>>].state # "absent" /\ calls[<<s, 1>>].request.repairs = None =>
      recovering /\ BaseApart(calls[<<s, 0>>], calls[<<s, 1>>].request.prompt)

\* The same of the coroutines, which are about to write those rows.
Placed(p, s) ==
  co[p][s].pc # "idle" =>
    /\ co[p][s].attempt = 0 =>
         co[p][s].repairs = None /\ (recovering => calls[<<s, 0>>].state # "absent")
    /\ co[p][s].attempt = 1 /\ co[p][s].repairs = None =>
         recovering /\ BaseApart(calls[<<s, 0>>], co[p][s].prompt)
    /\ co[p][s].shift => recovering /\ calls[<<s, 0>>].state = "completed"

\* The invariant.
SoleInv ==
  /\ \A p \in Procs : ProcessSound(p)
  /\ RowsAddressed /\ RowsApart
  /\ \A p \in Procs, s \in Sites : Placed(p, s) /\ EngagedIn(p, s)

\* A row that is present stays, with its request; a completed one as it is.
LEMMA RowsStay ==
  ASSUME StoreTypeOK, StoreStep, NEW c \in CallIds
  PROVE  /\ calls[c].state # "absent" =>
              calls'[c].state # "absent" /\ calls'[c].request = calls[c].request
         /\ calls[c].state = "completed" => calls'[c] = calls[c]
         /\ handed'[c] > handed[c] => calls[c].state = "reserved"
<1> USE DEF StoreTypeOK, Row
<1>1. handed[c] \in Nat
  OBVIOUS
<1>2. ASSUME NEW d \in CallIds, NEW req \in Requests, NEW slot \in Slots,
             NEW amount \in Estimates, ReserveCall(d, req, slot, amount)
      PROVE  handed' = handed /\ (calls[c].state # "absent" => calls'[c] = calls[c])
  BY <1>2 DEF ReserveCall, ReserveOutcome
<1>3. ASSUME NEW d \in CallIds, NEW req \in Requests, NEW payload \in Payloads,
             NEW usage \in Usages, CompleteCall(d, req, payload, usage)
      PROVE  /\ handed' = handed
             /\ calls[c].state # "absent" =>
                  calls'[c].state # "absent" /\ calls'[c].request = calls[c].request
             /\ calls[c].state = "completed" => calls'[c] = calls[c]
  BY <1>3 DEF CompleteCall, CompleteOutcome, Final
<1>4. ASSUME NEW d \in CallIds, MarkSent(d)
      PROVE  /\ calls[c].state # "absent" =>
                  calls'[c].state # "absent" /\ calls'[c].request = calls[c].request
             /\ calls[c].state = "completed" => calls'[c] = calls[c]
             /\ handed'[c] # handed[c] => calls[c].state = "reserved"
  BY <1>4 DEF MarkSent
<1>5. ASSUME NEW d \in CallIds,
             \/ MarkTransportRetry(d) \/ MarkRetryableNotBilled(d) \/ MarkBillingUncertain(d)
             \/ \E audit \in Audits : AuthorizeBillingUncertainRetry(d, audit)
      PROVE  /\ handed' = handed
             /\ calls[c].state # "absent" =>
                  calls'[c].state # "absent" /\ calls'[c].request = calls[c].request
             /\ calls[c].state = "completed" => calls'[c] = calls[c]
  BY <1>5 DEF MarkTransportRetry, MarkRetryableNotBilled, MarkBillingUncertain,
              AuthorizeBillingUncertainRetry
<1>6. CASE UNCHANGED storeVars
  BY <1>1, <1>6 DEF storeVars
<1> QED
  BY <1>1, <1>2, <1>3, <1>4, <1>5, <1>6 DEF StoreStep, StoreNext

\* A step of a coroutine touches no row but its own.
LEMMA OtherRows ==
  ASSUME ClientInv, NEW p \in Procs, NEW s \in Sites, Step(p, s) \/ Cancel(p, s)
  PROVE  \A c \in CallIds : c # CallOf(p, s) => calls'[c] = calls[c]
<1>1. calls \in [CallIds -> Row]
  BY DEF ClientInv, StoreTypeOK
<1>2. CASE UNCHANGED storeVars
  BY <1>2 DEF storeVars
<1> QED
  BY <1>1, <1>2 DEF Step, Cancel, Decide, Reserve, HandOver, ProviderAnswers, RetryTransport,
     TransportFails, Flag, Complete, ReserveCall, MarkSent, MarkTransportRetry,
     MarkBillingUncertain, CompleteCall

\* The calls of a site.
LEMMA CallsOfSite ==
  /\ \A s \in Sites : <<s, 0>> \in CallIds /\ <<s, 1>> \in CallIds /\ <<s, 2>> \in CallIds
  /\ \A s \in Sites, a \in LogicalAttempts : <<s, a>> \in CallIds
  /\ LogicalAttempts = {0, 1, 2}
BY LlmAssumption DEF LogicalAttempts

\* A move leaves its coroutine deciding anew, or engaged with its row.
LEMMA MoveEngages ==
  ASSUME NEW k, NEW j, NEW row, NEW next, NEW req,
         Engaged(k, row, req), Move(k, j, row, next, req)
  PROVE  j.pc = "decide" \/ (SameCall(k, j) /\ Engaged(j, next, req))
BY DEF Engaged, Move, TakesNextSlot, AsksForRepair, GoesOn, Settled

\* A row is inserted for the call and the messages in hand.
LEMMA MoveInserts ==
  ASSUME NEW k, NEW j, NEW row, NEW next, NEW req, Move(k, j, row, next, req),
         row.state = "absent", next # row
  PROVE  next.request = req /\ SameCall(k, j)
BY DEF Move, TakesNextSlot, AsksForRepair, GoesOn

\* A step of a coroutine keeps the invariant.
LEMMA SoleMove ==
  ASSUME OneProcess, ClientInv, SoleInv, NEW p \in Procs, NEW s \in Sites,
         Step(p, s) \/ Cancel(p, s)
  PROVE  SoleInv'
<1> DEFINE k == co[p][s]
           j == co'[p][s]
           c == CallOf(p, s)
           req == RequestIn(p, s)
<1>1. /\ StoreTypeOK /\ StoreStep /\ Sound(k) /\ k \in Coroutine
      /\ UNCHANGED <<session, recovering>>
  <2>1. UNCHANGED <<session, recovering>>
    BY DEF Step, Cancel, Rest, Decide, Reserve, HandOver, ProviderAnswers, RetryTransport,
           TransportFails, Flag, Complete
  <2> QED
    BY <2>1, StepSound DEF ClientInv, CoroutinesSound, Sound
<1>2. \A q \in Procs, t \in Sites : t # s => co'[q][t] = co[q][t]
  <2>1. PICK x : Become(p, s, x)
    BY StepSound
  <2> QED
    BY <2>1 DEF Become, ClientInv, CoroutinesSound
<1>3. \A q \in Procs : q = p
  BY DEF OneProcess
<1>4. k.pc \notin {"idle", "done"} /\ session[p].live
  <2>1. k.pc \notin {"idle", "done"}
    BY DEF Step, Cancel, At, Decide, Reserve, HandOver, ProviderAnswers, RetryTransport,
           TransportFails, Flag, Complete
  <2> QED
    BY <2>1 DEF SoleInv, ProcessSound
<1>5. c = <<s, k.attempt>> /\ k.attempt \in {0, 1} /\ c \in CallIds
  BY <1>1, CallsOfSite DEF Sound, CallOf
<1>6. \A d \in CallIds : d # c => calls'[d] = calls[d]
  BY OtherRows
<1>7. \A d \in CallIds :
        /\ calls[d].state # "absent" =>
             calls'[d].state # "absent" /\ calls'[d].request = calls[d].request
        /\ calls[d].state = "completed" => calls'[d] = calls[d]
  BY <1>1, RowsStay
<1>8. Engaged(k, calls[c], req) /\ Move(k, j, calls[c], calls'[c], req)
  BY StepMoves DEF SoleInv, EngagedIn
<1>9. req.prompt = k.prompt /\ req.repairs = k.repairs /\ req.attempt = k.attempt
  BY DEF RequestIn, RequestOf
<1>10. Placed(p, s)
  BY DEF SoleInv
<1>11. calls[c].state = "absent" /\ calls'[c].state # "absent" =>
         calls'[c].request = req /\ SameCall(k, j)
  BY <1>8, MoveInserts
<1>12. recovering /\ calls[<<s, 0>>].state = "absent" => calls'[<<s, 0>>] = calls[<<s, 0>>]
  <2>1. k.attempt = 0 => ~(recovering /\ calls[<<s, 0>>].state = "absent")
    BY <1>4, <1>10 DEF Placed
  <2>2. k.attempt = 1 => <<s, 0>> # c
    BY <1>5
  <2>3. <<s, 0>> \in CallIds
    BY CallsOfSite
  <2> QED
    BY <1>5, <1>6, <2>1, <2>2, <2>3
<1>13. \A prompt : recovering /\ BaseApart(calls[<<s, 0>>], prompt) => BaseApart(calls'[<<s, 0>>], prompt)
  BY <1>7, <1>12, CallsOfSite DEF BaseApart
<1>20. ASSUME NEW t \in Sites, t # s
       PROVE  calls'[<<t, 0>>] = calls[<<t, 0>>] /\ calls'[<<t, 1>>] = calls[<<t, 1>>]
  <2>1. <<t, 0>> # c /\ <<t, 1>> # c
    BY <1>5, <1>20
  <2>2. <<t, 0>> \in CallIds /\ <<t, 1>> \in CallIds
    BY CallsOfSite
  <2> QED
    BY <1>6, <2>1, <2>2
<1>14. ProcessSound(p)'
  <2>1. ProcessSound(p)
    BY DEF SoleInv
  <2>2. ASSUME session[p].recovery, NEW t \in Sites
        PROVE  \/ calls'[<<t, 0>>].state \in {"absent", "completed"}
               \/ <<t, 0>> \in session[p].authorized
    <3>1. recovering
      BY <1>4, <2>1, <2>2 DEF ProcessSound
    <3>2. CASE t = s
      <4>1. \/ calls[<<s, 0>>].state \in {"absent", "completed"}
            \/ <<s, 0>> \in session[p].authorized
        BY <1>4, <2>1, <2>2 DEF ProcessSound
      <4>2. <<s, 0>> \in CallIds
        BY CallsOfSite
      <4> QED
        BY <1>7, <1>12, <3>1, <3>2, <4>1, <4>2
    <3>3. CASE t # s
      BY <1>4, <1>20, <2>1, <2>2, <3>3 DEF ProcessSound
    <3> QED
      BY <3>2, <3>3
  <2>3. session[p].authorized \subseteq CallIds
    BY DEF ClientInv, SessionsOK
  <2> QED
    BY <1>1, <1>4, <1>7, <2>1, <2>2, <2>3 DEF ProcessSound
<1>15. RowsAddressed'
  <2> SUFFICES ASSUME NEW t \in Sites, NEW a \in LogicalAttempts, calls'[<<t, a>>].state # "absent"
               PROVE  /\ calls'[<<t, a>>].request \in Requests
                      /\ calls'[<<t, a>>].request.attempt = a
                      /\ a = 0 => calls'[<<t, a>>].request.repairs = None
    BY DEF RowsAddressed
  <2>1. <<t, a>> \in CallIds
    BY CallsOfSite
  <2>2. CASE calls[<<t, a>>].state # "absent"
    BY <1>7, <2>1, <2>2 DEF SoleInv, RowsAddressed
  <2>3. CASE calls[<<t, a>>].state = "absent"
    <3>1. <<t, a>> = c /\ calls'[c].request = req
      BY <1>6, <1>11, <2>1, <2>3
    <3>2. req \in Requests
      BY <1>1, <1>4, Addressed DEF At
    <3> QED
      BY <1>4, <1>5, <1>9, <1>10, <3>1, <3>2 DEF Placed
  <2> QED
    BY <2>2, <2>3
<1>16. RowsApart'
  <2> SUFFICES ASSUME NEW t \in Sites, calls'[<<t, 1>>].state # "absent",
                      calls'[<<t, 1>>].request.repairs = None
               PROVE  recovering' /\ BaseApart(calls'[<<t, 0>>], calls'[<<t, 1>>].request.prompt)
    BY DEF RowsApart
  <2>1. RowsApart
    BY DEF SoleInv
  <2>2. CASE t # s
    BY <1>1, <1>20, <2>1, <2>2 DEF RowsApart
  <2>3. CASE t = s /\ calls[<<s, 1>>].state # "absent"
    <3>1. calls'[<<s, 1>>].request = calls[<<s, 1>>].request
      BY <1>7, <2>3, CallsOfSite
    <3>2. recovering /\ BaseApart(calls[<<s, 0>>], calls[<<s, 1>>].request.prompt)
      BY <2>1, <2>3, <3>1 DEF RowsApart
    <3> QED
      BY <1>1, <1>13, <2>3, <3>1, <3>2
  <2>4. CASE t = s /\ calls[<<s, 1>>].state = "absent"
    <3>1. <<s, 1>> = c /\ calls'[c].request = req
      BY <1>6, <1>11, <2>4, CallsOfSite
    <3>2. k.attempt = 1 /\ k.repairs = None /\ calls'[<<s, 1>>].request.prompt = k.prompt
      BY <1>5, <1>9, <2>4, <3>1
    <3>3. recovering /\ BaseApart(calls[<<s, 0>>], k.prompt)
      BY <1>4, <1>10, <3>2 DEF Placed
    <3> QED
      BY <1>1, <1>13, <2>4, <3>2, <3>3
  <2> QED
    BY <2>2, <2>3, <2>4
<1>17. Placed(p, s)'
  <2>1. CASE SameCall(k, j) /\ ~j.shift
    BY <1>1, <1>4, <1>7, <1>10, <1>13, <2>1, CallsOfSite DEF Placed, SameCall
  <2>2. CASE TakesNextSlot(k, j, calls[c], calls'[c], req)
    <3>1. /\ recovering /\ k.attempt = 0 /\ k.repairs = None /\ c = <<s, 0>>
          /\ calls[c].state = "completed"
      BY <1>1, <1>4, <1>5, <1>10, <2>2 DEF TakesNextSlot, Placed, Sound
    <3>2. calls[c].request.attempt = 0 /\ calls[c].request.repairs = None
      BY <2>2, <3>1, CallsOfSite DEF TakesNextSlot, SoleInv, RowsAddressed
    <3>3. calls[c].request \in Requests
      BY <2>2, <3>1, CallsOfSite DEF TakesNextSlot, SoleInv, RowsAddressed
    <3>4. calls[c].request.prompt # k.prompt
      BY <1>9, <2>2, <3>1, <3>2, <3>3, LlmAssumption DEF TakesNextSlot, RequestIn, RequestOf
    <3> QED
      BY <1>1, <2>2, <3>1, <3>4 DEF TakesNextSlot, Placed, BaseApart
  <2>3. CASE AsksForRepair(k, j, calls[c], calls'[c])
    BY <2>3, StoreAssumption DEF AsksForRepair, Placed
  <2> QED
    BY <1>8, <2>1, <2>2, <2>3 DEF Move, GoesOn
<1>18. EngagedIn(p, s)'
  <2>1. CASE j.pc = "decide"
    BY <2>1 DEF EngagedIn, Engaged
  <2>2. CASE SameCall(k, j) /\ Engaged(j, calls'[c], req)
    <3>1. CallOf(p, s)' = c /\ RequestIn(p, s)' = req
      BY <2>2 DEF SameCall, CallOf, RequestIn, RequestOf
    <3> QED
      BY <2>2, <3>1 DEF EngagedIn
  <2> QED
    BY <1>8, <2>1, <2>2, MoveEngages
<1>19. ASSUME NEW t \in Sites, t # s PROVE Placed(p, t)' /\ EngagedIn(p, t)'
  <2>1. co'[p][t] = co[p][t] /\ Placed(p, t) /\ EngagedIn(p, t)
    BY <1>2, <1>19 DEF SoleInv
  <2>2. calls'[<<t, 0>>] = calls[<<t, 0>>] /\ calls'[<<t, 1>>] = calls[<<t, 1>>]
    BY <1>19, <1>20
  <2>3. co[p][t].attempt \in {0, 1}
    BY DEF ClientInv, CoroutinesSound, Sound
  <2>4. CallOf(p, t)' = CallOf(p, t) /\ RequestIn(p, t)' = RequestIn(p, t)
    BY <2>1 DEF CallOf, RequestIn
  <2>5. calls'[CallOf(p, t)'] = calls[CallOf(p, t)]
    BY <2>2, <2>3, <2>4 DEF CallOf
  <2> QED
    BY <1>1, <2>1, <2>2, <2>4, <2>5 DEF Placed, EngagedIn
<1> QED
  BY <1>3, <1>14, <1>15, <1>16, <1>17, <1>18, <1>19 DEF SoleInv

\* What the audit and the operator do to the rows: they insert nothing, they
\* change no request and no completed row, and they send nothing.
LEMMA OperatorRows ==
  ASSUME StoreTypeOK, NEW c \in CallIds, AuditInterrupted(c) \/ OperatorAuthorizes(c),
         NEW d \in CallIds
  PROVE  /\ calls[d].state = "absent" <=> calls'[d].state = "absent"
         /\ calls'[d].request = calls[d].request
         /\ calls[d].state = "completed" => calls'[d] = calls[d]
         /\ calls'[d].state = "sent" => calls[d].state = "sent"
         /\ OperatorAuthorizes(c) /\ calls[d].state = "sent" => calls'[d].state = "sent"
<1>1. CASE MarkBillingUncertain(c) /\ ~OperatorAuthorizes(c)
  BY <1>1 DEF StoreTypeOK, Row, MarkBillingUncertain
<1>2. CASE OperatorAuthorizes(c)
  BY <1>2 DEF StoreTypeOK, Row, OperatorAuthorizes, AuthorizeBillingUncertainRetry
<1> QED
  BY <1>1, <1>2 DEF AuditInterrupted

\* The audit and the operator keep the invariant: the audit finds the process
\* down, and an authorization only reopens a row that no coroutine awaits.
LEMMA SoleOperator ==
  ASSUME OneProcess, ClientInv, SoleInv, NEW c \in CallIds,
         AuditInterrupted(c) \/ OperatorAuthorizes(c)
  PROVE  SoleInv'
<1>1. StoreTypeOK /\ UNCHANGED <<session, co, recovering>>
  BY DEF ClientInv, AuditInterrupted, OperatorAuthorizes, llmVars
<1>2. \A d \in CallIds :
        /\ calls[d].state = "absent" <=> calls'[d].state = "absent"
        /\ calls'[d].request = calls[d].request
        /\ calls[d].state = "completed" => calls'[d] = calls[d]
        /\ calls'[d].state = "sent" => calls[d].state = "sent"
        /\ OperatorAuthorizes(c) /\ calls[d].state = "sent" => calls'[d].state = "sent"
  BY <1>1, OperatorRows
<1>3. ASSUME NEW base, NEW prompt, NEW t \in Sites, base = <<t, 0>>, BaseApart(calls[base], prompt)
      PROVE  BaseApart(calls'[base], prompt)
  BY <1>2, <1>3, CallsOfSite DEF BaseApart
<1>4. ASSUME NEW p \in Procs PROVE ProcessSound(p)'
  <2>1. ProcessSound(p) /\ session[p].authorized \subseteq CallIds
    BY DEF SoleInv, ClientInv, SessionsOK
  <2>2. ASSUME NEW t \in Sites, calls[<<t, 0>>].state \in {"absent", "completed"}
        PROVE  calls'[<<t, 0>>].state \in {"absent", "completed"}
    BY <1>2, <2>2, CallsOfSite
  <2> QED
    BY <1>1, <1>2, <2>1, <2>2 DEF ProcessSound
<1>5. RowsAddressed'
  <2> SUFFICES ASSUME NEW t \in Sites, NEW a \in LogicalAttempts, calls'[<<t, a>>].state # "absent"
               PROVE  /\ calls'[<<t, a>>].request \in Requests
                      /\ calls'[<<t, a>>].request.attempt = a
                      /\ a = 0 => calls'[<<t, a>>].request.repairs = None
    BY DEF RowsAddressed
  <2>1. <<t, a>> \in CallIds
    BY CallsOfSite
  <2>2. calls[<<t, a>>].state # "absent" /\ calls'[<<t, a>>].request = calls[<<t, a>>].request
    BY <1>2, <2>1
  <2> QED
    BY <2>2 DEF SoleInv, RowsAddressed
<1>6. RowsApart'
  <2> SUFFICES ASSUME NEW t \in Sites, calls'[<<t, 1>>].state # "absent",
                      calls'[<<t, 1>>].request.repairs = None
               PROVE  recovering' /\ BaseApart(calls'[<<t, 0>>], calls'[<<t, 1>>].request.prompt)
    BY DEF RowsApart
  <2>1. calls[<<t, 1>>].state # "absent" /\ calls'[<<t, 1>>].request = calls[<<t, 1>>].request
    BY <1>2, CallsOfSite
  <2>2. recovering /\ BaseApart(calls[<<t, 0>>], calls[<<t, 1>>].request.prompt)
    BY <2>1 DEF SoleInv, RowsApart
  <2> QED
    BY <1>1, <1>3, <2>1, <2>2
<1>7. ASSUME NEW p \in Procs, NEW s \in Sites PROVE Placed(p, s)' /\ EngagedIn(p, s)'
  <2> DEFINE k == co[p][s]
             d == CallOf(p, s)
  <2>1. Placed(p, s) /\ EngagedIn(p, s) /\ co'[p][s] = k
    BY <1>1 DEF SoleInv
  <2>2. d \in CallIds /\ k.attempt \in {0, 1} /\ k.pc \in {"idle", "decide", "reserve",
          "mark_sent", "await", "flag", "complete", "done"}
    BY CallsOfSite DEF ClientInv, CoroutinesSound, Sound, Coroutine, CallOf
  <2>3. CallOf(p, s)' = d /\ RequestIn(p, s)' = RequestIn(p, s)
    BY <2>1 DEF CallOf, RequestIn
  <2>4. Placed(p, s)'
    BY <1>1, <1>2, <1>3, <2>1, CallsOfSite DEF Placed
  <2>5. CASE OperatorAuthorizes(c)
    <3>1. Engaged(k, calls[d], RequestIn(p, s))
      BY <2>1 DEF EngagedIn
    <3>2. Engaged(k, calls'[d], RequestIn(p, s))
      BY <1>2, <2>2, <2>5, <3>1 DEF Engaged, Settled
    <3> QED
      BY <2>1, <2>3, <2>4, <3>2 DEF EngagedIn
  <2>6. CASE AuditInterrupted(c)
    <3>1. k.pc = "idle"
      BY <2>6 DEF AuditInterrupted, OneProcess, SoleInv, ProcessSound
    <3> QED
      BY <2>1, <2>3, <2>4, <3>1 DEF EngagedIn, Engaged
  <2> QED
    BY <2>5, <2>6
<1> QED
  BY <1>4, <1>5, <1>6, <1>7 DEF SoleInv

\* A new invocation keeps it: it takes the second slot only over a base slot
\* that was never used.
LEMMA SoleInvoke ==
  ASSUME OneProcess, ClientInv, SoleInv, NEW p \in Procs, NEW s \in Sites, Invoke(p, s)
  PROVE  SoleInv'
<1>1. PICK prompt \in Prompts :
        Become(p, s, [Idle EXCEPT !.pc = "decide",
                                  !.attempt = IF Rebased(p, s) THEN 1 ELSE 0,
                                  !.shift = RecoveryWanted(p, s) /\ ~Rebased(p, s),
                                  !.prompt = prompt])
  BY DEF Invoke
<1> DEFINE attempt == IF Rebased(p, s) THEN 1 ELSE 0
           shift == RecoveryWanted(p, s) /\ ~Rebased(p, s)
           j == [Idle EXCEPT !.pc = "decide", !.attempt = attempt, !.shift = shift,
                             !.prompt = prompt]
<1>2. /\ attempt = 0 => ~Rebased(p, s)
      /\ attempt = 1 => Rebased(p, s)
      /\ shift => RecoveryWanted(p, s) /\ ~Rebased(p, s)
  OBVIOUS
<1>3. Become(p, s, j)
  BY <1>1
<1> HIDE DEF attempt, shift
<1>4. j.pc = "decide" /\ j.attempt = attempt /\ j.shift = shift /\ j.prompt = prompt /\ j.repairs = None
  BY Zenon DEF Idle
<1> HIDE DEF j
<1>5. co'[p][s] = j /\ \A q \in Procs, t \in Sites : t # s => co'[q][t] = co[q][t]
  BY <1>3 DEF Become, ClientInv, CoroutinesSound
<1>6. /\ session[p].live /\ UNCHANGED <<session, recovering, calls>>
      /\ \A q \in Procs : q = p
  BY DEF Invoke, Rest, storeVars, OneProcess
<1>7. ProcessSound(p) /\ ProcessSound(p)'
  BY <1>6 DEF SoleInv, ProcessSound
<1>8. Placed(p, s)'
  <2>1. session[p].recovery = recovering
    BY <1>6, <1>7 DEF ProcessSound
  <2>2. recovering /\ ~Rebased(p, s) => calls[<<s, 0>>].state # "absent"
    BY <1>7, <2>1 DEF Rebased, RecoveryWanted, ProcessSound
  <2>3. Rebased(p, s) => recovering /\ calls[<<s, 0>>].state = "absent"
    BY <1>6, <1>7, <2>1 DEF Rebased, RecoveryWanted, ProcessSound
  <2>4. RecoveryWanted(p, s) /\ ~Rebased(p, s) => recovering /\ calls[<<s, 0>>].state = "completed"
    BY <2>1 DEF Rebased, RecoveryWanted
  <2> QED
    BY <1>2, <1>4, <1>5, <1>6, <2>2, <2>3, <2>4 DEF Placed, BaseApart
<1>9. EngagedIn(p, s)'
  BY <1>4, <1>5 DEF EngagedIn, Engaged
<1>10. ASSUME NEW t \in Sites, t # s PROVE Placed(p, t)' /\ EngagedIn(p, t)'
  <2>1. co'[p][t] = co[p][t] /\ Placed(p, t) /\ EngagedIn(p, t)
    BY <1>5, <1>10 DEF SoleInv
  <2> QED
    BY <1>6, <2>1 DEF Placed, EngagedIn, CallOf, RequestIn
<1>11. RowsAddressed' /\ RowsApart'
  BY <1>6 DEF SoleInv, RowsAddressed, RowsApart
<1> QED
  BY <1>6, <1>7, <1>8, <1>9, <1>10, <1>11 DEF SoleInv

\* The process starting, starting in recovery and ending keep it.
LEMMA SoleProcess ==
  ASSUME OneProcess, ClientInv, SoleInv, NEW p \in Procs,
         Start(p) \/ StartRecovery(p) \/ Exit(p)
  PROVE  SoleInv'
<1>1. \A q \in Procs : q = p
  BY DEF OneProcess
<1>2. calls' = calls /\ ProcessSound(p) /\ session \in [Procs -> [live : BOOLEAN,
        recovery : BOOLEAN, authorized : SUBSET CallIds]]
  BY DEF Start, StartRecovery, Exit, storeVars, SoleInv, ClientInv, SessionsOK
<1>3. RowsAddressed'
  BY <1>2 DEF SoleInv, RowsAddressed
<1>4. RowsApart'
  <2>1. recovering => recovering'
    BY DEF Start, StartRecovery, Exit
  <2> QED
    BY <1>2, <2>1 DEF SoleInv, RowsApart
<1>5. CASE Start(p)
  <2> DEFINE new == [NoSession EXCEPT !.live = TRUE]
  <2>1. session'[p] = new /\ co' = co /\ recovering' = recovering /\ ~recovering
        /\ \A t \in Sites : co[p][t].pc = "idle"
    BY <1>2, <1>5 DEF Start, ProcessSound
  <2>2. new.live = TRUE /\ new.recovery = FALSE /\ new.authorized = {}
    BY Zenon DEF NoSession
  <2> HIDE DEF new
  <2>3. recovering' = FALSE
    BY <2>1 DEF ClientInv, SessionsOK
  <2>4. ProcessSound(p)'
    BY <2>1, <2>2, <2>3 DEF ProcessSound
  <2>5. \A t \in Sites : Placed(p, t)' /\ EngagedIn(p, t)'
    BY <1>2, <2>1 DEF SoleInv, Placed, EngagedIn, CallOf, RequestIn
  <2> QED
    BY <1>1, <1>3, <1>4, <2>4, <2>5 DEF SoleInv
<1>6. CASE StartRecovery(p)
  <2> DEFINE new == [live |-> TRUE, recovery |-> TRUE, authorized |-> Unresolved(CallIds)]
  <2>1. session'[p] = new /\ co' = co /\ recovering'
        /\ \A t \in Sites : co[p][t].pc = "idle"
    BY <1>2, <1>6 DEF StartRecovery, ProcessSound
  <2>2. new.live = TRUE /\ new.recovery = TRUE /\ new.authorized = Unresolved(CallIds)
    OBVIOUS
  <2> HIDE DEF new
  <2>3. recovering' = TRUE
    BY <1>6 DEF StartRecovery
  <2>4. ProcessSound(p)'
    BY <1>2, <2>1, <2>2, <2>3, CallsOfSite DEF ProcessSound, Unresolved
  <2>5. \A t \in Sites : Placed(p, t)' /\ EngagedIn(p, t)'
    BY <1>2, <2>1 DEF SoleInv, Placed, EngagedIn, CallOf, RequestIn
  <2> QED
    BY <1>1, <1>3, <1>4, <2>4, <2>5 DEF SoleInv
<1>7. CASE Exit(p)
  <2>1. session'[p] = NoSession /\ \A t \in Sites : co'[p][t] = Idle
    BY <1>2, <1>7 DEF Exit, ClientInv, CoroutinesSound
  <2>2. NoSession.live = FALSE /\ NoSession.authorized = {} /\ Idle.pc = "idle" /\ Idle.shift = FALSE
    BY Zenon DEF NoSession, Idle
  <2>3. ProcessSound(p)'
    BY <2>1, <2>2 DEF ProcessSound
  <2>4. \A t \in Sites : Placed(p, t)' /\ EngagedIn(p, t)'
    BY <2>1, <2>2 DEF Placed, EngagedIn, Engaged
  <2> QED
    BY <1>1, <1>3, <1>4, <2>3, <2>4 DEF SoleInv
<1> QED
  BY <1>5, <1>6, <1>7

\* It holds when the activity begins: no row, no process.
LEMMA SoleInit == Init => SoleInv
<1> SUFFICES ASSUME Init PROVE SoleInv
  OBVIOUS
<1>1. /\ NoSession.live = FALSE /\ NoSession.authorized = {}
      /\ Idle.pc = "idle" /\ Idle.shift = FALSE /\ Absent.state = "absent"
  BY Zenon DEF NoSession, Idle, Absent
<1>2. /\ \A c \in CallIds : calls[c].state = "absent"
      /\ \A p \in Procs : session[p] = NoSession
      /\ \A p \in Procs, s \in Sites : co[p][s] = Idle
  BY <1>1 DEF Init, StoreInit
<1>3. \A p \in Procs : ProcessSound(p)
  BY <1>1, <1>2 DEF ProcessSound
<1>4. RowsAddressed /\ RowsApart
  BY <1>2, CallsOfSite DEF RowsAddressed, RowsApart
<1>5. \A p \in Procs, s \in Sites : Placed(p, s) /\ EngagedIn(p, s)
  BY <1>1, <1>2 DEF Placed, EngagedIn, Engaged
<1> QED
  BY <1>3, <1>4, <1>5 DEF SoleInv

\* Every step of a single process, of the audit and of the operator keeps it.
LEMMA SoleStep == OneProcess /\ ClientInv /\ SoleInv /\ [Next]_vars => SoleInv'
<1> SUFFICES ASSUME OneProcess, ClientInv, SoleInv, [Next]_vars PROVE SoleInv'
  OBVIOUS
<1>1. CASE UNCHANGED vars
  BY <1>1 DEF vars, llmVars, storeVars, SoleInv, ProcessSound, RowsAddressed, RowsApart, Placed,
              EngagedIn, CallOf, RequestIn
<1>2. ASSUME NEW p \in Procs, Start(p) \/ StartRecovery(p) \/ Exit(p) PROVE SoleInv'
  BY <1>2, SoleProcess
<1>3. ASSUME NEW p \in Procs, NEW s \in Sites, Invoke(p, s) \/ Step(p, s) \/ Cancel(p, s)
      PROVE  SoleInv'
  BY <1>3, SoleInvoke, SoleMove
<1>4. ASSUME NEW c \in CallIds, AuditInterrupted(c) \/ OperatorAuthorizes(c) PROVE SoleInv'
  BY <1>4, SoleOperator
<1> QED
  BY <1>1, <1>2, <1>3, <1>4 DEF Next

\* The invariant of a single process holds at all times.
LEMMA SoleInvariant == ASSUME OneProcess PROVE Spec => []SoleInv
<1>1. ClientInv /\ SoleInv /\ [Next]_vars => SoleInv'
  BY SoleStep
<1> QED
  BY <1>1, SoleInit, ClientInvariant, PTL DEF Spec

-----------------------------------------------------------------------------
(***************************************************************************)
(* What a single process promises.                                         *)
(***************************************************************************)

\* A value that a call returned is the valid answer on record for it, and is
\* priced: completed, through crashes, recoveries and failing siblings.
THEOREM AnswersAreOnRecord == ASSUME OneProcess PROVE Spec => []AnswerUsedIsOnRecord
<1>1. SoleInv => AnswerUsedIsOnRecord
  BY DEF SoleInv, EngagedIn, Engaged, Settled, AnswerUsedIsOnRecord, At
<1> QED
  BY <1>1, SoleInvariant, PTL

\* A call that failed for a reason of its own leaves no open row behind: what
\* it cost is known, or it is flagged for the operator.
THEOREM ErrorsSettleCalls == ASSUME OneProcess PROVE Spec => []ErrorExitSettlesCall
<1>1. SoleInv => ErrorExitSettlesCall
  BY DEF SoleInv, EngagedIn, Engaged, Settled, ErrorExitSettlesCall, At
<1> QED
  BY <1>1, SoleInvariant, PTL

\* A recovery that files its work under the second slot never sends messages
\* whose answer the first slot holds, and the other way round.
THEOREM NoWorkRepeated == ASSUME OneProcess PROVE Spec => NoRepeatedWork
<1> DEFINE Fresh(s, a, b) ==
      (a # b /\ handed'[<<s, a>>] > handed[<<s, a>>]) =>
        ~(/\ calls[<<s, b>>].state = "completed"
          /\ calls[<<s, b>>].request.prompt = calls[<<s, a>>].request.prompt
          /\ calls[<<s, b>>].request.repairs = calls[<<s, a>>].request.repairs)
<1>1. ASSUME ClientInv, SoleInv, RepairAtMostOnce, [Next]_vars,
             NEW s \in Sites, NEW a \in LogicalAttempts, NEW b \in LogicalAttempts
      PROVE  Fresh(s, a, b)
  <2> SUFFICES ASSUME a # b, handed'[<<s, a>>] > handed[<<s, a>>],
                      calls[<<s, b>>].state = "completed",
                      calls[<<s, b>>].request.prompt = calls[<<s, a>>].request.prompt,
                      calls[<<s, b>>].request.repairs = calls[<<s, a>>].request.repairs
               PROVE  FALSE
    OBVIOUS
  <2>1. calls[<<s, a>>].state = "reserved"
    BY <1>1, ClientStep, RowsStay, CallsOfSite DEF ClientInv
  <2>2. calls[<<s, 2>>].state = "absent"
    BY <1>1 DEF RepairAtMostOnce
  <2>3. (a = 0 /\ b = 1) \/ (a = 1 /\ b = 0)
    BY <2>1, <2>2, CallsOfSite
  <2>4. calls[<<s, 0>>].state # "absent" /\ calls[<<s, 1>>].state # "absent"
    BY <2>1, <2>3
  <2>5. calls[<<s, 0>>].request.repairs = None
    BY <1>1, <2>4, CallsOfSite DEF SoleInv, RowsAddressed
  <2>6. /\ calls[<<s, 1>>].request.repairs = None
        /\ calls[<<s, 0>>].request.prompt = calls[<<s, 1>>].request.prompt
    BY <2>3, <2>5
  <2>7. BaseApart(calls[<<s, 0>>], calls[<<s, 1>>].request.prompt)
    BY <1>1, <2>4, <2>6 DEF SoleInv, RowsApart
  <2> QED
    BY <2>4, <2>6, <2>7 DEF BaseApart
<1>2. ClientInv /\ SoleInv /\ RepairAtMostOnce /\ [Next]_vars =>
        [\A s \in Sites, a, b \in LogicalAttempts : Fresh(s, a, b)]_vars
  BY <1>1
<1> QED
  BY <1>2, ClientInvariant, SoleInvariant, RepairedOnce, PTL DEF Spec, NoRepeatedWork

\* The client, whatever the number of its processes, keeps the cap.
COROLLARY ClientKeepsCap == Spec => []CommittedWithinCap
BY ClientUsesLedger, CapIsKept, PTL

==============================================================================
