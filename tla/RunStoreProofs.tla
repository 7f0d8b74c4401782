--------------------------- MODULE RunStoreProofs ---------------------------
(***************************************************************************)
(* Theorems about the call ledger, for every set of calls, slots,          *)
(* requests and answers and for every cap.                                 *)
(***************************************************************************)
EXTENDS RunStore, FiniteSetTheorems, WellFoundedInduction, TLAPS

\* Every transaction that writes the ledger keeps every column in its type.
LEMMA StoreTypeStep == StoreTypeOK /\ [StoreNext]_storeVars => StoreTypeOK'
<1> SUFFICES ASSUME StoreTypeOK, [StoreNext]_storeVars PROVE StoreTypeOK'
  OBVIOUS
<1> USE DEF StoreTypeOK, Row, CallState
<1>1. ASSUME NEW c \in CallIds, NEW req \in Requests, NEW slot \in Slots,
             NEW amount \in Estimates, ReserveCall(c, req, slot, amount)
      PROVE  StoreTypeOK'
  BY <1>1, StoreAssumption DEF ReserveCall, Absent
<1>2. ASSUME NEW c \in CallIds, MarkSent(c) PROVE StoreTypeOK'
  BY <1>2 DEF MarkSent
<1>3. ASSUME NEW c \in CallIds, MarkTransportRetry(c) PROVE StoreTypeOK'
  BY <1>3 DEF MarkTransportRetry
<1>4. ASSUME NEW c \in CallIds, MarkRetryableNotBilled(c) PROVE StoreTypeOK'
  BY <1>4 DEF MarkRetryableNotBilled
<1>5. ASSUME NEW c \in CallIds, MarkBillingUncertain(c) PROVE StoreTypeOK'
  BY <1>5 DEF MarkBillingUncertain
<1>6. ASSUME NEW c \in CallIds, NEW audit \in Audits,
             AuthorizeBillingUncertainRetry(c, audit)
      PROVE  StoreTypeOK'
  <2>1. calls' \in [CallIds -> Row]
    BY <1>6 DEF AuthorizeBillingUncertainRetry
  <2>2. events' \in [CallIds -> Audits \cup {None}]
    BY <1>6 DEF AuthorizeBillingUncertainRetry
  <2>3. handed' \in [CallIds -> Nat] /\ reopened' \in [CallIds -> Nat]
    BY <1>6 DEF AuthorizeBillingUncertainRetry
  <2> QED
    BY <2>1, <2>2, <2>3
<1>7. ASSUME NEW c \in CallIds, NEW req \in Requests, NEW payload \in Payloads,
             NEW usage \in Usages, CompleteCall(c, req, payload, usage)
      PROVE  StoreTypeOK'
  <2>1. usage.cost \in Nat
    <3>1. CASE usage \in [complete : {TRUE}, cost : Actuals]
      BY <3>1, StoreAssumption
    <3>2. CASE usage \in [complete : {FALSE}, cost : {0}]
      BY <3>2
    <3> QED
      BY <3>1, <3>2 DEF Usages
  <2>2. calls' \in [CallIds -> Row]
    <3> DEFINE row == [calls[c] EXCEPT
                         !.state = IF usage.complete THEN "completed" ELSE "usage_missing",
                         !.actual = usage.cost,
                         !.payload = payload]
    <3>1. row \in Row
      BY <2>1
    <3>2. calls' = [calls EXCEPT ![c] = row]
      BY <1>7 DEF CompleteCall
    <3> QED
      BY <3>1, <3>2
  <2> QED
    BY <1>7, <2>2 DEF CompleteCall
<1>8. CASE UNCHANGED storeVars
  BY <1>8 DEF storeVars
<1> QED
  BY <1>1, <1>2, <1>3, <1>4, <1>5, <1>6, <1>7, <1>8 DEF StoreNext

\* The ledger's columns always hold values of their types.
THEOREM StoreTypeCorrect == StoreSpec => []StoreTypeOK
<1>1. StoreInit => StoreTypeOK
  BY DEF StoreInit, StoreTypeOK, Absent, Row
<1> QED
  BY <1>1, StoreTypeStep, PTL DEF StoreSpec

-----------------------------------------------------------------------------
(***************************************************************************)
(* At-most-once payment.                                                   *)
(***************************************************************************)

\* Every transaction keeps the hand-over history of every call in step with
\* the call's state.
LEMMA HandedStep ==
  StoreTypeOK /\ HandedOncePerOpening /\ [StoreNext]_storeVars => HandedOncePerOpening'
<1> SUFFICES ASSUME StoreTypeOK, HandedOncePerOpening, [StoreNext]_storeVars
             PROVE  HandedOncePerOpening'
  OBVIOUS
<1> USE DEF StoreTypeOK, HandedOncePerOpening, Row, CallState, Unknown, Final
<1>1. ASSUME NEW c \in CallIds, NEW req \in Requests, NEW slot \in Slots,
             NEW amount \in Estimates, ReserveCall(c, req, slot, amount)
      PROVE  HandedOncePerOpening'
  <2>1. calls[c].state = "absent"
    BY <1>1 DEF ReserveCall, ReserveOutcome
  <2> QED
    BY <1>1, <2>1 DEF ReserveCall, Absent
<1>2. ASSUME NEW c \in CallIds, MarkSent(c) PROVE HandedOncePerOpening'
  BY <1>2 DEF MarkSent
<1>3. ASSUME NEW c \in CallIds, MarkTransportRetry(c) PROVE HandedOncePerOpening'
  BY <1>3 DEF MarkTransportRetry
<1>4. ASSUME NEW c \in CallIds, MarkRetryableNotBilled(c) PROVE HandedOncePerOpening'
  BY <1>4 DEF MarkRetryableNotBilled
<1>5. ASSUME NEW c \in CallIds, MarkBillingUncertain(c) PROVE HandedOncePerOpening'
  BY <1>5 DEF MarkBillingUncertain
<1>6. ASSUME NEW c \in CallIds, NEW audit \in Audits,
             AuthorizeBillingUncertainRetry(c, audit)
      PROVE  HandedOncePerOpening'
  BY <1>6 DEF AuthorizeBillingUncertainRetry
<1>7. ASSUME NEW c \in CallIds, NEW req \in Requests, NEW payload \in Payloads,
             NEW usage \in Usages, CompleteCall(c, req, payload, usage)
      PROVE  HandedOncePerOpening'
  <2>1. calls[c].state \notin Final \cup {"absent"}
    BY <1>7 DEF CompleteCall, CompleteOutcome
  <2>2. \A d \in CallIds \ {c} : calls'[d] = calls[d]
    BY <1>7 DEF CompleteCall
  <2>3. calls'[c].state \in Final
    BY <1>7 DEF CompleteCall
  <2>4. handed[c] \in {reopened[c], reopened[c] + 1}
    BY <2>1
  <2> QED
    BY <1>7, <2>2, <2>3, <2>4 DEF CompleteCall
<1>8. CASE UNCHANGED storeVars
  BY <1>8 DEF storeVars
<1> QED
  BY <1>1, <1>2, <1>3, <1>4, <1>5, <1>6, <1>7, <1>8 DEF StoreNext

\* Whatever clients do, a call is handed to the provider at most once more
\* than it was explicitly reopened.
THEOREM HandedOnce == StoreSpec => []HandedOncePerOpening
<1>1. StoreInit => HandedOncePerOpening
  BY DEF StoreInit, HandedOncePerOpening, Absent, Unknown, Final
<1>2. StoreSpec => []StoreTypeOK
  BY StoreTypeCorrect
<1> QED
  BY <1>1, <1>2, HandedStep, PTL DEF StoreSpec

-----------------------------------------------------------------------------
(***************************************************************************)
(* Slots and audit records.                                                *)
(***************************************************************************)

\* Only an insertion gives a row a slot, and it takes one nobody owns.
LEMMA SlotStep == StoreTypeOK /\ SlotOwnedOnce /\ [StoreNext]_storeVars => SlotOwnedOnce'
<1> SUFFICES ASSUME StoreTypeOK, SlotOwnedOnce, [StoreNext]_storeVars
             PROVE  SlotOwnedOnce'
  OBVIOUS
<1> USE DEF StoreTypeOK, SlotOwnedOnce, Row
<1>1. ASSUME NEW c \in CallIds, NEW req \in Requests, NEW slot \in Slots,
             NEW amount \in Estimates, ReserveCall(c, req, slot, amount)
      PROVE  SlotOwnedOnce'
  <2>1. \A d \in CallIds : calls[d].slot # slot
    BY <1>1 DEF ReserveCall, ReserveOutcome
  <2>2. \A d \in CallIds : calls'[d].slot = IF d = c THEN slot ELSE calls[d].slot
    BY <1>1 DEF ReserveCall, Absent
  <2> QED
    BY <2>1, <2>2
<1>2. ASSUME \A d \in CallIds : calls'[d].slot = calls[d].slot PROVE SlotOwnedOnce'
  BY <1>2
<1>3. ASSUME NEW c \in CallIds, NEW req \in Requests, NEW payload \in Payloads,
             NEW usage \in Usages, CompleteCall(c, req, payload, usage)
      PROVE  SlotOwnedOnce'
  BY <1>2, <1>3 DEF CompleteCall
<1>4. ASSUME NEW c \in CallIds,
             \/ MarkSent(c) \/ MarkTransportRetry(c) \/ MarkRetryableNotBilled(c)
             \/ MarkBillingUncertain(c)
             \/ \E audit \in Audits : AuthorizeBillingUncertainRetry(c, audit)
      PROVE  SlotOwnedOnce'
  BY <1>2, <1>4 DEF MarkSent, MarkTransportRetry, MarkRetryableNotBilled,
                    MarkBillingUncertain, AuthorizeBillingUncertainRetry
<1>5. CASE UNCHANGED storeVars
  BY <1>2, <1>5 DEF storeVars
<1> QED
  BY <1>1, <1>3, <1>4, <1>5 DEF StoreNext

\* No two rows of the ledger ever share a logical slot.
THEOREM SlotsOwnedOnce == StoreSpec => []SlotOwnedOnce
<1>1. StoreInit => SlotOwnedOnce
  BY DEF StoreInit, SlotOwnedOnce, Absent
<1>2. StoreSpec => []StoreTypeOK
  BY StoreTypeCorrect
<1> QED
  BY <1>1, <1>2, SlotStep, PTL DEF StoreSpec

\* A recorded authorization is never replaced.
THEOREM AuditTrailIsKept == StoreSpec => AuditTrailKept
<1>1. StoreTypeOK /\ [StoreNext]_storeVars =>
        [\A c \in CallIds : events[c] # None => events'[c] = events[c]]_storeVars
  <2> SUFFICES ASSUME StoreTypeOK, StoreNext, NEW d \in CallIds, events[d] # None
               PROVE  events'[d] = events[d]
    OBVIOUS
  <2>1. ASSUME NEW c \in CallIds, NEW audit \in Audits,
               AuthorizeBillingUncertainRetry(c, audit)
        PROVE  events'[d] = events[d]
    BY <2>1 DEF AuthorizeBillingUncertainRetry, StoreTypeOK
  <2>2. CASE UNCHANGED events
    BY <2>2
  <2> QED
    BY <2>1, <2>2 DEF StoreNext, ReserveCall, MarkSent, MarkTransportRetry,
                      MarkRetryableNotBilled, MarkBillingUncertain, CompleteCall
<1>2. StoreSpec => []StoreTypeOK
  BY StoreTypeCorrect
<1> QED
  BY <1>1, <1>2, PTL DEF StoreSpec, AuditTrailKept

-----------------------------------------------------------------------------
(***************************************************************************)
(* The ledger implements PaidCalls.                                        *)
(***************************************************************************)

\* A row that was never inserted holds nothing.
AbsentIsEmpty == \A c \in CallIds : calls[c].state = "absent" => calls[c] = Absent

\* No transaction writes into a row that does not exist or removes one.
LEMMA AbsentStep == StoreTypeOK /\ AbsentIsEmpty /\ [StoreNext]_storeVars => AbsentIsEmpty'
<1> SUFFICES ASSUME StoreTypeOK, AbsentIsEmpty, [StoreNext]_storeVars
             PROVE  AbsentIsEmpty'
  OBVIOUS
<1> USE DEF StoreTypeOK, AbsentIsEmpty
<1>1. ASSUME NEW c \in CallIds, calls'[c].state # "absent",
             \A d \in CallIds \ {c} : calls'[d] = calls[d]
      PROVE  AbsentIsEmpty'
  BY <1>1
<1>2. ASSUME NEW c \in CallIds, NEW req \in Requests, NEW slot \in Slots,
             NEW amount \in Estimates, ReserveCall(c, req, slot, amount)
      PROVE  AbsentIsEmpty'
  BY <1>1, <1>2 DEF ReserveCall, Absent
<1>3. ASSUME NEW c \in CallIds,
             \/ MarkSent(c) \/ MarkTransportRetry(c) \/ MarkRetryableNotBilled(c)
             \/ MarkBillingUncertain(c)
             \/ \E audit \in Audits : AuthorizeBillingUncertainRetry(c, audit)
      PROVE  AbsentIsEmpty'
  BY <1>1, <1>3 DEF MarkSent, MarkTransportRetry, MarkRetryableNotBilled,
                    MarkBillingUncertain, AuthorizeBillingUncertainRetry, Row
<1>4. ASSUME NEW c \in CallIds, NEW req \in Requests, NEW payload \in Payloads,
             NEW usage \in Usages, CompleteCall(c, req, payload, usage)
      PROVE  AbsentIsEmpty'
  <2>1. calls'[c].state \in {"completed", "usage_missing"}
    BY <1>4 DEF CompleteCall, Row
  <2> QED
    BY <1>1, <1>4, <2>1 DEF CompleteCall
<1>5. CASE UNCHANGED storeVars
  BY <1>5 DEF storeVars
<1> QED
  BY <1>2, <1>3, <1>4, <1>5 DEF StoreNext

\* So an absent row is empty at all times.
LEMMA AbsentRowsEmpty == StoreSpec => []AbsentIsEmpty
<1>1. StoreInit => AbsentIsEmpty
  BY DEF StoreInit, AbsentIsEmpty
<1>2. StoreSpec => []StoreTypeOK
  BY StoreTypeCorrect
<1> QED
  BY <1>1, <1>2, AbsentStep, PTL DEF StoreSpec

\* Every transaction is a step of the abstract specification or a stutter.
LEMMA PaidStep ==
  StoreTypeOK /\ AbsentIsEmpty /\ [StoreNext]_storeVars => [Paid!Next]_(Paid!vars)
<1> SUFFICES ASSUME StoreTypeOK, AbsentIsEmpty, StoreNext \/ UNCHANGED storeVars
             PROVE  Paid!Next \/ UNCHANGED Paid!vars
  OBVIOUS
<1> USE DEF StoreTypeOK, Row, CallState, Phase, Unknown, Final
<1>1. ASSUME NEW c \in CallIds, NEW req \in Requests, NEW slot \in Slots,
             NEW amount \in Estimates, ReserveCall(c, req, slot, amount)
      PROVE  UNCHANGED Paid!vars
  <2>1. calls[c] = Absent
    BY <1>1 DEF ReserveCall, ReserveOutcome, AbsentIsEmpty
  <2>2. /\ calls'[c].state = "reserved" /\ calls'[c].payload = None
        /\ \A d \in CallIds \ {c} : calls'[d] = calls[d]
    BY <1>1, <2>1 DEF ReserveCall, Absent
  <2> QED
    BY <1>1, <2>1, <2>2 DEF ReserveCall, Absent, Paid!vars
<1>2. ASSUME NEW c \in CallIds, MarkSent(c) PROVE Paid!Hand(c)
  BY <1>2 DEF MarkSent, Paid!Hand
<1>3. ASSUME NEW c \in CallIds, MarkTransportRetry(c) PROVE UNCHANGED Paid!vars
  BY <1>3 DEF MarkTransportRetry, Paid!vars
<1>4. ASSUME NEW c \in CallIds, MarkRetryableNotBilled(c) PROVE Paid!Reopen(c)
  BY <1>4 DEF MarkRetryableNotBilled, Paid!Reopen
<1>5. ASSUME NEW c \in CallIds, MarkBillingUncertain(c) PROVE UNCHANGED Paid!vars
  BY <1>5 DEF MarkBillingUncertain, Paid!vars
<1>6. ASSUME NEW c \in CallIds, NEW audit \in Audits,
             AuthorizeBillingUncertainRetry(c, audit)
      PROVE  Paid!Reopen(c)
  BY <1>6 DEF AuthorizeBillingUncertainRetry, Paid!Reopen
<1>7. ASSUME NEW c \in CallIds, NEW req \in Requests, NEW payload \in Payloads,
             NEW usage \in Usages, CompleteCall(c, req, payload, usage)
      PROVE  Paid!Settle(c, payload)
  <2>1. calls[c].state \notin Final
    BY <1>7 DEF CompleteCall, CompleteOutcome
  <2>2. /\ calls'[c].state \in Final /\ calls'[c].payload = payload
        /\ \A d \in CallIds \ {c} : calls'[d] = calls[d]
    BY <1>7 DEF CompleteCall
  <2>3. UNCHANGED <<handed, reopened>>
    BY <1>7 DEF CompleteCall
  <2> DEFINE billing == [d \in CallIds |-> Phase(calls[d].state)]
             answer == [d \in CallIds |-> calls[d].payload]
  <2>4. billing' = [billing EXCEPT ![c] = "settled"]
    BY <2>2
  <2>5. answer' = [answer EXCEPT ![c] = payload]
    BY <2>2
  <2>6. billing[c] # "settled"
    BY <2>1
  <2> QED
    BY <2>3, <2>4, <2>5, <2>6 DEF Paid!Settle
<1>8. CASE UNCHANGED storeVars
  BY <1>8 DEF storeVars, Paid!vars
<1> QED
  BY <1>1, <1>2, <1>3, <1>4, <1>5, <1>6, <1>7, <1>8 DEF StoreNext, Paid!Next

\* The ledger implements the abstract promise: money is handed over only for
\* idle calls, and the first recorded answer is final.
THEOREM LedgerImplementsPaidCalls == StoreSpec => PaidSpec
<1>1. StoreInit => Paid!Init
  BY DEF StoreInit, Paid!Init, Absent, Phase, Unknown, Final
<1>2. StoreSpec => []StoreTypeOK /\ []AbsentIsEmpty
  BY StoreTypeCorrect, AbsentRowsEmpty, PTL
<1> QED
  BY <1>1, <1>2, PaidStep, PTL DEF StoreSpec, PaidSpec, Paid!Spec
-----------------------------------------------------------------------------
(***************************************************************************)
(* Sums.  The ledger adds its rows up with a fold, which takes elements in *)
(* an order of its own; the table of its partial sums has the properties   *)
(* of addition.  Each is proved from a least counterexample.               *)
(***************************************************************************)

\* The element a fold takes next.
Pick(s) == CHOOSE c \in s : TRUE

\* g holds the sums of the amounts w over the subsets of S.
Sums(g, w, S) ==
  g = [s \in SUBSET S |-> IF s = {} THEN 0 ELSE w[Pick(s)] + g[s \ {Pick(s)}]]

\* What a table of sums says of a set that is not empty, and of its rest.
LEMMA SumOf ==
  ASSUME NEW g, NEW w, NEW S, Sums(g, w, S), NEW s \in SUBSET S, s # {}
  PROVE  /\ Pick(s) \in s /\ s \ {Pick(s)} \in SUBSET S
         /\ s \ {Pick(s)} # s
         /\ g[s] = w[Pick(s)] + g[s \ {Pick(s)}]
<1>1. Pick(s) \in s
  BY DEF Pick
<1>2. g[s] = w[Pick(s)] + g[s \ {Pick(s)}]
  BY DEF Sums
<1> QED
  BY <1>1, <1>2

\* The sum over nothing.
LEMMA SumOfNothing ==
  ASSUME NEW g, NEW w, NEW S, Sums(g, w, S)
  PROVE  g[{}] = 0
BY DEF Sums

\* A family of subsets of a finite set has a least one.
LEMMA SmallestSubset ==
  ASSUME NEW S, IsFiniteSet(S), NEW family \in SUBSET (SUBSET S), family # {}
  PROVE  \E s \in family : \A t \in family : t \subseteq s => t = s
<1>1. family \subseteq FiniteSubsetsOf(S)
  BY FS_Subset DEF FiniteSubsetsOf
<1>2. PICK s \in family : \A t \in family : <<t, s>> \notin StrictSubsetOrdering(S)
  BY <1>1, FS_StrictSubsetOrderingWellFounded, WFMin
<1> QED
  BY <1>2 DEF StrictSubsetOrdering

\* A sum depends on the amounts of its own elements only.
LEMMA SumsAgree ==
  ASSUME NEW S, IsFiniteSet(S), NEW g, NEW w, Sums(g, w, S),
         NEW T, NEW h, NEW v, Sums(h, v, T),
         NEW u \in SUBSET S, u \subseteq T, \A c \in u : w[c] = v[c]
  PROVE  g[u] = h[u]
<1> DEFINE wrong == {s \in SUBSET u : g[s] # h[s]}
<1> SUFFICES ASSUME wrong # {} PROVE FALSE
  OBVIOUS
<1>1. wrong \in SUBSET (SUBSET S)
  OBVIOUS
<1> HIDE DEF wrong
<1>2. PICK s \in wrong : \A t \in wrong : t \subseteq s => t = s
  BY <1>1, SmallestSubset
<1>3. s \in SUBSET S /\ s \in SUBSET T /\ s \subseteq u /\ g[s] # h[s]
  BY <1>2 DEF wrong
<1>4. s # {}
  BY <1>3, SumOfNothing
<1>5. /\ Pick(s) \in s /\ s \ {Pick(s)} # s
      /\ g[s] = w[Pick(s)] + g[s \ {Pick(s)}]
      /\ h[s] = v[Pick(s)] + h[s \ {Pick(s)}]
  BY <1>3, <1>4, SumOf
<1>6. g[s \ {Pick(s)}] = h[s \ {Pick(s)}]
  BY <1>2, <1>3, <1>5 DEF wrong
<1> QED
  BY <1>3, <1>5, <1>6

\* Every finite set of amounts has its sums.
LEMMA SumsExist ==
  ASSUME NEW S, IsFiniteSet(S), NEW w
  PROVE  \E g : Sums(g, w, S)
<1> DEFINE summed(s) == \E g : Sums(g, w, s)
           unsummed == {s \in SUBSET S : ~summed(s)}
<1> SUFFICES ASSUME unsummed # {} PROVE FALSE
  OBVIOUS
<1>0. unsummed \in SUBSET (SUBSET S)
  OBVIOUS
<1> HIDE DEF unsummed
<1>1. PICK T \in unsummed : \A s \in unsummed : s \subseteq T => s = T
  BY <1>0, SmallestSubset
<1> DEFINE table(s) == CHOOSE g : Sums(g, w, s)
           sum == [s \in SUBSET T |-> IF s = {} THEN 0
                     ELSE w[Pick(s)] + table(s \ {Pick(s)})[s \ {Pick(s)}]]
<1>2. T \in SUBSET S /\ ~summed(T) /\ IsFiniteSet(T)
  BY <1>1, FS_Subset DEF unsummed
<1>3. ASSUME NEW s \in SUBSET T, s # T PROVE Sums(table(s), w, s) /\ IsFiniteSet(s)
  <2>1. summed(s)
    BY <1>1, <1>2, <1>3 DEF unsummed
  <2> QED
    BY <1>2, <2>1, FS_Subset
<1>4. ASSUME NEW s \in SUBSET T, s # T PROVE sum[s] = table(s)[s]
  <2> HIDE DEF table
  <2>1. CASE s = {}
    <3>1. table(s)[{}] = 0
      BY <1>3, <1>4, SumOfNothing
    <3> QED
      BY <2>1, <3>1
  <2>2. CASE s # {}
    <3> DEFINE rest == s \ {Pick(s)}
    <3>1. /\ rest \in SUBSET s
          /\ table(s)[s] = w[Pick(s)] + table(s)[rest]
      BY <1>3, <1>4, <2>2, SumOf
    <3>2. rest \in SUBSET T /\ rest # T
      BY <1>4, <3>1
    <3>3. Sums(table(rest), w, rest) /\ IsFiniteSet(rest)
      BY <1>3, <3>2
    <3>4. Sums(table(s), w, s)
      BY <1>3, <1>4
    <3>5. table(rest)[rest] = table(s)[rest]
      <4> HIDE DEF rest
      <4> QED
        BY <3>1, <3>3, <3>4, SumsAgree
    <3> QED
      BY <2>2, <3>1, <3>5
  <2> QED
    BY <2>1, <2>2
<1>5. ASSUME NEW s \in SUBSET T, s # {}
      PROVE  sum[s] = w[Pick(s)] + sum[s \ {Pick(s)}]
  <2>1. Pick(s) \in s
    BY <1>5 DEF Pick
  <2>2. s \ {Pick(s)} \in SUBSET T /\ s \ {Pick(s)} # T
    BY <2>1
  <2>3. sum[s] = w[Pick(s)] + table(s \ {Pick(s)})[s \ {Pick(s)}]
    BY <1>5
  <2> HIDE DEF sum, table
  <2> QED
    BY <1>4, <2>2, <2>3
<1>6. sum[{}] = 0
  OBVIOUS
<1>7. sum = [s \in SUBSET T |-> sum[s]]
  OBVIOUS
<1> HIDE DEF sum, table
<1>8. sum = [s \in SUBSET T |-> IF s = {} THEN 0 ELSE w[Pick(s)] + sum[s \ {Pick(s)}]]
  BY <1>5, <1>6, <1>7
<1> QED
  BY <1>2, <1>8 DEF Sums

\* Sums of natural numbers are natural numbers.
LEMMA SumTyped ==
  ASSUME NEW S, IsFiniteSet(S), NEW w \in [S -> Nat], NEW g, Sums(g, w, S)
  PROVE  \A s \in SUBSET S : g[s] \in Nat
<1> DEFINE wrong == {s \in SUBSET S : g[s] \notin Nat}
<1> SUFFICES ASSUME wrong # {} PROVE FALSE
  OBVIOUS
<1>0. wrong \in SUBSET (SUBSET S)
  OBVIOUS
<1> HIDE DEF wrong
<1>1. PICK s \in wrong : \A t \in wrong : t \subseteq s => t = s
  BY <1>0, SmallestSubset
<1>2. s \in SUBSET S /\ g[s] \notin Nat /\ s # {}
  <2>1. g[{}] \in Nat
    BY SumOfNothing
  <2> QED
    BY <1>1, <2>1 DEF wrong
<1>3. /\ Pick(s) \in s /\ s \ {Pick(s)} # s
      /\ g[s] = w[Pick(s)] + g[s \ {Pick(s)}]
  BY <1>2, SumOf
<1>4. g[s \ {Pick(s)}] \in Nat
  BY <1>1, <1>2, <1>3 DEF wrong
<1> QED
  BY <1>2, <1>3, <1>4

\* Changing one amount changes the sums over sets that have it by as much.
LEMMA SumOfUpdate ==
  ASSUME NEW S, IsFiniteSet(S), NEW w \in [S -> Nat], NEW v \in [S -> Nat],
         NEW g, NEW h, Sums(g, w, S), Sums(h, v, S),
         NEW c \in S, \A d \in S \ {c} : v[d] = w[d]
  PROVE  h[S] = g[S] - w[c] + v[c]
<1> DEFINE wrong == {s \in SUBSET S : c \in s /\ h[s] # g[s] - w[c] + v[c]}
<1> SUFFICES ASSUME wrong # {} PROVE FALSE
  OBVIOUS
<1>0. wrong \in SUBSET (SUBSET S)
  OBVIOUS
<1> HIDE DEF wrong
<1>1. PICK s \in wrong : \A t \in wrong : t \subseteq s => t = s
  BY <1>0, SmallestSubset
<1>2. s \in SUBSET S /\ c \in s /\ h[s] # g[s] - w[c] + v[c]
  BY <1>1 DEF wrong
<1> DEFINE rest == s \ {Pick(s)}
<1>3. /\ Pick(s) \in s /\ rest \in SUBSET S /\ rest # s
      /\ g[s] = w[Pick(s)] + g[rest] /\ h[s] = v[Pick(s)] + h[rest]
  BY <1>2, SumOf
<1>4. g[rest] \in Nat /\ h[rest] \in Nat
  BY <1>3, SumTyped
<1>5. w[c] \in Nat /\ v[c] \in Nat /\ w[Pick(s)] \in Nat /\ v[Pick(s)] \in Nat
  BY <1>2, <1>3
<1>6. CASE Pick(s) = c
  <2>1. \A d \in rest : w[d] = v[d]
    BY <1>2, <1>6
  <2>2. g[rest] = h[rest]
    <3> HIDE DEF rest
    <3> QED
      BY <1>3, <2>1, SumsAgree
  <2> QED
    BY <1>2, <1>3, <1>4, <1>5, <1>6, <2>2
<1>7. CASE Pick(s) # c
  <2>1. c \in rest /\ rest \subseteq s
    BY <1>2, <1>7
  <2>2. h[rest] = g[rest] - w[c] + v[c]
    BY <1>1, <1>3, <2>1 DEF wrong
  <2>3. v[Pick(s)] = w[Pick(s)]
    BY <1>2, <1>3, <1>7
  <2> HIDE DEF rest
  <2> QED
    BY <1>2, <1>3, <1>4, <1>5, <2>2, <2>3
<1> QED
  BY <1>6, <1>7

-----------------------------------------------------------------------------
(***************************************************************************)
(* The cost cap.                                                           *)
(***************************************************************************)

\* What the rows of a ledger count against the cap, and the provider's overruns.
Charges(rows)  == MapThenSumSet(LAMBDA c : Charge(rows[c]), CallIds)
Overruns(rows) == MapThenSumSet(LAMBDA c : Overrun(rows[c]), CallIds)

\* The fold that adds up the charges is a table of sums, and so is the other.
LEMMA ChargesAreSums ==
  ASSUME NEW rows
  PROVE  /\ \E g : /\ Sums(g, [c \in CallIds |-> Charge(rows[c])], CallIds)
                   /\ Charges(rows) = g[CallIds]
         /\ \E g : /\ Sums(g, [c \in CallIds |-> Overrun(rows[c])], CallIds)
                   /\ Overruns(rows) = g[CallIds]
<1>1. ASSUME NEW w, NEW g, Sums(g, w, CallIds)
      PROVE  g = [s \in SUBSET CallIds |-> IF s = {} THEN 0 ELSE w[Pick(s)] + g[s \ {Pick(s)}]]
  BY <1>1 DEF Sums
<1>2. \A s \in SUBSET CallIds : s # {} => Pick(s) \in CallIds
  BY DEF Pick
<1>3. \E g : /\ Sums(g, [c \in CallIds |-> Charge(rows[c])], CallIds)
             /\ Charges(rows) = g[CallIds]
  <2> DEFINE w == [c \in CallIds |-> Charge(rows[c])]
             adds(g) == g = [s \in SUBSET CallIds |-> IF s = {} THEN 0
                               ELSE Charge(rows[Pick(s)]) + g[s \ {Pick(s)}]]
  <2>1. \A g : adds(g) <=> Sums(g, w, CallIds)
    BY <1>2 DEF Sums
  <2>2. \E g : Sums(g, w, CallIds)
    BY StoreAssumption, SumsExist
  <2>3. Charges(rows) = (CHOOSE g : adds(g))[CallIds]
    BY DEF Charges, MapThenSumSet, MapThenFoldSet, Pick
  <2>4. adds(CHOOSE g : adds(g))
    <3>1. \E g : adds(g)
      BY <2>1, <2>2
    <3> HIDE DEF adds
    <3> QED
      BY <3>1
  <2> HIDE DEF adds, w
  <2>5. Sums(CHOOSE g : adds(g), w, CallIds)
    BY <2>1, <2>4
  <2> QED
    BY <2>3, <2>5 DEF w
<1>4. \E g : /\ Sums(g, [c \in CallIds |-> Overrun(rows[c])], CallIds)
             /\ Overruns(rows) = g[CallIds]
  <2> DEFINE w == [c \in CallIds |-> Overrun(rows[c])]
             adds(g) == g = [s \in SUBSET CallIds |-> IF s = {} THEN 0
                               ELSE Overrun(rows[Pick(s)]) + g[s \ {Pick(s)}]]
  <2>1. \A g : adds(g) <=> Sums(g, w, CallIds)
    BY <1>2 DEF Sums
  <2>2. \E g : Sums(g, w, CallIds)
    BY StoreAssumption, SumsExist
  <2>3. Overruns(rows) = (CHOOSE g : adds(g))[CallIds]
    BY DEF Overruns, MapThenSumSet, MapThenFoldSet, Pick
  <2>4. adds(CHOOSE g : adds(g))
    <3>1. \E g : adds(g)
      BY <2>1, <2>2
    <3> HIDE DEF adds
    <3> QED
      BY <3>1
  <2> HIDE DEF adds, w
  <2>5. Sums(CHOOSE g : adds(g), w, CallIds)
    BY <2>1, <2>4
  <2> QED
    BY <2>3, <2>5 DEF w
<1> QED
  BY <1>3, <1>4

\* Charge and overrun of a row are amounts.
LEMMA AmountsTyped ==
  ASSUME NEW rows \in [CallIds -> Row]
  PROVE  /\ [c \in CallIds |-> Charge(rows[c])] \in [CallIds -> Nat]
         /\ [c \in CallIds |-> Overrun(rows[c])] \in [CallIds -> Nat]
<1>1. ASSUME NEW c \in CallIds PROVE Charge(rows[c]) \in Nat /\ Overrun(rows[c]) \in Nat
  BY DEF Charge, Overrun, Row
<1> QED
  BY <1>1

\* Writing one row moves both sums by what the row moves them.
LEMMA SumsOfWrite ==
  ASSUME NEW rows \in [CallIds -> Row], NEW after \in [CallIds -> Row],
         NEW c \in CallIds, \A d \in CallIds \ {c} : after[d] = rows[d]
  PROVE  /\ Charges(rows) \in Nat /\ Charges(after) \in Nat
         /\ Overruns(rows) \in Nat /\ Overruns(after) \in Nat
         /\ Charges(after) = Charges(rows) - Charge(rows[c]) + Charge(after[c])
         /\ Overruns(after) = Overruns(rows) - Overrun(rows[c]) + Overrun(after[c])
<1> DEFINE w == [d \in CallIds |-> Charge(rows[d])]
           v == [d \in CallIds |-> Charge(after[d])]
           x == [d \in CallIds |-> Overrun(rows[d])]
           y == [d \in CallIds |-> Overrun(after[d])]
<1>1. /\ w \in [CallIds -> Nat] /\ v \in [CallIds -> Nat]
      /\ x \in [CallIds -> Nat] /\ y \in [CallIds -> Nat]
  BY AmountsTyped
<1>2. /\ \A d \in CallIds \ {c} : v[d] = w[d] /\ y[d] = x[d]
      /\ w[c] = Charge(rows[c]) /\ v[c] = Charge(after[c])
      /\ x[c] = Overrun(rows[c]) /\ y[c] = Overrun(after[c])
  OBVIOUS
<1>3. PICK g : Sums(g, w, CallIds) /\ Charges(rows) = g[CallIds]
  BY ChargesAreSums
<1>4. PICK h : Sums(h, v, CallIds) /\ Charges(after) = h[CallIds]
  BY ChargesAreSums
<1>5. PICK p : Sums(p, x, CallIds) /\ Overruns(rows) = p[CallIds]
  BY ChargesAreSums
<1>6. PICK q : Sums(q, y, CallIds) /\ Overruns(after) = q[CallIds]
  BY ChargesAreSums
<1> HIDE DEF w, v, x, y
<1>7. IsFiniteSet(CallIds)
  BY StoreAssumption
<1>8. Charges(rows) \in Nat /\ Charges(after) \in Nat
  BY <1>1, <1>3, <1>4, <1>7, SumTyped
<1>9. Overruns(rows) \in Nat /\ Overruns(after) \in Nat
  BY <1>1, <1>5, <1>6, <1>7, SumTyped
<1>10. h[CallIds] = g[CallIds] - w[c] + v[c]
  BY <1>1, <1>2, <1>3, <1>4, <1>7, SumOfUpdate
<1>11. q[CallIds] = p[CallIds] - x[c] + y[c]
  BY <1>1, <1>2, <1>5, <1>6, <1>7, SumOfUpdate
<1> QED
  BY <1>2, <1>3, <1>4, <1>5, <1>6, <1>8, <1>9, <1>10, <1>11

\* The property in terms of the sums over a ledger.
LEMMA CapOfLedger ==
  /\ Committed = Charges(calls)
  /\ CommittedWithinCap <=> Charges(calls) <= Cap + Overruns(calls)
  /\ CommittedWithinCap' <=> Charges(calls') <= Cap + Overruns(calls')
BY DEF Committed, CommittedWithinCap, Charges, Overruns, MapThenSumSet, MapThenFoldSet

\* A row is written without moving what it counts, or it is reserved under the
\* cap, or it is priced: the cap holds after every transaction.
LEMMA CapStep ==
  StoreTypeOK /\ CommittedWithinCap /\ [StoreNext]_storeVars => CommittedWithinCap'
<1> SUFFICES ASSUME StoreTypeOK, CommittedWithinCap, [StoreNext]_storeVars
             PROVE  CommittedWithinCap'
  OBVIOUS
<1>1. calls \in [CallIds -> Row] /\ calls' \in [CallIds -> Row]
  BY StoreTypeStep DEF StoreTypeOK
<1>2. Charges(calls) <= Cap + Overruns(calls) /\ Cap \in Nat
  BY CapOfLedger, StoreAssumption
<1> SUFFICES Charges(calls') <= Cap + Overruns(calls')
  BY CapOfLedger
<1>3. ASSUME NEW c \in CallIds, \A d \in CallIds \ {c} : calls'[d] = calls[d],
             \/ /\ Charge(calls'[c]) = Charge(calls[c])
                /\ Overrun(calls'[c]) = Overrun(calls[c])
             \/ Charges(calls) + Charge(calls'[c]) <= Cap
             \/ /\ Charge(calls'[c]) <= Charge(calls[c]) + Overrun(calls'[c])
                /\ Overrun(calls[c]) = 0
      PROVE  Charges(calls') <= Cap + Overruns(calls')
  <2>1. /\ Charges(calls) \in Nat /\ Charges(calls') \in Nat
        /\ Overruns(calls) \in Nat /\ Overruns(calls') \in Nat
        /\ Charges(calls') = Charges(calls) - Charge(calls[c]) + Charge(calls'[c])
        /\ Overruns(calls') = Overruns(calls) - Overrun(calls[c]) + Overrun(calls'[c])
    BY <1>1, <1>3, SumsOfWrite
  <2>2. /\ Charge(calls[c]) \in Nat /\ Charge(calls'[c]) \in Nat
        /\ Overrun(calls[c]) \in Nat /\ Overrun(calls'[c]) \in Nat
    BY <1>1, AmountsTyped DEF Charge, Overrun, Row
  <2> QED
    BY <1>2, <1>3, <2>1, <2>2
<1>4. ASSUME NEW c \in CallIds, NEW req \in Requests, NEW slot \in Slots,
             NEW amount \in Estimates, ReserveCall(c, req, slot, amount)
      PROVE  Charges(calls') <= Cap + Overruns(calls')
  <2>1. Committed + amount <= Cap
    <3>1. Committed \in Nat /\ amount \in Nat
      BY <1>1, CapOfLedger, SumsOfWrite, StoreAssumption
    <3> QED
      BY <1>2, <1>4, <3>1 DEF ReserveCall, ReserveOutcome
  <2>2. calls'[c].state = "reserved" /\ calls'[c].reserved = amount
        /\ \A d \in CallIds \ {c} : calls'[d] = calls[d]
    BY <1>1, <1>4 DEF ReserveCall, Absent
  <2>3. Charges(calls) + Charge(calls'[c]) <= Cap
    BY <2>1, <2>2, CapOfLedger DEF Charge
  <2> QED
    BY <1>3, <2>2, <2>3
<1>5. ASSUME NEW c \in CallIds,
             \/ MarkSent(c) \/ MarkTransportRetry(c) \/ MarkRetryableNotBilled(c)
             \/ MarkBillingUncertain(c)
             \/ \E audit \in Audits : AuthorizeBillingUncertainRetry(c, audit)
      PROVE  Charges(calls') <= Cap + Overruns(calls')
  <2>1. /\ \A d \in CallIds \ {c} : calls'[d] = calls[d]
        /\ calls[c].state # "completed" /\ calls'[c].state # "completed"
        /\ calls'[c].reserved = calls[c].reserved
    BY <1>1, <1>5 DEF MarkSent, MarkTransportRetry, MarkRetryableNotBilled, MarkBillingUncertain,
                      AuthorizeBillingUncertainRetry, Row
  <2> QED
    BY <1>3, <2>1 DEF Charge, Overrun
<1>6. ASSUME NEW c \in CallIds, NEW req \in Requests, NEW payload \in Payloads,
             NEW usage \in Usages, CompleteCall(c, req, payload, usage)
      PROVE  Charges(calls') <= Cap + Overruns(calls')
  <2>1. /\ \A d \in CallIds \ {c} : calls'[d] = calls[d]
        /\ calls[c].state # "completed" /\ calls'[c].reserved = calls[c].reserved
        /\ calls[c].reserved \in Nat /\ calls'[c].actual \in Nat
    BY <1>1, <1>6 DEF CompleteCall, CompleteOutcome, Final, Row
  <2>2. Overrun(calls[c]) = 0 /\ Charge(calls[c]) = calls[c].reserved
    BY <2>1 DEF Charge, Overrun
  <2>3. Charge(calls'[c]) <= Charge(calls[c]) + Overrun(calls'[c])
    BY <2>1, <2>2 DEF Charge, Overrun
  <2> QED
    BY <1>3, <2>1, <2>2, <2>3
<1>7. CASE UNCHANGED storeVars
  BY <1>2, <1>7 DEF storeVars
<1> QED
  BY <1>4, <1>5, <1>6, <1>7 DEF StoreNext

\* An empty ledger has committed nothing.
LEMMA NothingCommitted == StoreInit => CommittedWithinCap
<1> SUFFICES ASSUME StoreInit PROVE Charges(calls) <= Cap + Overruns(calls)
  BY CapOfLedger
<1>1. calls \in [CallIds -> Row] /\ \A c \in CallIds : Charge(calls[c]) = 0 /\ Overrun(calls[c]) = 0
  BY DEF StoreInit, Absent, Row, Charge, Overrun
<1> DEFINE w == [c \in CallIds |-> Charge(calls[c])]
           x == [c \in CallIds |-> Overrun(calls[c])]
<1>2. w = x
  BY <1>1
<1>3. PICK g : Sums(g, w, CallIds) /\ Charges(calls) = g[CallIds]
  BY ChargesAreSums
<1>4. PICK h : Sums(h, x, CallIds) /\ Overruns(calls) = h[CallIds]
  BY ChargesAreSums
<1>5. g[CallIds] = h[CallIds] /\ g[CallIds] \in Nat
  <2>1. w \in [CallIds -> Nat]
    BY <1>1
  <2> HIDE DEF w, x
  <2>2. \A c \in CallIds : w[c] = x[c]
    BY <1>2
  <2>3. g[CallIds] = h[CallIds]
    BY <1>3, <1>4, <2>2, StoreAssumption, SumsAgree
  <2>4. g[CallIds] \in Nat
    BY <1>3, <2>1, StoreAssumption, SumTyped
  <2> QED
    BY <2>3, <2>4
<1> QED
  BY <1>3, <1>4, <1>5, StoreAssumption

\* The hard cap holds for any number of calls and any mixture of their states:
\* what is committed crosses it by the provider's own overruns at most.
THEOREM CapIsKept == StoreSpec => []CommittedWithinCap
<1>1. StoreSpec => []StoreTypeOK
  BY StoreTypeCorrect
<1> QED
  BY <1>1, NothingCommitted, CapStep, PTL DEF StoreSpec

-----------------------------------------------------------------------------
(***************************************************************************)
(* For the modules over the ledger, which work through sets of numbers.    *)
(***************************************************************************)

\* The least of a set of naturals is one of them.
LEMMA MinIsLeast ==
  ASSUME NEW S, S \subseteq Nat, S # {}
  PROVE  Min(S) \in S /\ \A n \in S : Min(S) <= n
<1>1. PICK x \in S : \A y \in S : ~(<<y, x>> \in OpToRel(<, Nat))
  BY NatLessThanWellFounded, WFMin
<1>2. ASSUME NEW y \in S PROVE x <= y
  <2>1. <<y, x>> \notin {ss \in Nat \X Nat : ss[1] < ss[2]}
    BY <1>1 DEF OpToRel
  <2>2. x \in Nat /\ y \in Nat
    OBVIOUS
  <2>3. ~(y < x)
    BY <2>1, <2>2
  <2> QED
    BY <2>2, <2>3
<1> QED
  BY <1>2 DEF Min

=============================================================================
