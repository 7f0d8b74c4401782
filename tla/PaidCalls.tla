------------------------------ MODULE PaidCalls ------------------------------
(***************************************************************************)
(* What the call ledger promises about money, without saying how.          *)
(*                                                                         *)
(* A paid call is idle, open (handed to the provider, billing unknown) or  *)
(* settled (an answer is on record).  It is handed over only while idle,   *)
(* an open call becomes idle again only by an explicit reopening, and a    *)
(* settled call keeps its first answer for ever.                           *)
(***************************************************************************)
EXTENDS Naturals

CONSTANTS
  CallIds,   \* identities of paid calls
  Payloads,  \* answers a provider can give
  None       \* "no answer yet"

VARIABLES
  billing,   \* billing[c]: "idle", "open" or "settled"
  answer,    \* answer[c]: the recorded answer, or None
  handed,    \* handed[c]: times c was handed to the provider
  reopened   \* reopened[c]: times an open c was made idle again

vars == <<billing, answer, handed, reopened>>

Init ==
  /\ billing = [c \in CallIds |-> "idle"]
  /\ answer = [c \in CallIds |-> None]
  /\ handed = [c \in CallIds |-> 0]
  /\ reopened = [c \in CallIds |-> 0]

Hand(c) ==
  /\ billing[c] = "idle"
  /\ billing' = [billing EXCEPT ![c] = "open"]
  /\ handed' = [handed EXCEPT ![c] = @ + 1]
  /\ UNCHANGED <<answer, reopened>>

Reopen(c) ==
  /\ billing[c] = "open"
  /\ billing' = [billing EXCEPT ![c] = "idle"]
  /\ reopened' = [reopened EXCEPT ![c] = @ + 1]
  /\ UNCHANGED <<answer, handed>>

\* A late answer may settle a call that was reopened in the meantime.
Settle(c, p) ==
  /\ billing[c] # "settled"
  /\ billing' = [billing EXCEPT ![c] = "settled"]
  /\ answer' = [answer EXCEPT ![c] = p]
  /\ UNCHANGED <<handed, reopened>>

Next ==
  \E c \in CallIds :
    \/ Hand(c)
    \/ Reopen(c)
    \/ \E p \in Payloads : Settle(c, p)

Spec == Init /\ [][Next]_vars

=============================================================================
