----------------------------- MODULE StopReasons -----------------------------
(***************************************************************************)
(* Why a campaign stopped and what its status is: the pure functions of    *)
(* evaluation/activity.py that the runner and the activity record share.   *)
(***************************************************************************)
EXTENDS Naturals, Sequences

\* CampaignStopReason, most safety-critical first; "none" is Python's None.
Precedence == <<"billing_uncertain", "usage_missing", "model_drift", "budget",
                "internal_error", "user_cancelled", "process_interruption", "user_paused">>

StopReason == {Precedence[n] : n \in 1 .. Len(Precedence)}

WorkStatus == {"pending", "running", "interrupted", "completed", "partial", "failed",
               "stopped", "not_run_budget", "cancelled"}

Scored   == {"completed", "partial", "failed"}
\* Slip: a failed prediction is not a final outcome.
TerminalButFailed == {"completed", "partial", "stopped", "not_run_budget", "cancelled"}

Terminal == Scored \cup {"stopped", "not_run_budget", "cancelled"}

CampaignStatus == {"planned", "running", "paused", "interrupted", "complete",
                   "incomplete_budget", "incomplete_model_drift", "incomplete_usage",
                   "incomplete_cost_uncertain", "cancelled", "failed"}

StopStatus ==
  [reason \in StopReason |->
     CASE reason = "billing_uncertain"    -> "incomplete_cost_uncertain"
       [] reason = "usage_missing"        -> "incomplete_usage"
       [] reason = "model_drift"          -> "incomplete_model_drift"
       [] reason = "budget"               -> "incomplete_budget"
       [] reason = "internal_error"       -> "failed"
       [] reason = "user_cancelled"       -> "cancelled"
       [] reason = "process_interruption" -> "interrupted"
       [] reason = "user_paused"          -> "paused"]

\* The most safety-critical of a set of reasons.
HighestStopReason(reasons) ==
  IF reasons \cap StopReason = {} THEN "none"
  ELSE LET n == CHOOSE n \in 1 .. Len(Precedence) :
                  /\ Precedence[n] \in reasons
                  /\ \A m \in 1 .. n - 1 : Precedence[m] \notin reasons
       IN  Precedence[n]

\* Status of a campaign from its items' work statuses and the reasons on record.
DeriveCampaignStatus(statuses, reasons) ==
  IF HighestStopReason(reasons) # "none" THEN StopStatus[HighestStopReason(reasons)]
  ELSE IF statuses = {} THEN "planned"
  ELSE IF statuses \subseteq Scored THEN "complete"
  ELSE IF "not_run_budget" \in statuses THEN "incomplete_budget"
  ELSE IF "cancelled" \in statuses THEN "cancelled"
  ELSE IF "stopped" \in statuses THEN "failed"
  ELSE IF "interrupted" \in statuses THEN "interrupted"
  ELSE IF "running" \in statuses THEN "running"
  ELSE "planned"

\* Status of an activity from the statuses of its phases, its own stop reason
\* and its billing flag: a stopped phase counts as a reason.
DeriveActivityStatus(phases, reason, billing) ==
  LET stop == HighestStopReason(
                {reason} \cup {r \in StopReason : StopStatus[r] \in phases}
                         \cup IF billing THEN {"billing_uncertain"} ELSE {})
  IN  IF stop # "none" THEN StopStatus[stop]
      ELSE IF phases = {"complete"} THEN "complete"
      ELSE IF "running" \in phases THEN "running"
      ELSE "planned"

=============================================================================
