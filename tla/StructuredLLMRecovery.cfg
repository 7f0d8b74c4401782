SPECIFICATION FairSpec
CONSTANTS
  CallIds <- MCCalls
  Slots <- MCCalls
  Requests <- MCRequests
  Procs = {p}
  Sites = {w}
  Prompts = {q1, q2}
  Payloads = {good, bad}
  ValidPayloads = {good}
  Audits = {a}
  Estimates = {2}
  Actuals = {1}
  Cap = 9
  None = None
  Retries = 1
  MaxReopen = 2
  MaxAttempts = 8
  MaxSessions = 4
INVARIANTS
  RepairAtMostOnce
  OnlySentCallsSettle
PROPERTIES
  NoRepeatedWork
  InvocationEnds
CHECK_DEADLOCK FALSE
