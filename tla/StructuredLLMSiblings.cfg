SPECIFICATION Spec
CONSTANTS
  CallIds <- MCCalls
  Slots <- MCCalls
  Requests <- MCRequests
  Procs = {p}
  Sites = {w1, w2}
  Prompts = {q}
  Payloads = {good, bad}
  ValidPayloads = {good}
  Audits = {a}
  Estimates = {2}
  Actuals = {1, 3}
  Cap = 5
  None = None
  Retries = 1
  MaxReopen = 1
  MaxAttempts = 8
  MaxSessions = 2
INVARIANTS
  AnswerUsedIsOnRecord
  ErrorExitSettlesCall
CHECK_DEADLOCK FALSE
