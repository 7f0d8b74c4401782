SPECIFICATION Spec
CONSTANTS
  CallIds <- MCCalls
  Slots <- MCCalls
  Requests = {r}
  Payloads = {a}
  Audits = {e}
  Estimates = {2}
  Actuals = {2}
  Cap = 8
  None = None
  MaxReopen = 1
  MaxAttempts = 9
  N = 1
  Tasks = {t1}
  Linked = {}
  Stability = {}
  Batches = {0}
  ItemEstimate = 2
  MaxStarts = 3
INVARIANTS
  CrashedItemIsResumable
CHECK_DEADLOCK FALSE
