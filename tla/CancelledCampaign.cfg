SPECIFICATION ServiceSpec
CONSTANTS
  CallIds <- MCCalls
  Slots <- MCCalls
  Requests = {r}
  Payloads = {a}
  Audits = {e}
  Estimates = {2}
  Actuals = {2, 3}
  Cap = 4
  None = None
  MaxReopen = 1
  MaxAttempts = 9
  N = 2
  Tasks = {t1}
  Linked = {1}
  Stability = {2}
  Batches = {0, 1}
  ItemEstimate = 2
  MaxStarts = 2
PROPERTIES
  CancelledCampaignIsResumable
CHECK_DEADLOCK FALSE
