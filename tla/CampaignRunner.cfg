SPECIFICATION FairSpec
CONSTANTS
  CallIds <- MCCalls
  Slots <- MCCalls
  Requests = {r}
  Payloads = {a}
  Audits = {e}
  Estimates = {2}
  Actuals = {2, 3}
  Cap = 8
  None = None
  MaxReopen = 1
  MaxAttempts = 9
  N = 2
  Tasks = {t1, t2}
  Linked = {1}
  Stability = {2}
  Batches = {0, 1}
  ItemEstimate = 2
  MaxStarts = 4
INVARIANTS
  LinkedArtifactsOnDisk
  UnknownBillingIsSurfaced
  StopIsConsistent
  CompleteIsClosed
  ScheduleOrder
  BaselinesFrozen
PROPERTIES
  ScoredItemsAreFinal
  RunnerEnds
CHECK_DEADLOCK FALSE
