SPECIFICATION Spec
CONSTANTS
  r = r
  s = s
  m1 = m1
  m2 = m2
  CallIds <- MCCalls
  Slots <- MCCalls
  Requests = {q}
  Payloads = {g1, g2}
  Audits = {e}
  Estimates = {2}
  Actuals = {1, 3}
  Cap = 9
  None = None
  MaxReopen = 1
  MaxAttempts = 9
  N = 2
  Tasks = {r, s, m1, m2}
  RunOf <- MCRunOf
  Batches = {0, 1}
  MaxStarts = 3
INVARIANTS
  LinksFollowCases
  ClosedIsReplayable
  EndedIsResumable
PROPERTIES
  ClosedCasesAreFinal
  NoPaidCallWhileStopped
CHECK_DEADLOCK FALSE
