SPECIFICATION StoreSpec
CONSTANTS
  CallIds = {k1, k2}
  Slots = {s1, s2}
  Requests = {r1}
  Payloads = {p1, p2}
  Audits = {a1, a2}
  Estimates = {2, 3}
  Actuals = {1, 3}
  Cap = 5
  None = None
  MaxReopen = 2
  MaxAttempts = 2
INVARIANTS
  HandedOncePerOpening
  CommittedWithinCap
PROPERTIES
  AuditTrailKept
  PaidSpec
CHECK_DEADLOCK FALSE
