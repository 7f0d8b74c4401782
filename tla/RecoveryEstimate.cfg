SPECIFICATION Spec
CONSTANTS
  Tasks = {t0, t1}
  FirstTask = t0
  Drafts <- MCDrafts
  Splits <- MCSplits
  Hardenings <- MCHardenings
  MaxStarts = 1
  None = None
  Todo = Todo
  Asked = Asked
  Unretrieved = Unretrieved
  Mismatch = Mismatch
  Invalid = Invalid
INVARIANTS
  EstimateCoversCalls
CHECK_DEADLOCK FALSE
