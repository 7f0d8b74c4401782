SPECIFICATION FairSpec
CONSTANTS
  Tasks = {t0, t1}
  FirstTask = t0
  Drafts <- MCDrafts
  Splits <- MCSplits
  Hardenings <- MCHardenings
  MaxStarts = 2
  None = None
  Todo = Todo
  Asked = Asked
  Unretrieved = Unretrieved
  Mismatch = Mismatch
  Invalid = Invalid
INVARIANTS
  PaidOnce
  CallsWithinProfile
  JudgedOnAllAnswers
  WeakDraftNotResurrected
  AdjudicatedSideIsUnanimous
PROPERTIES
  GraphEnds
CHECK_DEADLOCK FALSE
