SPECIFICATION Spec
CONSTANTS
  before = before
  after = after
  None = None
  Project <- MCProject
  Kind <- MCKind
  Wanted <- MCWanted
  Baseline <- MCBaseline
  MaxEdits = 1
INVARIANT StoredIsComplete
