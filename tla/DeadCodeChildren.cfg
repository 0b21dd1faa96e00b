SPECIFICATION Spec
CONSTANTS
  c1 = c1
  c2 = c2
  c3 = c3
  c4 = c4
  Caller <- MCCaller
  Cap = 2
INVARIANTS ChildrenBounded
CHECK_DEADLOCK FALSE
