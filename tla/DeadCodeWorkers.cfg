SPECIFICATION FairSpec
CONSTANTS
  c1 = c1
  c2 = c2
  c3 = c3
  c4 = c4
  Caller <- MCCaller
  Cap = 2
INVARIANTS SlotsBalance LiveChildrenBounded
PROPERTY EveryWaitEnds
CHECK_DEADLOCK FALSE
