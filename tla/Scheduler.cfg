SPECIFICATION FairSpec
CONSTANTS
  p = p
  q = q
  f = f
  Project <- MCProject
  Scope <- MCScope
  Key <- MCKey
  Concurrency = 2
  Reserved = 1
  MaxGeneration = 3
INVARIANTS SlotsConserved NoNeedlessWait
PROPERTIES DeliveryMovesForward KeepsPromise BusyEnds
