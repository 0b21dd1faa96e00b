SPECIFICATION Spec
CONSTANTS
  p = p
  q = q
  f = f
  Project <- MCProject
  Scope <- MCScope
  Key <- MCKey
  Concurrency = 1
  Reserved = 1
  MaxGeneration = 3
INVARIANT ReserveFree
