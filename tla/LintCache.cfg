SPECIFICATION Spec
CONSTANTS
  f1 = f1
  f2 = f2
  a = a
  b = b
  c = c
  k1 = k1
  k2 = k2
  s1 = s1
  c1 = c1
  c2 = c2
  Gone = Gone
  None = None
  File <- MCFile
  Content <- MCContent
  Texts <- MCTexts
  Scan <- MCScan
  Cache <- MCCache
  Config <- MCConfig
  MaxEdits = 2
SYMMETRY Symmetric
INVARIANTS CalmHitsAreRight NoStaleHits
CHECK_DEADLOCK FALSE
