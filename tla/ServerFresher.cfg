SPECIFICATION Spec
CONSTANTS
  p = p
  f = f
  g = g
  File <- MCFile
  Project <- MCProject
  Owner <- MCOwner
  ChunkSize = 2
  ScanOnType = TRUE
  Audits = FALSE
  Failures = FALSE
  MayOpen = {}
  Outside <- MCBothChange
  MayDisable = TRUE
  MayLeave = {}
INVARIANTS FresherResultStays
CHECK_DEADLOCK FALSE
