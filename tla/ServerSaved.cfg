SPECIFICATION Spec
CONSTANTS
  p = p
  f = f
  g = g
  File <- MCFile
  Project <- MCProject
  Owner <- MCOwner
  ChunkSize = 1
  ScanOnType = TRUE
  Audits = FALSE
  Failures = FALSE
  MayOpen = {f}
  Outside <- MCOneChanges
  MayDisable = FALSE
  MayLeave = {}
INVARIANTS BuffersOwned
CHECK_DEADLOCK FALSE
