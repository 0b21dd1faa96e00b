SPECIFICATION Spec
CONSTANTS
  p = p
  f = f
  g = g
  File <- MCFile
  Project <- MCProject
  Owner <- MCOwner
  ChunkSize = 1
  ScanOnType = TRUE
  Audits = FALSE
  Failures = FALSE
  MayOpen = {}
  Outside <- MCOneVanishes
  MayDisable = TRUE
  MayLeave = {}
INVARIANTS DeletedStaysCleared
CHECK_DEADLOCK FALSE
