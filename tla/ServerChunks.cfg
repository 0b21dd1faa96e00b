SPECIFICATION Spec
CONSTANTS
  p = p
  f = f
  g = g
  File <- MCFile
  Project <- MCProject
  Owner <- MCOwner
  ChunkSize = 2
  ScanOnType = TRUE
  Audits = TRUE
  Failures = TRUE
  MayOpen = {f}
  Outside <- MCOneChanges
  MayDisable = FALSE
  MayLeave = {}
INVARIANTS OpenBuffersShown
PROPERTIES VanishOnlyWhenClean
CHECK_DEADLOCK FALSE
