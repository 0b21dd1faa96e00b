SPECIFICATION Spec
CONSTANTS
  p = p
  f = f
  g = g
  File <- MCFile
  Project <- MCProject
  Owner <- MCOwner
  ChunkSize = 1
  ScanOnType = TRUE
  Audits = FALSE
  Failures = FALSE
  MayOpen = {}
  Outside <- MCBothChange
  MayDisable = TRUE
  MayLeave = {p}
INVARIANTS OnlyKnownProjectsShown
CHECK_DEADLOCK FALSE
