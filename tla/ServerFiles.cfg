SPECIFICATION Spec
CONSTANTS
  p = p
  f = f
  g = g
  File <- MCFile
  Project <- MCProject
  Owner <- MCOwner
  ChunkSize = 1
  ScanOnType = TRUE
  Audits = FALSE
  Failures = FALSE
  MayOpen = {g}
  Outside <- MCOneVanishes
  MayDisable = TRUE
  MayLeave = {}
INVARIANTS FresherResultStays OnlyKnownProjectsShown ShownIsTracked
CHECK_DEADLOCK FALSE
