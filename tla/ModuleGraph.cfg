SPECIFICATION Spec
CONSTANTS
  x = x
  y = y
  None = None
  Module <- MCModule
  Name <- MCName
  Family <- MCFamily
  MaxPerComponent = 5
  MaxTotal = 4
  MaxSize = 4
INVARIANTS LinkedExactly ReachedExactly NoTracedExportReported CyclesExact BarrelsExact
PROPERTY AnalysisEnds
CHECK_DEADLOCK FALSE
