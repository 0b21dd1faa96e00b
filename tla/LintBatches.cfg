SPECIFICATION FairSpec
CONSTANTS
  a = a
  b = b
  c = c
  d = d
  w1 = w1
  w2 = w2
  File <- MCFile
  Batch <- MCBatch
  Worker <- MCWorker
  MaxDepth = 2
  HasDeadline = TRUE
INVARIANTS EveryFileAccounted ReportTrue SerialIsAlone
PROPERTY Terminates
CHECK_DEADLOCK FALSE
