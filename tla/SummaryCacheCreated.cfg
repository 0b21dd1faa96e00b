SPECIFICATION SummarySpec
CONSTANTS
  s = s
  f = f
  old = old
  new = new
  Absent = Absent
  Source <- MCSource
  Config <- MCConfig
  Content <- MCContent
  Search <- MCSearch
  MaxWrites = 3
INVARIANTS SummaryIsRight
