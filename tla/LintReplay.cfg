SPECIFICATION ReplaySpec
CONSTANTS
  a = a
  b = b
  importing = importing
  plain = plain
  Absent = Absent
  Unknown = Unknown
  Nothing = Nothing
  Source <- MCSource
  Content <- MCContent
  Needs <- MCNeeds
  Versions <- MCVersions
  MaxWrites = 2
INVARIANTS WarmEqualsCold CoverageIsHonest
