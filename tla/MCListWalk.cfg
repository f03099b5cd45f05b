SPECIFICATION FairSpec
CONSTANTS
  Ids = {"a", "b", "c", "d"}
  Keys = {0, 1}
  Indices <- MCIndices
  Absent = Absent
  Garbled = Garbled
  MaxInt = 7
  MaxFilterResults = 3
  DefaultPageSize = 1
  MaxPageSize = 2
  Start <- MCStart
  Targets <- MCTargets
  Queries <- MCQueries
  MaxChanges = 2
  MaxPages = 7
INVARIANTS QuietWalkExact DriftHasCause LookupSound
CHECK_DEADLOCK FALSE
PROPERTIES WalkEnds
