SPECIFICATION Spec
CONSTANTS
  Ids = {a, b, c}
  Keys = {0, 1}
  Indices <- MCIndices
  Absent = Absent
  Garbled = Garbled
  MaxInt = 4
  MaxFilterResults = 2
  DefaultPageSize = 1
  MaxPageSize = 2
  Raws <- MCRaws
  MaxRows = 3
SYMMETRY Symmetric
INVARIANTS AnswerExact
