SPECIFICATION Spec
CONSTANTS
  Clients = {c1, c2}
  Ids = {i1, i2}
  Attrs <- MCAttrs
  Unique = {"userName"}
  Extra = {"tags"}
  CaseExact = {"tags"}
  Values <- MCValues
  FoldName <- MCFoldName
  Bodies <- MCBodies
  Ops <- MCOps
  MaxClock = 2
  MaxInt = 2
  MaxSeq = 3
  Nil = Nil
SYMMETRY Symmetric
INVARIANTS TypeOK IndexExact UniqueHeldOnce OrderIsRank ListPlansAgree VersionNamesContent
PROPERTIES ImplementsContract NoLostUpdate
