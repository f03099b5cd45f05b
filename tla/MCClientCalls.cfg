SPECIFICATION Spec
CONSTANTS
  Calls = {k1, k2}
  MaxAttempts = 2
  Ids <- MCIds
  Attrs <- MCAttrs
  Values <- MCValues
  Nil = Nil
  ReadOnly = {}
  Immutable = {}
  Required = {}
  Unique = {"name"}
  Canonical <- MCCanonical
  Group <- GroupId
  Start <- MCStart
  Modes <- MCModes
  Setups <- MCSetups
  Bodies <- MCBodies
  PatchOps <- MCPatchOps
SYMMETRY Symmetric
INVARIANTS TypeOK AtMostOnce OutcomesAreTrue
PROPERTIES FallbackIsPatch
CHECK_DEADLOCK FALSE
