SPECIFICATION Spec
CONSTANTS
  Requests = {q1, q2}
  Ids = {i1, i2}
  First = i1
  Attrs <- MCAttrs
  Values <- MCValues
  ReadOnly = {"owner"}
  Immutable = {"serial"}
  Required = {"members"}
  Unique = {"serial"}
  Canonical <- MCCanonical
  Stripes = {s1}
  StripeOf <- OneStripe
  PatchRetries = 2
  Modes <- SerializableModes
  Start <- MCStart
  Bodies <- MCBodies
  PatchOps <- MCPatchOps
  OutsideBodies <- MCOutsideBodies
  MaxOutside = 2
  Nil = Nil
SYMMETRY Symmetric
INVARIANTS TypeOK SwapsWhatItRead StoredAreValid PatchGivesUpLate
PROPERTIES RequestsAreAtomic ProtectedKept
