SPECIFICATION FairSpec
CONSTANTS
  Requests = {q1, q2}
  Ids = {i1, i2}
  First = i1
  Attrs <- MCAttrs
  Values <- MCValues
  ReadOnly = {"owner"}
  Immutable = {"serial"}
  Required = {"members"}
  Unique = {"serial"}
  Canonical <- MCCanonical
  Stripes = {s1}
  StripeOf <- OneStripe
  PatchRetries = 3
  Modes <- LiveModes
  Start <- MCStart
  Bodies <- LiveBodies
  PatchOps <- LivePatchOps
  OutsideBodies <- LiveOutsideBodies
  MaxOutside = 3
  Nil = Nil
PROPERTIES AllAnswered
CHECK_DEADLOCK FALSE
