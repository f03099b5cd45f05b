SPECIFICATION Spec
CONSTANTS
  Attrs <- MCAttrs
  Subs <- MCSubs
  Schema <- MCSchema
  Scalars <- MCScalars
  Convert <- MCConvert
  Fold <- MCFold
  Unquote <- MCUnquote
  AttrOrder <- MCOrder
  Nil = Nil
  Null = Null
  Bad = Bad
  Malformed = Malformed
  Container = Container
  MaxOperations = 2
  Cases <- MCCases
  Profiles <- MCProfiles
CHECK_DEADLOCK FALSE
INVARIANTS TypeOK RetrySafe InputUntouched SelectedOnly ToleranceConservative
PROPERTIES MutabilityKept MembersRefined
