SPECIFICATION Spec
CONSTANTS
  Callers = {c1, c2}
  Nil = Nil
  Failed = Failed
  Aborted = Aborted
  MaxCalls = 2
  MaxChanges = 2
  MaxInvalidates = 1
INVARIANTS InvalidateRefetches
CHECK_DEADLOCK FALSE
