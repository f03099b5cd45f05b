SPECIFICATION FairSpec
CONSTANTS
  Callers = {c1, c2}
  Nil = Nil
  Failed = Failed
  Aborted = Aborted
  MaxCalls = 2
  MaxChanges = 1
  MaxInvalidates = 1
INVARIANTS SingleFlight OwnCancellationOnly
PROPERTIES MonotonicReads CallsReturn
CHECK_DEADLOCK FALSE
