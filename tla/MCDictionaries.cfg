SPECIFICATION Spec
CONSTANTS
  None = None
  Prime = 101
  UsizeMax = 15
  OverflowChecks = TRUE
  RangeCheckBound = 16
  Keys <- MCKeys
  Vals <- MCVals
  Programs <- MCPrograms
INVARIANTS
  LogReplays
  SquashExact
PROPERTIES
  CallerScopeKept
  ImplementsKeyValueStore
CHECK_DEADLOCK FALSE
