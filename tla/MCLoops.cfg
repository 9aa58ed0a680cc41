SPECIFICATION Spec
CONSTANTS
  None = None
  Prime = 8209
  UsizeMax = 8000
  OverflowChecks = TRUE
  RangeCheckBound = 256
  OffsetMax = 4000
  TwoTo64 = 16
  TwoTo250 = 4096
  Heaps <- MCHeaps
  Scopes <- MCScopes
  Copies <- MCCopies
  Sets <- MCSets
  MaxCalls = 2
  MaxScopes = 2
  MaxSteps = 9
INVARIANTS
  CallsExact
PROPERTIES
  CallersScopesKept
  CallsReturn
CHECK_DEADLOCK FALSE
