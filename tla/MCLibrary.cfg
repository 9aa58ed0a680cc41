SPECIFICATION Spec
CONSTANTS
  None = None
  Prime = 8209
  UsizeMax = 8000
  OverflowChecks = TRUE
  RangeCheckBound = 256
  OffsetMax = 4000
  TwoTo64 = 16
  TwoTo250 = 4096
  Calls <- MCCalls
INVARIANTS
  AnswersAreAccepted
  NothingTrueRefused
  AsTested
CHECK_DEADLOCK FALSE
