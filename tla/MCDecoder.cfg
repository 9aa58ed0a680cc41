SPECIFICATION Spec
CONSTANTS
  None = None
  Prime = 101
  UsizeMax = 40
  OverflowChecks = TRUE
  OffsetSize = 2
INVARIANTS
  DecodingLosesNothing
  RefusedWhenAmbiguous
CHECK_DEADLOCK FALSE
