SPECIFICATION Spec
CONSTANTS
  None = None
  Prime = 211
  UsizeMax = 150
  OverflowChecks = TRUE
  RangeCheckBound = 16
  OffsetMax = 50
  Texts <- MCTexts
  Arguments <- MCArguments
  Pushed <- MCPushed
  Jumps <- MCJumps
  Hints <- MCHints
  MaxMoves = 2
  MaxReferences = 2
INVARIANTS
  AddressAsMeant
  KnownIsFound
CHECK_DEADLOCK FALSE
