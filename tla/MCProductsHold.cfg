SPECIFICATION Spec
CONSTANTS
  None = None
  Prime = 101
  UsizeMax = 40
  OverflowChecks = TRUE
  RangeCheckBound = 16
  OffsetSize = 16
  Pedersen <- MCHash
  BitwiseOf <- MCBitwise
  BitwiseBound = 64
  EcBeta = 9
  EcHeight = 7
  Programs <- MCPrograms
  TraceEnabled = {TRUE}
  HintAnswers <- MCAnswers
  MaxSteps = 6
  EarlyOutput = FALSE
PROPERTIES
  ProductsHold
CHECK_DEADLOCK FALSE
