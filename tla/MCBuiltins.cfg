SPECIFICATION Spec
CONSTANTS
  None = None
  Prime = 101
  UsizeMax = 40
  OverflowChecks = TRUE
  RangeCheckBound = 16
  OffsetSize = 16
  Pedersen <- MCHash
  BitwiseOf <- MCBitwise
  BitwiseBound = 64
  EcBeta = 9
  EcHeight = 7
  Programs <- MCPrograms
  TraceEnabled = {FALSE}
  HintAnswers <- MCAnswers
  MaxSteps = 16
  EarlyOutput = FALSE
INVARIANTS
  VerifiedHashesAreStored
  DeductionsHold
  EcOpsAreSums
  RangeChecksHold
  OutputComplete
  AddressesExist
PROPERTIES
  ImplementsCairoMachine
CHECK_DEADLOCK FALSE
