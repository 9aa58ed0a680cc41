SPECIFICATION Spec
CONSTANTS
  None = None
  Prime = 101
  UsizeMax = 40
  OverflowChecks = TRUE
  RangeCheckBound = 2
  Contents <- MCContents
  MaxSegments = 2
  MaxOffset = 1
  MaxLoad = 2
INVARIANTS
  TypeOK
  SegmentsAgree
  ValidatedInRange
  NothingUnchecked
  SizesOnlyLag
  InsertIsIdempotent
  LoadInsertsInOrder
  ValidatesInOrder
PROPERTIES
  ImplementsCheckedMemory
