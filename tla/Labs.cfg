SPECIFICATION Spec
CONSTANTS
  Geometries <- MCGeometries
  Blocks = {0, 1, 2, 4, 6, 8}
  MaxAccesses = 8
  OtherSizes <- MCOtherSizes
  W = 8
  EXP = 4
  Plain = {"x", "y"}
  Digit = {"0", "1"}
  MaxArgs = 2
  MaxSpaces = 1
  MaxWord = 2
  MaxPath = 3
  MaxDigits = 2
  LONG_MAX = 511
  K = 2
  MAXSAMPLES = 4
  EPSILON = 20
  CYCLES = {5, 6, 9}
  TICK = 3
  CYC_PER_TICK = {2, 3, 9}
  NEVENT = 2
  RECORDTHRESH = 2
  RUNS = 3
  MAX_ETIME = 6
  UINT = 4
INVARIANTS CacheExact LogFits TransposeRight   TextRight TimingRight
PROPERTY NearlyLru
CHECK_DEADLOCK FALSE
