CONSTANTS
  Queries = {q1}
  Callers = {c1}
  BackoffAfter = 1
  MaxRows = 2
  MaxSaves = 1
  MaxFailures = 2
  MaxCrashes = 1
  None = None
  Texts <- HTexts
  Integral <- HIntegral
  Doubles <- HDoubles
  Zero = 0
  One = 2
  decimal <- HDecimal
  repr <- HRepr
  cast <- HCast
  nearest <- HNearest
  Serialized = "{}"
  StringHolds <- HHolds
  BadPatterns = {"(?="}
  Leaves <- HLeaves
  Common <- HCommon
  Stored <- HStored
  MaxLimit = 3
  MaxTokens = 5
  Windows <- HWindows
  Readers = {"r1", "r2"}
  Kinds <- MCKinds
  FirstKinds <- MCFirstKinds
  Times = {0, 2, 3}
  HistoryWindow = 2
  HistoryMax = 3
  BruteWindow = 1
  BruteThreshold = 2
  PkgmgrWindow = 2
  Allowlist <- MCAllowlist
  MaxDispatched = 4
SPECIFICATION DetSpec
INVARIANTS
  EachRowOnce
  
  HuntReadsAsTyped
  RulesJudgeTruly
PROPERTIES
  EventuallyScanned
CHECK_DEADLOCK FALSE
