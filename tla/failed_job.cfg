SPECIFICATION CacheSpec
CONSTANTS
  Runs = {"r1", "r2"}
  Tokens <- MCTokens
  ShortId <- MCShortId
  RerunToken <- Resumed
  Specs = {"a"}
  NumCalls = 1
  Op <- OnlySbatch
  Spec <- OneSpec
  Ids = {i1, i2, i3}
  Endings = {"COMPLETED", "FAILED"}
  Cancellable = {}
  MayOverlap = FALSE
  MaxFaults = 0
  MaxExpiries = 0
SYMMETRY IdSymmetry
CHECK_DEADLOCK FALSE
INVARIANTS
  FailedIsRetriedFresh
