SPECIFICATION CacheSpec
CONSTANTS
  Runs = {"r1"}
  Tokens <- MCTokens
  ShortId <- MCShortId
  RerunToken <- Resumed
  Specs = {"a"}
  NumCalls = 2
  Op <- RunTwice
  Spec <- SameSpec
  Ids = {i1, i2, i3}
  Endings = {"COMPLETED", "FAILED"}
  Cancellable = {}
  MayOverlap = FALSE
  MaxFaults = 0
  MaxExpiries = 0
SYMMETRY IdSymmetry
CHECK_DEADLOCK FALSE
INVARIANTS
  FreshRunRuns
