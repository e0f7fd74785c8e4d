SPECIFICATION CacheSpec
CONSTANTS
  Runs = {"r1", "r2"}
  Tokens <- MCTokens
  ShortId <- MCShortId
  RerunToken <- Resumed
  Specs = {"a"}
  NumCalls = 2
  Op <- RunTryAwait
  Spec <- SameSpec
  Ids = {i1, i2, i3}
  Endings = {"COMPLETED", "FAILED"}
  Cancellable = {"r1"}
  MayOverlap = FALSE
  MaxFaults = 1
  MaxExpiries = 0
SYMMETRY IdSymmetry
CHECK_DEADLOCK FALSE
INVARIANTS
  NoErrorReplayed
  FinalStateReturned
