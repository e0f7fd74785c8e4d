SPECIFICATION CacheSpec
CONSTANTS
  Runs = {"r1", "r2", "r3"}
  Tokens <- MCTokens
  ShortId <- MCShortId
  RerunToken <- ResumeThenFresh
  Specs = {"a"}
  NumCalls = 4
  Op <- SubmitAwaitRun
  Spec <- FourTimes
  Ids = {i1, i2, i3, i4, i5}
  Endings = {"COMPLETED", "FAILED"}
  Cancellable = {"r1", "r2"}
  MayOverlap = FALSE
  MaxFaults = 1
  MaxExpiries = 1
SYMMETRY IdSymmetry
CHECK_DEADLOCK FALSE
INVARIANTS
  TypeOK
  NothingDoneTwice
  ReturnedIsTrue
  FreshRunIsItsOwn
  RerunReplays
  NoErrorReplayed
