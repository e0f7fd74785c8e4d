SPECIFICATION FairSlurmCommandsSpec
CONSTANTS
  Ids = {"i1", "i2", "i3"}
  NumJobs = 2
  MaxFaults = 1
CHECK_DEADLOCK FALSE
INVARIANTS
  ReturnedAreFinal
  NoJobIsForgotten
PROPERTIES
  FailsOnlyForUnseen
  EveryAwaitEnds
