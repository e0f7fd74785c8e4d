SPECIFICATION FairEcaccessSpec
CONSTANT MaxFaults = 3
CHECK_DEADLOCK FALSE
INVARIANTS
  RunsWholeScript
  NothingIsLeft
PROPERTIES
  EveryRunEnds
  ImplementsCommandRun
