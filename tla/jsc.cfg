SPECIFICATION JscSpec
CONSTANTS
  CharEnd <- MixedWidths
  MaxFaults = 1
  MaxTokens = 2
  MaxExpiries = 1
  MaxScripts = 2
CHECK_DEADLOCK FALSE
INVARIANTS
  StdoutIsFaithful
  JobDeleted
  RotationsAreSeen
  TokenSurvives
PROPERTIES
  EveryRunEnds
  ImplementsCommandRun
