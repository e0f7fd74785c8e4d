SPECIFICATION JscSpec
CONSTANTS
  CharEnd <- MixedWidths
  MaxFaults = 0
  MaxTokens = 1
  MaxExpiries = 1
  MaxScripts = 1
CHECK_DEADLOCK FALSE
INVARIANTS
  RotationIsSeamless
