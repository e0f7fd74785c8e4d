SPECIFICATION FirecrestSpec
CONSTANTS
  Files <- KeyAndSecret
  MaxRotations = 1
  MaxCalls = 2
  MaxFaults = 2
CHECK_DEADLOCK FALSE
INVARIANTS
  ClientFollowsDisk
PROPERTIES
  ImplementsCommandRun
