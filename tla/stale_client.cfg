SPECIFICATION FirecrestSpec
CONSTANTS
  Files <- KeyAndSecret
  MaxRotations = 2
  MaxCalls = 2
  MaxFaults = 0
CHECK_DEADLOCK FALSE
INVARIANTS ClientAlwaysFollowsDisk
