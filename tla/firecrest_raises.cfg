SPECIFICATION FirecrestSpec
CONSTANTS
  Files <- KeyAndSecret
  MaxRotations = 2
  MaxCalls = 2
  MaxFaults = 2
CHECK_DEADLOCK FALSE
INVARIANTS ErrorsAreReturned
