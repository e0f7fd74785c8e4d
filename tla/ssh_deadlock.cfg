SPECIFICATION LaunchSpec
CONSTANTS
  Runners = {"generic", "cineca", "simple", "local"}
  Outputs <- Scripts
  Window = 2
  HeadLines = 1
  Jobs = {1, 2}
  JobStates = {"COMPLETING", "COMPLETED"}
  MaxRuns = 2
  MaxFaults = 1
  MaxLate = 1
CHECK_DEADLOCK FALSE
PROPERTIES
  NoDeadlock
