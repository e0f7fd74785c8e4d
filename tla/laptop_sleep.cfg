SPECIFICATION ClockSpec
CONSTANTS
  Poll = 5
  Tolerance = 300
  MaxBackoff = 60
  Durations <- MCDurations
  MaxDuration = 30
  Suspensions <- LaptopSleep
  MaxSuspension = 3600
CHECK_DEADLOCK FALSE
INVARIANTS
  SleepIsTolerated
