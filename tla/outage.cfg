SPECIFICATION ClockSpec
CONSTANTS
  Poll = 5
  Tolerance = 300
  MaxBackoff = 60
  Durations <- MCDurations
  MaxDuration = 30
  Suspensions <- Delays
  MaxSuspension = 7
CHECK_DEADLOCK FALSE
INVARIANTS
  GivesUpLate
  GivesUpInTime
