SPECIFICATION SpecXrtc
CONSTANTS
  Dates <- NewYear
  Alarms <- Midnight
  Periods <- Limits
  MaxCalls = 3
  MaxTicks = 2
  MaxFaults = 1
INVARIANTS
  PeriodCovers
PROPERTIES
  OnlyItsOwn
  SeenAlarmKept
CHECK_DEADLOCK FALSE
