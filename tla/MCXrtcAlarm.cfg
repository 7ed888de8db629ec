SPECIFICATION SpecXrtc
CONSTANTS
  Dates <- NewYear
  Alarms <- Midnight
  Periods <- Limits
  MaxCalls = 3
  MaxTicks = 2
  MaxFaults = 0
PROPERTIES
  AlarmHolds
CHECK_DEADLOCK FALSE
