SPECIFICATION SpecCentury
CONSTANTS
  Starts <- Turns
  RunDays = 1890
  Watched <- Eve
  Hours <- Carries
  Broken = 1
INVARIANTS
  CenturyKept
  RoundTrip
PROPERTIES
  Calendar
CHECK_DEADLOCK FALSE
