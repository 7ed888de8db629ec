SPECIFICATION Spec
CONSTANTS
  Forever = 9
  MaxRequests = 1
  MaxEvents = 0
  Requests <- MCRequests
INVARIANT Intact
CHECK_DEADLOCK FALSE
