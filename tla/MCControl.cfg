SPECIFICATION FairSpec
CONSTANTS
  Forever = 9
  MaxRequests = 2
  MaxEvents = 2
  Requests <- MCRequests
PROPERTIES StatusFirst BreakEnds ComesUp Lawful
CHECK_DEADLOCK FALSE
