CONSTANTS
  Bits = {0, 1}
  PageSize = 8
  Pages = 2
  RowSize = 4
  Records <- MCRecords
  Sources <- MCSources
  Sizes = {1, 8, 9}
  Starts = {0, 5, 8}
  MaxCalls = 2
SPECIFICATION FairSpec
INVARIANTS
  TornIsSeen
  Matched
PROPERTIES
  
  Returns
