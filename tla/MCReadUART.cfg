CONSTANTS
  Size = 3
  Base = 4
  Depth = 2
  Data = {a, b}
  None = None
SPECIFICATION FairSpec
INVARIANTS
  TypeOK
  NoEarlyEnd
PROPERTIES
  InOrder
  Heard
