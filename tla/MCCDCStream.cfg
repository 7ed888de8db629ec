CONSTANTS
  Max = 2
  Data = {a, b}
  SofStart = 2
  SofMod = 3
  CountMod = 4
  KeepsUp = TRUE
SPECIFICATION FairSpec
INVARIANTS
  TypeOK
PROPERTIES
  WritesArrive
  ReadsArrive
  Sent
