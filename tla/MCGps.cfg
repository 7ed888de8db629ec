SPECIFICATION SpecGps
CONSTANTS
  None = None
  Epoch0 <- NewYearsEve
  Seconds = 3
  Breaks = 1
  Kept <- Batteries
  Places <- BothSides
  Shapes <- Sentences
INVARIANTS
  Synced
  FixIsCurrent
PROPERTIES
  ComesRight
