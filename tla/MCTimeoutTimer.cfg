CONSTANTS
  Per = 6
  HiMod = 2
  BlockTicks = {2}
  Delays = {2}
  MaxDepth = 2
  MaxReentry = 1
SPECIFICATION FairSpec
INVARIANTS
  TypeOK
  InnermostArmed
  NeverLate
  DelayIsLongEnough
PROPERTIES
  OneLevelAtATime
  TicksLeftExact
  ClockSteps
  BlockEnds
