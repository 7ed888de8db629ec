CONSTANTS
  N = 3
  CrossFrom = 3
SPECIFICATION CoopSpec
CONSTRAINT Followed
INVARIANTS
  TypeOK
  OwnEntry
PROPERTIES
  RoundRobin
  EveryTaskRuns
