SPECIFICATION FairSpec
CONSTANTS
  Buffer = 2
  Backlog = 2
CHECK_DEADLOCK FALSE
INVARIANTS TypeOK NothingLeft KilledEarly
PROPERTIES ToldEnds DeathEnds
