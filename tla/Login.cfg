SPECIFICATION FairSpec
CONSTANTS
  Attempts = {a, b}
  Nobody = Nobody
  Overall = 5
  PerConnection = 2
  MaxAnswers = 1
  MaxConnections = 3
INVARIANTS TypeOK OwnCode NotStarved StraysHarmless
PROPERTIES WaitEnds
CHECK_DEADLOCK FALSE
