SPECIFICATION FairSpec
CONSTANTS
  Playlist <- FiveTracks
  Unresolvable = {1, 3}
  Keys = {"next", "previous", "pause", "quit"}
  Capacity = 1
  MaxLoads = 3  MaxInFlight = 3
CHECK_DEADLOCK FALSE
INVARIANTS TypeOK PlaysTheCursor NothingCutOff InOrder PauseConverges
PROPERTY PlaysToTheEnd
