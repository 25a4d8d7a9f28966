SPECIFICATION Spec
CONSTANTS
  Playlist <- FourTracks
  Unresolvable = {1}
  Keys = {"next"}
  Capacity = 2
  MaxLoads = 4  MaxInFlight = 4
CHECK_DEADLOCK FALSE
INVARIANT NoEarlySkip
