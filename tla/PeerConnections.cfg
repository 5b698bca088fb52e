SPECIFICATION Spec
CONSTANTS
  None = None
  Plans <- MCPlans
  KeepTrying = 2
  MaxFlips = 2
INVARIANTS TypeOK PeerIsWatched
PROPERTIES ComesBack GoesOffline
CHECK_DEADLOCK FALSE
