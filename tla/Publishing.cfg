SPECIFICATION FairSpec
CONSTANTS
  Writers = {w1, w2}
  MaxOutages = 2
  MaxFaults = 2
  MaxReloads = 2
  None = None
INVARIANTS TypeOK OwnRootIsKnown AlertCoversUpdate
PROPERTIES LocalVersionIsKept CalmIsPublished
CHECK_DEADLOCK FALSE
