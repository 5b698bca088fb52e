SPECIFICATION FairSpec
CONSTANTS
  Writers = {w1, w2}
  MaxOutages = 0
  MaxFaults = 0
  MaxReloads = 0
  None = None
PROPERTIES LatestIsPublished
CHECK_DEADLOCK FALSE
