SPECIFICATION FairRevisions
CONSTANTS
  Writers = {w1, w2}
  MaxLinks = 2
  MaxRevision = 5
INVARIANTS SearchIsCurrent HistoryIsUnbroken
PROPERTIES SearchEnds
