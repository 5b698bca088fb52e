SPECIFICATION FairSpec
CONSTANTS
  Nibbles = {0, 1}
  Depth = 2
  Initial <- InitialNames
  Adds <- AddedNames
  Node = Node
INVARIANTS TypeOK NamesAreFound RootIsComplete
PROPERTIES AddsReturn
CHECK_DEADLOCK FALSE
