SPECIFICATION Spec
CONSTANTS
  Callers = {c1, c2}
  c1 = c1
  c2 = c2
  Names = {"a", "b"}
  MaxDepth = 3
  Ops <- AllOps
  Plans <- MCPlans
  Loaded <- LoadedTrees
  MaxCalls = 3
  Absent = Absent
  Dir = Dir
  None = None
INVARIANTS TypeOK CidsMatchSkeletons ReadsAreRecent
PROPERTIES KeepsItsPromise
CHECK_DEADLOCK FALSE
