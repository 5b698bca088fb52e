SPECIFICATION Spec
CONSTANTS
  Callers = {c1, c2}
  c1 = c1
  c2 = c2
  Ops <- Calls
  Held <- HeldNodes
  ChunkSize = 3
  HashSize = 2
  MaxCalls = 3
  MaxReloads = 1
  None = None
INVARIANTS TypeOK ReturnedIsSaved ShareIsFound PublishedIsKept
CHECK_DEADLOCK FALSE
SYMMETRY AnyCaller
