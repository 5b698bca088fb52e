SPECIFICATION Spec
CONSTANTS
  Extensions = {x1}
  Users = {ann}
  MaxCalls = 3
  MaxEvents = 2
  MaxRoots = 2
  None = None
INVARIANTS ForwardedOnce MessagesAreTrue
CHECK_DEADLOCK FALSE
