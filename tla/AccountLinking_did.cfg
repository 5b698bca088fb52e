SPECIFICATION Spec
CONSTANTS
  Consumers = {c1}
  MaxKeys = 2
  MaxFaults = 0
  NoKey = NoKey
PROPERTIES TemporaryDIDIsIgnored
CHECK_DEADLOCK FALSE
