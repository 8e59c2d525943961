SPECIFICATION FairSpec
CHECK_DEADLOCK FALSE
CONSTANTS
  k1 = k1
  k2 = k2
  Keys = {k1}
  NChunks = 2
  Key <- MCKey2
  TailKey = tail
  Concurrency = 1
  HasProgress = FALSE
  MaxExpiries = 1
  Faults = {"tar", "put", "cancel"}
PROPERTIES
  StartReturns
  Publishes
