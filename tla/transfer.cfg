SPECIFICATION TransferSpec
CHECK_DEADLOCK FALSE
CONSTANTS
  k1 = k1
  k2 = k2
  Keys = {k1, k2}
  NChunks = 4
  Key <- MCKey
  TailKey = tail
  Concurrency = 2
  HasProgress = TRUE
  MaxExpiries = 1
  Faults = {}
  FileEnds = {0, 1, 4}
PROPERTIES
  FaultFreeSucceeds
  SuccessIsDownloaded
