SPECIFICATION FairSpec
CHECK_DEADLOCK FALSE
CONSTANTS
  Runs = {r1}
  NoRun = none
  HasUpload = TRUE
  Faults = {"receive"}
PROPERTIES
  ReceiveErrorFails
