SPECIFICATION FairSpec
CHECK_DEADLOCK FALSE
CONSTANTS
  Runs = {r1, r2}
  NoRun = none
  HasUpload = TRUE
  Faults = {"receive", "decode", "delete", "heartbeat", "nocommand", "start", "exit", "upload", "readdir", "clear", "expire", "cancel"}
INVARIANTS
  TypeOK
  OneVerdict
  NoOutputLost
  OnlyExpiredKilled
  
PROPERTIES
  ExpiredRunEnds
  TakenRunReported
  StopsWithContext
