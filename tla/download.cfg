SPECIFICATION FairSpec
CHECK_DEADLOCK FALSE
CONSTANTS
  h1 = h1
  h2 = h2
  Hashes = {h1, h2}
  TailHash = tail
  Archive <- MCArchive3
  FileEnds = {0, 1, 3}
  Concurrency = 1
  HasProgress = TRUE
  Faults = {"describe", "index", "key", "chunk", "disk", "cancel"}
INVARIANTS
  TypeOK
  NilMeansDownloaded
  OutIsPrefix
  PanicMeansFailure
PROPERTIES
  StartReturns
  ExpiredUploadEnds
