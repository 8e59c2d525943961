SPECIFICATION Spec
CHECK_DEADLOCK FALSE
CONSTANTS
  h1 = h1
  h2 = h2
  Hashes = {h1, h2}
  TailHash = tail
  Archive <- MCArchive2
  FileEnds = {0, 1, 2}
  Concurrency = 1
  HasProgress = TRUE
  Faults = {"describe", "index", "key", "chunk", "disk", "cancel"}
INVARIANTS
  NilMeansWhole
