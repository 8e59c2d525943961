SPECIFICATION Spec
CONSTANTS
  k1 = k1
  k2 = k2
  Keys = {k1, k2}
  NChunks = 3
  Key <- MCKey3
  TailKey = tail
  Concurrency = 1
  HasProgress = TRUE
  MaxExpiries = 1
  Faults = {"tar", "exists", "put", "index", "meta", "success", "cancel", "expire"}
INVARIANTS
  TypeOK
  SuccessMeansComplete
  NilMeansSuccess
  StoredIndexIsPrefix
  StoredIndexResolves
  WorkersBounded
  PanicMeansFailure
