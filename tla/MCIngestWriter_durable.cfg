SPECIFICATION Spec
CONSTANTS
  r1 = r1
  r2 = r2
  r3 = r3
  Requests = {r1, r2, r3}
  Count <- MCCount
  RowBytes <- MCRowBytes
  NewService = {r3}
  NumWriters = 1
  Batches = {1, 2, 3, 4, 5}
  MaxBatchRows = 2
  MaxBatchBytes = 100
  MaxPendingRows = 4
  BlockSize = 2
  SyncCommit = TRUE
  CanCrash = TRUE
  CanStop = FALSE
INVARIANTS
  TypeOK
  AckedStored
  StoredAtMostOnce
  PendingMatches
  IdleReleasesOpenBatch
PROPERTIES
  BatchesFrozen
  KeepsContract
