SPECIFICATION FairSpec
CONSTANTS
  r1 = r1
  r2 = r2
  r3 = r3
  Requests = {r1, r2}
  Count <- MCPoolCount
  RowBytes <- MCRowBytes
  NewService = {}
  NumWriters = 2
  Batches = {1, 2, 3, 4}
  MaxBatchRows = 1
  MaxBatchBytes = 100
  MaxPendingRows = 4
  BlockSize = 3
  SyncCommit = FALSE
  CanCrash = FALSE
  CanStop = TRUE
INVARIANTS
  Custody
  NoStrandedBatch
PROPERTY RequestsAnswered
CHECK_DEADLOCK FALSE
