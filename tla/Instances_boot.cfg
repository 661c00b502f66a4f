SPECIFICATION FairSpec
CONSTANTS
  Procs = {"a", "b"}
  NumFiles = 2
  Names = {"web", "db"}
  BlockSize = 2
  MaxBlocks = 2
  MaxFaults = 1
  ServerSync = TRUE
INVARIANTS
  TypeOK
  MigratesAlone
  IdsNeverReissued
  RowsKeepTheirService
PROPERTY BootsComplete
CHECK_DEADLOCK FALSE
