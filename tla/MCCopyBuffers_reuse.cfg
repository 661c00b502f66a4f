SPECIFICATION Spec
CONSTANTS
  NumBatches = 3
  NumWriters = 2
  MaxBatchRows = 3
  MaxBatchCells = 4
  RowCells <- RowsByBytes
  RowReserve = 2
  InitialCells = 4
  RetainedCells = 4
CHECK_DEADLOCK FALSE
INVARIANTS
  TypeOK
  StoredIntact
  EncodersHeldOnce
