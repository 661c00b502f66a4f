SPECIFICATION Spec
CONSTANTS
  Clients = {"c1", "c2"}
  Requests <- MCRequests
  Rps = 1
  Faults = {}
  MaxRequests = 2
  MaxTicks = 0
INVARIANT OneBadEntryNeverFailsBatch
CHECK_DEADLOCK FALSE
