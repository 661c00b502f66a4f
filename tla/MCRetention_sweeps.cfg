SPECIFICATION FairSpec
CONSTANTS
  Flushes = {"f1"}
  BatchDays = {{0, 3}}
  RetentionDays = 1
  FirstToday = 2
  LastToday = 3
  CanFail = TRUE
  MaxRestarts = 1
  CanDisconnect = TRUE
INVARIANTS
  TypeOK
  KnownMatchesCatalog
  LookaheadCoversToday
PROPERTIES
  KeepsRetainedDays
  ExpiredGoWhileConnected
