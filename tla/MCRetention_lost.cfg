SPECIFICATION FairSpec
CONSTANTS
  Flushes = {"f1"}
  BatchDays = {{0}}
  RetentionDays = 1
  FirstToday = 2
  LastToday = 3
  CanFail = FALSE
  MaxRestarts = 0
  CanDisconnect = TRUE
PROPERTIES
  ExpiredAreDropped
