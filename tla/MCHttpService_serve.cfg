SPECIFICATION FairSpec
CONSTANTS
  Clients = {"c1", "c2"}
  Requests <- MCRequests
  Rps = 1
  Faults = {"connection_lost", "no_writer_in_time", "statement_timeout"}
  MaxRequests = 2
  MaxTicks = 1
INVARIANTS
  TypeOK
  AnswersTellTheTruth
  RateBounded
  CleanExitAnswersAll
PROPERTIES
  ShutdownEnds
  HandlersEnd
CHECK_DEADLOCK FALSE
