SPECIFICATION FairSpec
CONSTANTS
  MaxClients = 4
  MaxRuns = 3
  CanStop = TRUE
INVARIANTS
  TypeOK
  RecoveryOwned
  CopyOnConfiguredClient
PROPERTY RecoverySettles
