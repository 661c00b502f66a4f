SPECIFICATION Spec
CONSTANTS
  MaxClients = 4
  MaxRuns = 3
  CanStop = FALSE
INVARIANT HealthyIsUsable
