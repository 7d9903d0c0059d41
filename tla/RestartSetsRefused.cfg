SPECIFICATION Spec
CONSTANTS
  MaxDomains = 2
  TotalSteps = 4
  RestartInterval = 2
  PruneDelay = 2
  StartDate <- MCStartDate
  HoursPerStep = 12
  MaxSessions = 2
  RemovalsFail = FALSE
  Deaths = FALSE
INVARIANTS QuitIsRestartable
