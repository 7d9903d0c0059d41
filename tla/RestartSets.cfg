SPECIFICATION Spec
CONSTANTS
  MaxDomains = 2
  TotalSteps = 5
  RestartInterval = 1
  PruneDelay = 1
  StartDate <- MCStartDate
  HoursPerStep = 12
  MaxSessions = 3
  RemovalsFail = TRUE
  Deaths = TRUE
INVARIANTS TypeOK RestartStepTrue
PROPERTIES PruneOnlySuperseded RestartsNeverGoBack
