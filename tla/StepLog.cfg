SPECIFICATION Spec
CONSTANTS
  TotalSteps = 9
  RestartInterval = 2
  MaxLag = 3
  CloseStep = 9
  MaxSessions = 4
INVARIANTS TypeOK StartNotRefused LogReadToEnd SuccessTrue
