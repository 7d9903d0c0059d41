SPECIFICATION Spec
CONSTANTS
  TotalSteps = 4
  RestartInterval = 2
  MaxLag = 3
  CloseStep = 5
  MaxSessions = 1
INVARIANTS LastStepSeen
