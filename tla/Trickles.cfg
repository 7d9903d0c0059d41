SPECIFICATION FairSpec
CONSTANTS
  TotalSteps = 5
  Timestep = 43200
  OutputInterval = 3
  RestartAhead = 2
  MaxSessions = 2
INVARIANTS TypeOK BoundariesReported LastStepReported DataGenuine NoHelperLeft
PROPERTIES DiagnosticsEnd
