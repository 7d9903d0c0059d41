SPECIFICATION Spec
CONSTANTS
  TotalSteps = 1000
  RestartInterval = 2
  Cores = 16
  SeenSteps = {2, 999, 1000}
  MaxCpu = 2
  MaxSessions = 2
INVARIANTS CheckpointNotOvercounted
