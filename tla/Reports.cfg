SPECIFICATION Spec
CONSTANTS
  TotalSteps = 2000
  RestartInterval = 2
  Cores = 35
  SeenSteps = {2, 3, 2000}
  MaxCpu = 2
  MaxSessions = 2
INVARIANTS TypeOK CpuNotOvercounted
PROPERTIES RecordedCpuKept FractionAdvances
