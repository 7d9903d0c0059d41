SPECIFICATION Spec
CONSTANTS
  Requests = {"suspend", "no_heartbeat"}
  MaxSuspends = 1
  FinalUploads = 1
  Failures = FALSE
  SlowTasks = FALSE
  ExternalStops = FALSE
INVARIANTS HeartbeatLossFails
