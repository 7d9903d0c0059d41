SPECIFICATION FairSpec
CONSTANTS
  Requests = {"suspend", "quit", "abort", "no_heartbeat"}
  MaxSuspends = 2
  FinalUploads = 2
  Failures = TRUE
  SlowTasks = TRUE
  ExternalStops = TRUE
INVARIANTS TypeOK RequestsObeyed HandleOwnsProcess ResumedBeforeGoingOn FinishGenuine ErrorsLeaveNoModel
PROPERTIES QuitHonoured ControllerEnds
