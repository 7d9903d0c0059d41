SPECIFICATION WatchSpec
CONSTANTS
  MaxWrites = 4
  HostCrashes = TRUE
  MaxSessions = 2
INVARIANTS WatchTypeOK NeverTakenForStandalone
PROPERTIES ImplementsRecord WatchSparesControlled NoStepBesideSuccessor OrphansEnd
