SPECIFICATION FairSpec
CONSTANTS
  TotalSteps = 5
  UploadInterval = 2
  RestartInterval = 2
  OutputInterval = 3
  OutputLag = 3
  ReadErrorsReportZero = TRUE
  MaxSessions = 2
  Failures = TRUE
  InterruptUploads = TRUE
  SuspendAfterModelExit = TRUE
INVARIANTS TypeOK NoNumberSkipped OutputsAccountedFor ScheduledLeavesFinal FinishedAccountsFor
PROPERTIES ImplementsContract PersistedUploadsOnlyGrow EventuallyOver
