SPECIFICATION Spec
CONSTANTS
  TotalSteps = 4
  UploadInterval = 2
  RestartInterval = 2
  OutputInterval = 2
  OutputLag = 0
  ReadErrorsReportZero = FALSE
  MaxSessions = 2
  Failures = FALSE
  InterruptUploads = TRUE
  SuspendAfterModelExit = FALSE
INVARIANTS OutputsKept
