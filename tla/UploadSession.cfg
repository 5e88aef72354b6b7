\* One upload in two fragments, with the daemon alone or a command beside it.
SPECIFICATION FairSpec
CONSTANTS
  Daemon = daemon
  Commands = {command}
  Fragments = 2
  MaxAttempts = 2
  MaxStalls = 2
  None = None
  Scenarios <- UploadScenarios
INVARIANT Whole
PROPERTIES KeepsProgress Delivered
CHECK_DEADLOCK FALSE
