SPECIFICATION FairSpec
CONSTANTS
  None = None
  Names = {"x", "y", "z"}
  MaxDepth = 2
  Scenarios <- ReplayScenarios
PROPERTY Replayed
CHECK_DEADLOCK FALSE
