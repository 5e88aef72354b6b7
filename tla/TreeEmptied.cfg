SPECIFICATION Spec
CONSTANTS
  None = None
  Names = {"x", "y", "z"}
  MaxDepth = 2
  Scenarios <- EmptiedScenarios
INVARIANT NotKilled
CHECK_DEADLOCK FALSE
