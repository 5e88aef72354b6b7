SPECIFICATION Spec
CONSTANTS
  None = None
  Names = {"x", "y", "z"}
  MaxDepth = 2
  Scenarios <- TreeScenarios
INVARIANTS TypeOK QueueAgrees
PROPERTY QueuedUntilDone
CHECK_DEADLOCK FALSE
