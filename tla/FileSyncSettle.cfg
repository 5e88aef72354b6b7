\* What becomes of it in the end.
SPECIFICATION FairSpec
CONSTANTS
  None = None
  Handles = {h1}
  Scenarios <- SettleScenarios
PROPERTIES
  Drains
  Reconciles
CHECK_DEADLOCK FALSE
