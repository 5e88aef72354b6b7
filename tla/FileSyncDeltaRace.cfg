\* A program starts to write while a remote deletion is imported.
SPECIFICATION Spec
CONSTANTS
  None = None
  Handles = {h1}
  Scenarios <- DeltaRaceScenarios
INVARIANTS
  SavedNotLost
CHECK_DEADLOCK FALSE
