\* Everything at once but truncation and the deletion of a file that is being saved.
SPECIFICATION Spec
CONSTANTS
  None = None
  Handles = {h1}
  Scenarios <- SyncScenarios
INVARIANTS
  TypeOK
  SavedNotLost
  CleanMatchesCloud
  DirtyHasCache
  NoUploadWhileWriting
PROPERTIES
  NoBlindOverwrite
  NoForeignDelete
CHECK_DEADLOCK FALSE
