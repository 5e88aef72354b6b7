SPECIFICATION Spec
CONSTANTS
    Files = {f, g}
    InDir = {g}
    Root = Root
    Dir = Dir
    Mixed = Mixed
    MaxPendingPaths = 1
    FileMax = 1
    MaxChanges = 2
    MaxCrashes = 1
INVARIANTS TypeOK NothingForgotten RecordedIsCloud
PROPERTY Uploaded
CHECK_DEADLOCK FALSE
