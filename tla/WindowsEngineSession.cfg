SPECIFICATION Spec
CONSTANTS
    Accounts = {A, B}
    Dir = Dir
    File = File
    None = None
    Chunks = 1
    Links = {l1}
    MaxWorkers = 2
    MaxAttempts = 2
    Commands = {"index", "cancel", "browse"}
    Expiring = {3}
    MaxChanges = 0
    MaxLogouts = 1
    MaxQueries = 2
    MaxRestarts = 0
INVARIANTS TypeOK IdentityIsAccount DirectoryOwn
PROPERTIES CredentialsOnlyByLogin SignOutEnds
CHECK_DEADLOCK FALSE
