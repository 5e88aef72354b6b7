SPECIFICATION Spec
CONSTANTS
    Accounts = {A}
    Dir = Dir
    File = File
    None = None
    Chunks = 2
    Links = {}
    MaxWorkers = 1
    MaxAttempts = 2
    Commands = {"index", "download"}
    Expiring = {}
    MaxChanges = 2
    MaxLogouts = 0
    MaxQueries = 0
    MaxRestarts = 1
INVARIANTS IndexFaithful CachedBytes
CHECK_DEADLOCK FALSE
