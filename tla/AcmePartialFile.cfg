SPECIFICATION Spec
CONSTANTS
    h1 = h1
    h2 = h2
    Nil = Nil
    Partial = Partial
    Hosts = {h1, h2}
    HostSets <- MCHostSets
    ReloadRetry = 1
    MinRetry = 2
    MaxRetry = 3
    CheckInterval = 4
    Lifetime = 3
    MaxTime = 2
    MaxAccounts = 1
    MaxEvents = 2
INVARIANT
    NoPartialFile
CHECK_DEADLOCK FALSE
