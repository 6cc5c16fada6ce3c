SPECIFICATION FairSpec
CONSTANTS
    h1 = h1
    h2 = h2
    Nil = Nil
    Partial = Partial
    Hosts = {h1, h2}
    HostSets <- MCHostSets
    ReloadRetry = 1
    MinRetry = 2
    MaxRetry = 3
    CheckInterval = 4
    Lifetime = 2
    MaxTime = 1
    MaxAccounts = 1
    MaxEvents = 2
INVARIANTS
    TypeOK
    LoadedPairMatches
    TimerCoversEveryHost
    ConfiguredAccountKept
PROPERTIES
    TokenAnswered
    AttemptsSpaced
    EveryHostTried
CHECK_DEADLOCK FALSE
