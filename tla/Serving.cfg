SPECIFICATION FairSpec
CONSTANTS
    r1 = r1
    r2 = r2
    k1 = k1
    k2 = k2
    v1 = v1
    v2 = v2
    limits = limits
    bounds = bounds
    None = None
    NoVm = NoVm
    Requests = {r1, r2}
    Callers = {r1, r2}
    Clients = {k1, k2}
    Vms = {v1, v2}
    Names = {limits, bounds}
    Configs <- MCConfigs
    Rate = 1
    Burst = 2
    MaxKeys = 1
    IdleTimeout = 1
    MaxTime = 1
    MaxArrivals = 4
    MaxApplies = 1
INVARIANT TypeOK
INVARIANT RateHolds
INVARIANT SlotsHold
INVARIANT PoolClean
PROPERTY RequestsEnd
CHECK_DEADLOCK FALSE
