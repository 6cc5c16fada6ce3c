SPECIFICATION Spec
CONSTANTS
    t1 = t1
    t2 = t2
    u1 = u1
    Malformed = Malformed
    Self = Self
    NoRequest = NoRequest
    Peers = {t1, t2, u1}
    Trusted = {t1, t2}
    FileCount = 2
    Sourced = {2}
    NameSets <- MCNameSets
    FirstFiles <- MCFirstFiles
    Configs <- MCConfigs
    Addresses <- MCAddresses
    ServerNames <- MCServerNames
    Hops <- MCHops
    Lifetime = 2
    Grace = 1
    MaxTime = 3
    MaxChanges = 2
    MaxEvents = 3
INVARIANT HandshakeChoice
INVARIANT RedirectLands
INVARIANT StaleNeverBlocks
INVARIANT ClientKept
PROPERTY RingIsLog
CHECK_DEADLOCK FALSE
