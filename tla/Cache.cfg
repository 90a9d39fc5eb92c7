SPECIFICATION FairCacheSpec
CONSTANTS
    c1 = c1
    c2 = c2
    k1 = k1
    k2 = k2
    None = None
    Clients = {c1, c2}
    Keys = {k1, k2}
    TTL = 1
    Timeout = 1
    Interval = 2
    MaxTime = 5
CHECK_DEADLOCK FALSE
INVARIANTS
    CacheTypeOK
    StalenessBound
PROPERTIES
    ImplementsMap
    ExpiredIsDropped
