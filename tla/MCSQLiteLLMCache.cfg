SPECIFICATION FairSpec
CONSTANTS
    t1 = t1
    t2 = t2
    t3 = t3
    c1 = c1
    k1 = k1
    k2 = k2
    None = None
    Caches = {c1}
    Threads = {t1, t2, t3}
    CacheOf <- MCCacheOf
    Keys = {k1, k2}
    Values = {1, 2}
    MaxConnections = 2
    EvictShare = 1
    TTL = 1
    MaxTime = 1
    MaxOps <- MCMaxOps
    Ops <- MCOps
    MayClose = {c1}
    MayFail = {t3}
INVARIANTS
    TypeOK
    ConnectionsAccounted
PROPERTIES
    ImplementsResponseCache
    OperationsEnd
CHECK_DEADLOCK FALSE
