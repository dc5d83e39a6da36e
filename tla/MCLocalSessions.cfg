SPECIFICATION FairSpec
CONSTANTS
    a1 = a1
    a2 = a2
    t1 = t1
    t2 = t2
    Threads = {t1, t2}
    Apps = {a1, a2}
    Clients <- MCClients
    None = None
    MaxSessions = 2
    MaxQueries = 1
INVARIANTS
    TypeOK
    SharedLoop
    ConnectionsOwned
PROPERTIES
    CallsEnd
CHECK_DEADLOCK FALSE
