SPECIFICATION FairSpec
CONSTANTS
    t1 = t1
    t2 = t2
    k1 = k1
    k2 = k2
    big = big
    None = None
    Threads = {t1}
    Keys = {k1, k2, big}
    Batches <- LiveBatches
    MaxCalls = 1
    MaxLen = 2
    QueueSize = 1
    MaxBackoffs = 1
    TooLarge <- MCTooLarge
    UseCache = FALSE
    AllowShutdown = TRUE
PROPERTIES
    CallsEnd
    ShutdownEnds
    ImplementsService
CHECK_DEADLOCK FALSE
