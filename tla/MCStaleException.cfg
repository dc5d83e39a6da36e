SPECIFICATION Spec
CONSTANTS
    t1 = t1
    t2 = t2
    k1 = k1
    k2 = k2
    big = big
    None = None
    Threads = {t1}
    Keys = {k1, k2, big}
    Batches <- SingleBatches
    MaxCalls = 2
    MaxLen = 1
    QueueSize = 1
    MaxBackoffs = 1
    TooLarge <- MCTooLarge
    UseCache = FALSE
    AllowShutdown = FALSE
INVARIANT RaisesForItsOwnRequests
