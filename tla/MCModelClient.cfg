SPECIFICATION Spec
CONSTANTS
    t1 = t1
    t2 = t2
    k1 = k1
    k2 = k2
    big = big
    None = None
    Threads = {t1, t2}
    Keys = {k1, k2, big}
    Batches <- MCBatches
    MaxCalls = 1
    MaxLen = 3
    QueueSize = 1
    MaxBackoffs = 1
    TooLarge <- MCTooLarge
    UseCache = TRUE
    AllowShutdown = FALSE
SYMMETRY Symmetry
INVARIANTS
    TypeOK
    HeldOnce
    ReturnsWhatWasAsked
PROPERTY ImplementsService
