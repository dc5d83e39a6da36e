SPECIFICATION Spec
CONSTANTS
    NumItems = 8
    MaxConcurrency = 2
    MaxPending = 3
    MaxBuffer = 4
    NumRetries = 0
INVARIANT AllItemsAnswered
CHECK_DEADLOCK FALSE
