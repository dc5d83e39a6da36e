SPECIFICATION Spec
CONSTANTS
    Minute = 3
    StartRPM = 2
    MinRPM = 1
    MaxRPM = 4
    MultNum = 1
    MultDen = 2
    Increment = 1
    IncreaseAfter = 2
    Hints <- MCHints
    Delays <- MCDelays
    PeakRPM = 4
    MaxTime = 4
    MaxHints = 2
INVARIANTS
    TypeOK
    RateWithinLimits
    WindowBound
PROPERTY GrowthIsEarned
