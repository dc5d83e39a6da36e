SPECIFICATION Spec
CONSTANTS
    Minute = 3
    RPM = 2
    Kinds <- MCKinds
    TPM <- MCTPM
    Estimates <- MCEstimates
    Actuals <- MCActuals
    MaxTime = 5
    MaxReserved = 2
INVARIANTS
    TypeOK
    WindowBounds
    AdmissibleAfterAMinute
