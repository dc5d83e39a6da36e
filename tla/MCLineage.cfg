SPECIFICATION Spec
CONSTANTS
    a = a
    b = b
    c = c
    u = u
    v = v
    Null = Null
    None = None
    Plans <- MCPlans
    MaxCalls = 4
INVARIANTS TypeOK TablesCorrect TracesCorrect
CHECK_DEADLOCK FALSE
