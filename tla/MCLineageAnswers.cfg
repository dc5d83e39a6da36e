SPECIFICATION Spec
CONSTANTS
    a = a
    b = b
    c = c
    u = u
    v = v
    Null = Null
    None = None
    Plans <- MCPlans
    MaxCalls = 4
INVARIANT AnswersAsDocumented
CHECK_DEADLOCK FALSE
