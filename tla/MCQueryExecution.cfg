SPECIFICATION Spec
CONSTANTS
    d1 = d1
    d2 = d2
    x = x
    y = y
    t1 = t1
    t2 = t2
    Threads = {t1, t2}
    Databases = {d1, d2}
    Default = d1
    Names <- MCNames
    Schemas = {x, y}
    Tools = {tool}
    tool = tool
    None = None
    NoKey = NoKey
    Rows <- MCRows
    Truth <- MCTruth
    Jobs <- MCJobs
    CompileRaises <- MCCompileRaises
    Compiled <- MCCompiled
    MeaningOf <- MCMeaningOf
    PersistedBy <- MCPersistedBy
    Kept <- MCKept
    CallsOf <- MCCallsOf
    ConjunctsOf <- MCConjunctsOf
    MaxCalls = 4
SYMMETRY Symmetry
INVARIANTS TypeOK CatalogConsistent ResultsCorrect StandardFirst UsageConserved
PROPERTY OnlyOverwriteReplaces
CHECK_DEADLOCK FALSE
