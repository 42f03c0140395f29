SPECIFICATION Spec
CONSTANTS
    c1 = c1
    c2 = c2
    None = None
    AdapterCount = 2
    Caller = {c1, c2}
    Limited = {1}
    PerDay = 1
    CallsPerFetch = 4
    MaxRetries = 2
    DegradedAt = 1
    UnavailableAt = 2
    Impatient = {1}
    Well = {1}
    Estimating = {2}
INVARIANTS TypeOK DailyBound NeverStuck
PROPERTIES FetchAdvances
SYMMETRY Callers
CHECK_DEADLOCK FALSE
