SPECIFICATION Spec
CONSTANTS
    r1 = r1
    r2 = r2
    p1 = p1
    p2 = p2
    s1 = s1
    s2 = s2
    None = None
    Request = {r1, r2}
    Position = {p1, p2}
    Symbol = {s1}
    Amount = {1, 2}
    Left = {1}
    Equity = {1, 2}
    MinEquity = 1
    Unit = 2
    PerTrade = 2
    MinRisk = 1
    Daily = 3
    Open = 3
    MaxPositions = 2
    MaxLosses = 1
    Pyramiding = TRUE
    MaxDrawdown = 50
    ReduceAt = 20
    Recovery = 0
    ManualResume = TRUE
    MaxEvents = 3
    MaxSpent = 4
SYMMETRY Requests
INVARIANTS TypeOK OverlapBound TodayCovered HaltRefuses OperatorHaltHolds
PROPERTIES LedgerSpec
