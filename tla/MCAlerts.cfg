SPECIFICATION FairSpec
CONSTANTS
    m1 = m1
    m2 = m2
    h1 = h1
    h2 = h2
    None = None
    Latch = {"exposure_limit"}
    Module = {m1, m2}
    Handler = {h1, h2}
    MaxEvents = 4
INVARIANTS TypeOK OpenIsActive NothingLost
PROPERTIES ConditionRaised
CHECK_DEADLOCK FALSE
