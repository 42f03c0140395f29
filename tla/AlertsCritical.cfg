SPECIFICATION FairSpec
CONSTANTS
    m1 = m1
    m2 = m2
    h1 = h1
    h2 = h2
    None = None
    Latch = {"exposure_limit"}
    Module = {m1}
    Handler = {h1}
    MaxEvents = 4
PROPERTIES CriticalRaised
CHECK_DEADLOCK FALSE
