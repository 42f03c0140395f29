SPECIFICATION FairSpec
CONSTANTS
    c1 = c1
    c2 = c2
    c3 = c3
    s1 = s1
    s2 = s2
    None = None
    Connection = {c1, c2, c3}
    Symbol = {s1, s2}
    Configured = {s1}
    MaxReconnects = 2
    MaxEvents = 5
PROPERTIES CloseHandled
CHECK_DEADLOCK FALSE
