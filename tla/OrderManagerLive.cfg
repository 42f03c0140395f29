SPECIFICATION FairSpec
CONSTANTS
    c1 = c1
    c2 = c2
    o1 = o1
    o2 = o2
    Order = {o1}
    Quantity = 2
    Caller = {c1}
    MaxRetries = 1
    ExchangeId = {0, 1}
    RejectsDuplicates = FALSE
PROPERTIES CallsReturn ClosedOrdersReconciled
