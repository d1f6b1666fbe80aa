SPECIFICATION Spec
CONSTANTS
    p1 = p1
    p2 = p2
    Events = {1, 2}
    Products = {p1, p2}
    w1 = w1
    w2 = w2
    Workers = {w1, w2}
    Carts <- OneLineCarts
    StockLevels = {1}
    ApiTargets = {"confirmed", "cancelled"}
    MaxRetries = 2
    BatchSize = 2
    MaxRequests = 0
    MaxFaults = 0
CHECK_DEADLOCK FALSE
INVARIANT NoOversell
