SPECIFICATION FairSpec
CONSTANTS
    p1 = p1
    p2 = p2
    Events = {1, 2}
    Products = {p1, p2}
    w1 = w1
    w2 = w2
    Workers = {w1, w2}
    Carts <- CrossedCarts
    StockLevels = {1}
    ApiTargets = {"cancelled"}
    MaxRetries = 2
    BatchSize = 2
    MaxRequests = 1
    MaxFaults = 1
CHECK_DEADLOCK FALSE
PROPERTY EveryOrderSettled
