SPECIFICATION FairSpec
CONSTANTS
    w1 = w1
    w2 = w2
    Events = {1, 2, 3}
    Products = {1, 3}
    Workers = {w1, w2}
    ProductOf <- ForFirst
    MaxRetries = 3
    BatchSize = 2
    MaxFaults = 2
CHECK_DEADLOCK FALSE
INVARIANT TypeOK
INVARIANT CompletedMeansProjected
INVARIANT StockedMeansPriced
INVARIANT NoErrorWithoutFault
INVARIANT GivenUpIsPriced
PROPERTY EveryProductPriced
