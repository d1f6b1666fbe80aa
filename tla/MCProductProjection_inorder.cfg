SPECIFICATION Spec
CONSTANTS
    w1 = w1
    w2 = w2
    Events = {1, 2, 3, 4}
    Products = {2, 3}
    Workers = {w1}
    ProductOf <- ForFirst
    MaxRetries = 2
    BatchSize = 2
    MaxFaults = 0
CHECK_DEADLOCK FALSE
INVARIANT NoOrderOvertakesItsProduct
