SPECIFICATION Spec
CONSTANTS
    w1 = w1
    w2 = w2
    Events = {1}
    Products = {1}
    Workers = {w1}
    ProductOf <- ForFirst
    MaxRetries = 2
    BatchSize = 2
    MaxFaults = 1
CHECK_DEADLOCK FALSE
INVARIANT GivenUpIsStocked
