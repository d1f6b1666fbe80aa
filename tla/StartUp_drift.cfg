SPECIFICATION StartUpSpec
CONSTANTS
    Processes = {1, 2}
    MaxFaults = 1
CHECK_DEADLOCK FALSE
INVARIANT NoDrift
