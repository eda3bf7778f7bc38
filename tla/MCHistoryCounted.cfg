SPECIFICATION Spec
CONSTANTS
    Readings = {1, 2}
    MaxAttempts = 2
    MaxFaults = 0
    MaxOrders = 0
INVARIANT CountedOnce
CHECK_DEADLOCK FALSE
