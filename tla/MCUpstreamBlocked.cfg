SPECIFICATION Spec
CONSTANTS
    Commands = {}
    Target <- MCTarget
    Idempotent = {}
    device = device
    Devices = {device}
    Events = {1}
    Source <- MCSource
    Capacity = 1
    AckCapacity = 1
    Ordered = FALSE
    Neighbour = TRUE
    MaxConfigs = 2
    MaxSends = 2
    MaxFaults = 0
    None = None
PROPERTY NeighbourServed
CHECK_DEADLOCK FALSE
