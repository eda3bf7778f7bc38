SPECIFICATION Spec
CONSTANTS
    edge = edge
    first = first
    second = second
    None = None
    MaxReadings = 3
    Value <- MCValue
    Mode = "ON_CHANGE"
    Consumers <- MCConsumers
    Streams <- MCStreams
    Owner <- MCOwner
    UpstreamSize = 1
    Warning = 1
    Recovery = 0
    StreamSize = 1
    MaxFaults = 1
INVARIANT ChangesDelivered
CHECK_DEADLOCK FALSE
