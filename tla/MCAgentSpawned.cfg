SPECIFICATION Spec
CONSTANTS
    Releases = {"a", "b"}
    MaxGeneration = 2
    MaxFaults = 2
    NotedOnly = FALSE
INVARIANT OneProgram
CHECK_DEADLOCK FALSE
