SPECIFICATION Spec
CONSTANTS
    Points = {1, 2, 3}
    DeviceOf <- MCDeviceOf
    Revised = {}
    Observers = {"engine"}
    Budget = 3
    MaxEpochs = 1
    MaxRuns = 3
    MaxChanges = 0
    MaxFaults = 0
INVARIANT FollowsInputs
CHECK_DEADLOCK FALSE
