SPECIFICATION Spec
CONSTANTS
    response = response
    count = count
    alarm = alarm
    counter = counter
    door = door
    None = None
    Ids <- MCIds
    Body = {old, new}
    Device <- MCDevice
    Devices <- MCDevices
    Limit = 2
    MaxFaults = 2
    MaxChanges = 2
INVARIANT TypeOK
INVARIANT AckedIsStored
INVARIANT AppliedOnce
PROPERTY DeliveredAmongRefused
CHECK_DEADLOCK FALSE
