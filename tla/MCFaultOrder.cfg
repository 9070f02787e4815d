\* Faults sorted by their own order.
CONSTANTS
    Address <- SomeAddresses
    NULL = NULL
    MaxRowId = 1
    ULongMax = 999
    Name = {1, 2}
    Texts <- SomeTexts
    MaxDevices = 2
SPECIFICATION Spec
INVARIANT FaultsSortAsCommented
CHECK_DEADLOCK FALSE
