\* Three devices at most, two names, two addresses, every class and priority.
CONSTANTS
    Address <- SomeAddresses
    NULL = NULL
    MaxRowId = 1
    ULongMax = 999
    Name = {1, 2}
    Texts <- SomeTexts
    MaxDevices = 3
SPECIFICATION Spec
INVARIANTS
    TypeOK
    FaultyDeviceKeepsPriority
    ComparatorIsStrictWeak
    PlanIsByImportance
    StoredLifeCycleAgrees
    ShownAddressFindsDevice
    SortedFaultsGroupByPriority
CHECK_DEADLOCK FALSE
