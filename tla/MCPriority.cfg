\* A breakdown of a device without a priority.
CONSTANTS
    a1 = a1
    a2 = a2
    NULL = NULL
    Address = {a1}
    MaxRowId = 2
    UpsertRows <- HealthyRows
    Capacities = {1}
SPECIFICATION Spec
INVARIANT FaultyDeviceHasPriority
