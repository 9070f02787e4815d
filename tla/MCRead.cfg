\* Two processes list jobs and devices while they report, register and finish.
CONSTANTS
    c1 = c1
    c2 = c2
    a1 = a1
    a2 = a2
    NULL = NULL
    Conn = {c1, c2}
    Address = {a1, a2}
    MaxRowId = 2
    Requests <- ReadCalls
SPECIFICATION Spec
INVARIANTS
    DeviceScanIsCommitted
    JobScanIsSnapshot
    IdleHoldsNoLock
    FaultyDeviceHasJob
SYMMETRY Symmetry
