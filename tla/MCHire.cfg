\* A worker added after a breakdown that could not commit.
CONSTANTS
    c1 = c1
    c2 = c2
    a1 = a1
    a2 = a2
    NULL = NULL
    Conn = {c1, c2}
    Address = {a1}
    MaxRowId = 1
    Requests <- HireCalls
SPECIFICATION Spec
INVARIANT AddedWorkerIsStored
