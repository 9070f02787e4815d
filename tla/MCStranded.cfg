\* A breakdown before migrate, then migrate.
CONSTANTS
    c1 = c1
    c2 = c2
    a1 = a1
    a2 = a2
    NULL = NULL
    Conn = {c1}
    Address = {a1}
    MaxRowId = 1
    Requests <- StrandedCalls
SPECIFICATION Spec
INVARIANT MigratedTablesExist
