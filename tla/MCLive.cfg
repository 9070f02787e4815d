\* Every call answers; one call of each shape.
CONSTANTS
    c1 = c1
    c2 = c2
    a1 = a1
    a2 = a2
    NULL = NULL
    Conn = {c1, c2}
    Address = {a1}
    MaxRowId = 1
    Requests <- LiveCalls
SPECIFICATION FairSpec
INVARIANT MigrationIsPrefix
PROPERTY CallReturns
