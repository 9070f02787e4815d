\* Any row may be registered, the faulty ones included.
CONSTANTS
    a1 = a1
    a2 = a2
    NULL = NULL
    Address = {a1, a2}
    MaxRowId = 2
    UpsertRows <- AnyRows
    Capacities = {1}
SPECIFICATION Spec
INVARIANTS
    TypeOK
    JobsAreSound
PROPERTIES
    JobsOnlyAdvance
    LastFinishHeals
