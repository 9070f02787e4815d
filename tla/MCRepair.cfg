\* Two processes report, start and finish repairs and add a worker.
CONSTANTS
    c1 = c1
    c2 = c2
    a1 = a1
    a2 = a2
    NULL = NULL
    Conn = {c1, c2}
    Address = {a1}
    MaxRowId = 2
    Requests <- RepairCalls
SPECIFICATION Spec
INVARIANTS
    TypeOK
    LocksCompatible
    AnswersAreRecorded
    JobIdsAreUnique
PROPERTIES
    CommitsAreAtomic
    ImplementsLedger
