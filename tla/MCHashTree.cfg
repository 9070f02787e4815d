\* Four addresses that share bytes, one of them outside the range of paths.
CONSTANTS
    Address <- SomeAddresses
    Name = {"x", "y"}
    Radix = 4
    Files <- SomeFiles
    MaxDevices = 5
SPECIFICATION IndexedSpec
INVARIANTS
    TypeOK
    FindGivesIndex
    ListAgreesWithFind
    DeleteUndoesInsert
