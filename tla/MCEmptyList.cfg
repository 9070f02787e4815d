\* A list of devices while another process commits.
CONSTANTS
    c1 = c1
    c2 = c2
    a1 = a1
    a2 = a2
    NULL = NULL
    Conn = {c1, c2}
    Address = {a1, a2}
    MaxRowId = 1
    Requests <- DeviceCalls
SPECIFICATION FairSpec
PROPERTY EmptyListMeansNoDevices
