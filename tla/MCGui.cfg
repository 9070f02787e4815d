\* The window, and a process that finishes repairs and reads.
CONSTANTS
    c1 = c1
    c2 = c2
    a1 = a1
    NULL = NULL
    Conn = {c1, c2}
    Address = {a1}
    MaxRowId = 1
    App = c1
    Requests <- AllCalls
    OtherRequests <- OtherCalls
SPECIFICATION FairGuiSpec
INVARIANTS
    GuiTypeOK
    ShownRowsAreCommitted
    ReportedJobIsShown
PROPERTY WindowResponds
