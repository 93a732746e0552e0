SPECIFICATION MHSpec
CONSTANTS
    Procs = {1}
    NoProc = NoProc
    N = 6
    LockDies = TRUE
    Inventory <- TwoHosts
    Size = 1
    New = New
    Old = Old
    None = None
    Starts <- FewStarts
INVARIANT
    PersistedRollbackRestores
