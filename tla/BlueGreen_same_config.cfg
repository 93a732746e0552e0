SPECIFICATION BGSpec
CONSTANTS
    Procs = {p1, p2}
    NoProc = NoProc
    N = 7
    LockDies = TRUE
    Exchanges = FALSE
    Polls = 1
PROPERTY
    ProvisionsAnIdleFleet
