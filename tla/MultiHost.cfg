SPECIFICATION MHFairSpec
CONSTANTS
    Procs = {1}
    NoProc = NoProc
    N = 6
    LockDies = TRUE
    Inventory <- ThreeHosts
    Size = 2
    New = New
    Old = Old
    None = None
    Starts <- FewStarts
INVARIANTS
  CommittedFleet
  RollbackAccounted
PROPERTIES
  FleetServes
  RolloutEnds
