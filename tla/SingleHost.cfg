SPECIFICATION SHSpec
CONSTANTS
    Procs = {1, 2}
    NoProc = NoProc
    N = 7
    LockDies = TRUE
    Base = Base
    BaseRev = 1
    NoRelease = NoRelease
    Rev <- RevUp
    Setups <- AllSetups
INVARIANTS
  CommittedIsLive
  UncommittedLiveIsReported
  BaselineHolds
VIEW MCView
