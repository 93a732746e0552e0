SPECIFICATION BGSpec
CONSTANTS
    Procs = {p1, p2}
    NoProc = NoProc
    N = 7
    LockDies = TRUE
    Exchanges = TRUE
    Polls = 2
SYMMETRY ProcSymmetry
INVARIANTS
  TrafficIsServed
  
  HoldCatchesDegradation
PROPERTIES
  GreenIsGated
