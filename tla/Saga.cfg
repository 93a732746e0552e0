SPECIFICATION FairSpec
CONSTANTS
    Procs = {p1, p2}
    NoProc = NoProc
    N = 3
    LockDies = TRUE
INVARIANTS
  OutcomeFaithful
  JournalTrue
PROPERTIES
  OnlyHolderWrites
  AlwaysReturns
  ImplementsContract
