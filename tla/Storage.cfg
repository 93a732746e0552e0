\* State files, backup archives and the database.
SPECIFICATION StorageSpec
CONSTANTS
  Procs = {1, 2, 3}
  NoProc = 0
  Base = 9
  Mixes <- ThreeCommands
  States = 1
  Dumpers = {b1, b2}
  MaxTime = 3
  DrillTime = 2
  Policies <- MCPolicies
  MaxAge = 0
  Skew = 0
  MinTables = 1
  RewindClock = TRUE
  Newest = 2
  DbSetups <- MCDbSetups
SYMMETRY MCSymmetry
INVARIANTS
  StoreIsReadable
  ArchivesAreWhole
  RetentionKeeps
  DrillVouches
  DbCommandsTrue
PROPERTIES
  MigrateKeepsReleaseAlone
CHECK_DEADLOCK FALSE
