\* Ship, stacks, sync, timers, refreshes and the self-upgrade.
SPECIFICATION OpsSpec
CONSTANTS
  NChecks = 2
  CheckJobs = 1
  MaxCommits = 3
  NMembers = 3
  Files <- MCFiles
  SDLs = {0, 1}
  MaxMoves = 1
  Operators = {a, b}
  Keys = {k1}
  MaxDeploys = 2
  MaxChain = 2
  Apps = {a, b}
  MaxEdits = 1
  MaxRuns = 3
  Refreshes = {a, b}
  Deployer = deployer
  NoOne = noOne
  Listings <- MCListings
  Posts = {a, b}
  None = none
SYMMETRY MCSymmetry
INVARIANTS
  ShipCommandTrue
  StackCommandsTrue
  FailureIsHeard
  UnitsSeeSafeData
  UpgradeReportsTrue
  NoDeployCutOff
PROPERTIES
  NoSilentOverwrite
  DropsOnlyMarked
  OperatorsFilesKept
CHECK_DEADLOCK FALSE
