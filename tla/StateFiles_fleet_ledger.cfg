SPECIFICATION SFSpec
CONSTANTS
    Procs = {1, 2}
    NoProc = 0
    Base = 9
    Mixes <- FleetAndMigration
    States = 1
PROPERTIES
    MigrateKeepsRelease
