SPECIFICATION FairSpec
CONSTANTS
    Runs <- TwoRuns
    Drivers <- TwoDrivers
    Scenarios = {s}
    Buildable = {s}
    SeedsOf <- SomeSeeds
    None = none
    Caps = {1, 2}
    MaxTicks = 2
    RepoMayFail = TRUE
INVARIANTS
    NoOrphan
    DownIsQuiet
    VerdictIsEarned
PROPERTIES
    OverIsOver
    ShutdownEnds
    TasksKeepContract
    RegistryIsPool
CHECK_DEADLOCK FALSE
