SPECIFICATION FairSpec
CONSTANTS
    Stoppers = {s1, s2}
    CancelAnywhere = TRUE
    RepoMayFail = TRUE
    PortSets <- AnyPorts
INVARIANTS
    CleanUnlessCut
    ServedTicks
    EndIsHonest
PROPERTIES
    NobodyWaits
    TaskKeepsContract
CHECK_DEADLOCK FALSE
