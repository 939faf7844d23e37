SPECIFICATION Spec
CHECK_DEADLOCK FALSE
CONSTANTS
    TickMs = 2
    Scenarios <- MCScenarios
    Handed <- MCHanded
    MaxTicks = 4
INVARIANTS
    DevicesWithinLimits
    TelemetryAddsUp
    BalanceCloses
    OverlaysComeAndGo
    ResumedPlantAgrees
