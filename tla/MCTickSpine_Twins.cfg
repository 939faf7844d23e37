SPECIFICATION Spec
CHECK_DEADLOCK FALSE
CONSTANTS
    a = a
    b = b
    ghost = ghost
    Devices = {a, b}
    Ghost = ghost
    None = none
    Limit = 2
    Writes <- MCWrites
    TickMs = 2
    Scenarios <- MCScenarios
    MaxTicks = 5
    MaxWrites = 2
    MaxRecoveries = 1
INVARIANTS
    OrdersAreApplied
    FaultsActAndAreTold
    ReplayAgreesUnlessExcused
    ResumedAgreesUnlessExcused
