SPECIFICATION Spec
CHECK_DEADLOCK FALSE
CONSTANTS
    a = a
    b = b
    ghost = ghost
    Devices = {a, b}
    Ghost = ghost
    None = none
    Limit = 2
    Writes <- MCWrites
    TickMs = 2
    Scenarios <- MCScheduled
    MaxTicks = 5
    MaxWrites = 0
    MaxRecoveries = 0
INVARIANT ResumedAgrees
