SPECIFICATION Spec
CONSTANTS
    Byte = 2
    MaxRegister = 9
    Config <- MCConfig
    Reports <- MCReports
    Requests <- MCRequests
    MaxTick = 2
    MaxStarts = 2
    MaxWrites = 2
    MaxFaults = 1
INVARIANTS
    ServedWhileOwned
    SetpointsArrive
PROPERTIES
    PollsGoForward
    ServerLives
CHECK_DEADLOCK FALSE
