CONSTANTS
    Vcpus = {v1, v2}
    MaxVms = 2
    Expiries = {x1, x2}
    Timeouts = {1}
    Periods <- MCPeriods
    LastYear = 2110
SPECIFICATION MCSpec
INVARIANTS
    ServedAlive
    SciLevel
    DateShown
PROPERTIES
    SuspendEndsVm
    WdtWorks
