SPECIFICATION Spec
CONSTANTS
    Instances = {i1}
    Ips = {a, b}
    Cap = 2
    PruneEvery = 4
    Sweep = 1
    Minute = 1
    Day = 3
    MinuteLimit = 1
    DayLimit = 1
    MaxTime = 4
    MaxRestarts = 1
SYMMETRY Symmetry
CHECK_DEADLOCK FALSE
INVARIANTS TypeOK DebtIsKept SharedLimitHolds RefusedBehindLiveClients
