SPECIFICATION Spec
CONSTANTS
    Teams = {"NYK", "BOS"}
    NoTeam = "none"
    MinRunPoints = 6
    MinEvents = 1
    MaxEvents = 3
    LastPeriod = 2
CHECK_DEADLOCK FALSE
INVARIANT AllRunsAreFound
