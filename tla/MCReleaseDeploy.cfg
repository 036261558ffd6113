SPECIFICATION Spec
CONSTANTS
    Writers = {"deploy", "load"}
    Versions = {"r1", "r2", "r3"}
    Old = "r1"
    New = "r2"
    Loaded = "r3"
    None = "none"
CHECK_DEADLOCK FALSE
INVARIANTS TypeOK OneActiveRelease NewDataOnlyUnderNewCode
PROPERTIES RestoredMeansRestored LiveMeansPromoted RolloutEnds
