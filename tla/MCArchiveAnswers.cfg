SPECIFICATION AnswersSpec
CONSTANTS
    Writers = {"deploy", "load"}
    Versions = {"r1", "r2", "r3"}
    Old = "r1"
    New = "r2"
    Loaded = "r3"
    None = "none"
    Requests = {q1, q2}
CHECK_DEADLOCK FALSE
INVARIANT AnswersAreOfTheActiveRelease
