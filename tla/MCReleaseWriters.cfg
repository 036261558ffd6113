SPECIFICATION Spec
CONSTANTS
    Writers = {"deploy", "load"}
    Versions = {"r1", "r2", "r3"}
CHECK_DEADLOCK FALSE
INVARIANT OneActiveRelease
