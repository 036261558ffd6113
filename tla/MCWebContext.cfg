SPECIFICATION Spec

CONSTANTS
  MaxTurns = 1
  MaxVersion = 2
  MaxSwitches = 1
  MaxFaults = 1
  MaxVisits = 1
  None = None

INVARIANT
  ContextIsComplete

CHECK_DEADLOCK FALSE
