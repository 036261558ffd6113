SPECIFICATION FairSpec

CONSTANTS
  MaxTurns = 1
  MaxVersion = 2
  MaxSwitches = 1
  MaxFaults = 1
  MaxVisits = 1
  None = None

PROPERTY
  RetriesAreAnswered

CHECK_DEADLOCK FALSE
