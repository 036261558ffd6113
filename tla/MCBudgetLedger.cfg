SPECIFICATION Spec
CONSTANTS
  r1 = r1
  r2 = r2
  r3 = r3
  Calls = {r1, r2, r3}
  Amounts = {1, 2}
  Costs = {0, 1, 3}
  Cutoff = 3
  MaxSends = 2
  Absent = Absent
SYMMETRY Symmetry
INVARIANTS
  TypeOK
  TotalIsTheAccount
  EveryChargeHasOneEnd
  CutoffHolds
CHECK_DEADLOCK FALSE
