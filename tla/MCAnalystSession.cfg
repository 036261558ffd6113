SPECIFICATION Spec
CONSTANTS
  t1 = t1
  t2 = t2
  q1 = q1
  q2 = q2
  a1 = a1
  a2 = a2
  a3 = a3
  TurnIds = {t1, t2}
  Attempts = {a1, a2, a3}
  Requests <- MCRequests
  MaxLosses = 1
  Absent = Absent
  Free = Free
  NoReply = NoReply
  NoRequest = NoRequest
INVARIANTS
  TypeOK
  RevisionCountsTurns
  AcknowledgedStays
PROPERTIES
  KeepsConversationLog
CHECK_DEADLOCK FALSE
