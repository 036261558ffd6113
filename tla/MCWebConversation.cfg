SPECIFICATION Spec

CONSTANTS
  MaxTurns = 2
  MaxVersion = 2
  MaxSwitches = 1
  MaxFaults = 2
  MaxVisits = 2
  None = None

INVARIANTS
  TypeOK
  ActiveAnswersWereAskedHere
  OneArchivePerConversation
  TranscriptIsTheSession
  UnansweredIsRetryable

PROPERTY
  KeepsConversationLog

CHECK_DEADLOCK FALSE
