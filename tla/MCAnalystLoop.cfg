SPECIFICATION Spec

CONSTANTS
  MaxModelCalls = 5
  MaxToolRounds = 2
  MaxToolCalls = 3
  MaxTools = 2
  Deadline = 10
  Investigation = 7
  RequestTimeout = 6
  Finalization = 2
  Margin = 1
  RetryTime = 3
  Price = 2
  Costs <- MCCosts
  Unknown = Unknown
  Durations <- MCDurations

INVARIANTS
  TypeOK
  SettledAtCost
  PublishedWasReviewed
  ReviewStaysAffordable
  AnsweredBeforeDeadline

PROPERTY
  TurnEnds

CHECK_DEADLOCK FALSE
