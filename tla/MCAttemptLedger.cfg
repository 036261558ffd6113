SPECIFICATION Spec
CONSTANTS
  c1 = c1
  c2 = c2
  x = x
  h = h
  run = run
  other = other
  Runs = {run, other}
  NoRun = NoRun
  Unreadable = Unreadable
  NoUsage = NoUsage
  Callers = {c1, c2, x}
  Harness = h
  Nobody = Nobody
  NoEntry = NoEntry
  NoReport = NoReport
  RunOf <- MCRunOf
  MaxAttempts = 2
  MaxTotal = 5
  ContextTokens = 1
  CompletionTokens = 2
  PromptPrice = 1
  CompletionPrice = 1
INVARIANTS
  TypeOK
  AlwaysReplays
  WithinBudget
  AdmittedBeforeWire
  OneCallPerAdmission
  SpendCovered
  AttestationStaysTrue
PROPERTIES
  TornFailsClosed
  SealIsTerminal
  LockReleased
