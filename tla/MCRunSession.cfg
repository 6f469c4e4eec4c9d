SPECIFICATION Spec
CONSTANTS
  MaxRetries = 2
  ChainLen = 2
  OutCap = 1
  EventsCap = 1
  WireCap = 1
INVARIANTS
  TypeOK
  RetryBudget
  QuietAtTerminal
  ResultShownFirst
PROPERTY ImplementsContract
