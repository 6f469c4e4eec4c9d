SPECIFICATION Spec
CONSTANTS
  MaxRetries = 1
  ChainLen = 1
  OutCap = 1
  EventsCap = 1
  WireCap = 1
INVARIANT RepliedCallIsBuffered
