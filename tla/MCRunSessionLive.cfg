SPECIFICATION FairSpec
CONSTANTS
  MaxRetries = 1
  ChainLen = 2
  OutCap = 1
  EventsCap = 1
  WireCap = 1
PROPERTIES
  CancelledRunEnds
  ResponsiveRunEnds
