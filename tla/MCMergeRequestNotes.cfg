SPECIFICATION FairSpec
CONSTANTS
  Old = 3
  InDiff = 1
  OutOfDiff = 1
  PageSize = 2
  ClearComments = TRUE
  MaxActs = 1
INVARIANTS
  WholeWhenIntact
PROPERTIES
  OnlyOwnCommentsGo
  ImplementsContract
  PublishEnds
