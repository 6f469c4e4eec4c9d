SPECIFICATION Spec
CONSTANTS
  Old = 2
  InDiff = 0
  OutOfDiff = 0
  PageSize = 1
  ClearComments = TRUE
  MaxActs = 0
INVARIANT AllCleared
