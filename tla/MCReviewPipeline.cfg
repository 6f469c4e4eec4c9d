SPECIFICATION FairSpec
CONSTANTS
  Names <- TwoNames
  Prompts = 3
  MaxRuns = 2
INVARIANTS
  SessionsSeeTheBranch
  PublishedIsWhole
  CreditedToItsSources
  RunLeavesNothing
PROPERTY RunReturns
