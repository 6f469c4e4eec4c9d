SPECIFICATION Spec
CONSTANTS
  Texts <- SomeTexts
  This <- SomeFile
  Findings <- SomeFindings
  MaxRead = 5
  MaxGap = 1
INVARIANTS
  CountersFollowTheFile
  NumbersIdentify
  OnTheCode
  ExactlyOneSide
  SummaryAgrees
  ResolvedLongest
