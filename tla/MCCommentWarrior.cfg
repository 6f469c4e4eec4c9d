SPECIFICATION Spec
CONSTANTS
  Threads = 1
  PageSize = 1
  MaxDiscussions = 0
  DiscussionID = 0
  DryRun = FALSE
  Openings = {"finding", "human", "mention"}
  Others = {"mention", "human", "system", "toggle"}
  MaxNotes = 6
INVARIANTS
  QuietWithoutPeople
PROPERTIES
  ConfirmationIsFinal
  NeverClosedSilently
