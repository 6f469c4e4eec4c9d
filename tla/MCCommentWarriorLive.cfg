SPECIFICATION FairSpec
CONSTANTS
  Threads = 2
  PageSize = 1
  MaxDiscussions = 1
  DiscussionID = 0
  DryRun = FALSE
  Openings = {"finding", "mention"}
  Others = {"mention", "system"}
  MaxNotes = 3
PROPERTY MentionAnswered
