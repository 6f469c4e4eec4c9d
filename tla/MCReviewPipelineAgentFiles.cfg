SPECIFICATION Spec
CONSTANTS
  Names <- TwoNames
  Prompts = 1
  MaxRuns = 1
INVARIANT AgentFilesRestored
