SPECIFICATION Spec
CONSTANT Inputs <- AllInputs
INVARIANTS
  SettingAsDocumented
  FileAsDocumented
  ConfigDirOfTheBranch
  ModelChainSound
  WorkspacesReady
  
  NothingLeft
  ContextShowsTheDiff
