SPECIFICATION FairSpec
CONSTANTS
  Stages = 2
  ServeStartAttempts = 2
  Models = 2
  Ports = {1, 2}
  Port = 0
  MaxStrangers = 1
INVARIANTS
  TypeOK
  UntrackedIsKilled
  HealthyMeansOurs
  LogsFollowServers
PROPERTIES
  StoppedMeansExited
  LifecycleEnds
