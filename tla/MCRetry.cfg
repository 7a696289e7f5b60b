SPECIFICATION FairSpec
CONSTANTS
  Groups <- ThreeGroups
  Registered <- DeployedRegistered
  Source = "order-events"
  SourceTopics <- DeployedSources
  Stages <- TwoStages
  DeadLetter = "dead-letter"
  NoTopic = "none"
  Possible <- EveryKind
  Limit = 3
INVARIANTS FanOut NothingDropped CountNamesStage
PROPERTY RetriesEnd
CHECK_DEADLOCK FALSE
