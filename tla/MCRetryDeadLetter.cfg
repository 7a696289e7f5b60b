SPECIFICATION Spec
CONSTANTS
  Groups <- DeployedGroups
  Registered <- DeployedRegistered
  Source = "payment-events"
  SourceTopics <- DeployedSources
  Stages <- DeployedStages
  DeadLetter = "dead-letter"
  NoTopic = "none"
  Possible <- ErrorsOnly
  Limit = 1
INVARIANT DeadLetterMeansFailed
CHECK_DEADLOCK FALSE
