SPECIFICATION FairSpec
CONSTANTS
  l1 = l1
  l2 = l2
  op1 = op1
  op2 = op2
  Letters = {l1, l2}
  RawEvent <- OneEvent
  Topic <- OneTopic
  TopicOf <- EventTopic
  Unreadable = "unreadable"
  Operators = {op1, op2}
  Possible <- EveryKind
  Limit = 4
INVARIANTS DecidedOnce DecidedAsSeen CommittedMeansStored
PROPERTIES ImplementsResolution DecisionStands EventuallyCaptured
CHECK_DEADLOCK FALSE
