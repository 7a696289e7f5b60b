SPECIFICATION FairSpec
CONSTANTS
  p1 = p1
  p2 = p2
  NumEvents = 2
  Publishers = {p1, p2}
  BatchSize = 2
  Possible <- EveryKind
  Limit = 3
INVARIANTS SingleHolder NoDuplicate DeliveredBeforeForgotten
PROPERTIES ImplementsAtLeastOnce EventuallyDelivered
CHECK_DEADLOCK FALSE
