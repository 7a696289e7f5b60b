SPECIFICATION FairSpec
CONSTANTS
  c1 = c1
  c2 = c2
  c3 = c3
  Callers = {c1, c2, c3}
  Handshake = 2
  CONNECT = CONNECT
  Possible <- EveryKind
  Limit = 3
INVARIANTS NobodyHangs QueuedOnce RepliesInStep FailClosed
PROPERTIES EveryCallSettles RefusalEnds
CHECK_DEADLOCK FALSE
