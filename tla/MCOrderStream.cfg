SPECIFICATION FairSpec
CONSTANTS
  o1 = o1
  s1 = s1
  s2 = s2
  Orders = {o1}
  Sessions = {s1, s2}
  Limit <- NoDisturbances
PROPERTY OrderedStream
CHECK_DEADLOCK FALSE
