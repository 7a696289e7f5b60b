SPECIFICATION Spec
CONSTANTS
  w1 = w1
  w2 = w2
  e1 = e1
  r1 = r1
  r2 = r2
  null = null
  Workers = {w1, w2}
  Events = {e1}
  Results = {r1, r2}
  NoResult = null
  Stages = 3
  Long <- Outlasting
  Possible <- LeaseOnly
  Limit = 2
INVARIANT RebalanceSafe
CHECK_DEADLOCK FALSE
