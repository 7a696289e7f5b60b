SPECIFICATION Spec
CONSTANTS
  m1 = m1
  Orders = {1, 2}
  Other = Other
  Members = {m1}
  Nobody = Nobody
  MaxLog = 2
  Possible <- ErrorsOnly
  Limit = 1
INVARIANT CommittedMeansPublished
CHECK_DEADLOCK FALSE
