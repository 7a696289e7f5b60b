SPECIFICATION FairSpec
CONSTANTS
  o1 = o1
  s1 = s1
  s2 = s2
  Orders = {o1}
  Sessions = {s1, s2}
  Limit <- Faults
INVARIANTS OneFinalEvent ConfirmedMeansAuthorized
PROPERTIES EventuallyDecided FinalIsFinal ImplementsOrderOutcome
CHECK_DEADLOCK FALSE
