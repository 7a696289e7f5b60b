SPECIFICATION IntakeSpec
CONSTANTS
  first = first
  other = other
  plain = plain
  m1 = m1
  m2 = m2
  Clients = {first, other, plain}
  KeyOf <- KeyOfClient
  BodyOf <- BodyOfClient
  NoKey = "none"
  Possible <- EveryCreateKind
  Limit = 1
  Other = Other
  Members = {m1, m2}
  Nobody = Nobody
  MaxOrders = 3
  MaxLog = 4
  RiskPossible <- EveryRiskKind
INVARIANTS OneOrderPerKey KeyWithItsOrder AnswersTrue
INVARIANTS CommittedMeansHandled ScoredInLogOrder ExtraScoresCost
PROPERTIES EveryoneAnswered EveryOrderScored ImplementsCreateOnce
CHECK_DEADLOCK FALSE
