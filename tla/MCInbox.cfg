SPECIFICATION FairSpec
CONSTANTS
  w1 = w1
  w2 = w2
  e1 = e1
  r1 = r1
  r2 = r2
  null = null
  Workers = {w1, w2}
  Events = {e1}
  Results = {r1, r2}
  NoResult = null
  Stages = 3
  Long <- Outlasting
  Possible <- EveryKind
  Limit = 4
INVARIANTS EffectsAgree EffectOnce NeverLost
PROPERTIES ImplementsConsumeOnce EventuallyCompleted
CHECK_DEADLOCK FALSE
