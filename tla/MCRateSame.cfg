SPECIFICATION Spec
CONSTANTS
  h1 = h1
  h2 = h2
  g1 = g1
  g2 = g2
  Handlers = {h1, h2}
  Limiters = {g1, g2}
  LimiterOf <- TwoReplicas
  Limit = 1
  Second = 2
  Window = 4
  MaxTime = 5
  SameMs = TRUE
  Delays = FALSE
CHECK_DEADLOCK FALSE
INVARIANT AtMostLimit
