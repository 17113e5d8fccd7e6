SPECIFICATION Spec
CONSTANTS
  h1 = h1
  h2 = h2
  g1 = g1
  g2 = g2
  Handlers = {h1, h2}
  Limiters = {g1, g2}
  LimiterOf <- TwoReplicas
  Limit = 2
  Second = 2
  Window = 4
  MaxTime = 9
  SameMs = FALSE
  Delays = FALSE
CHECK_DEADLOCK FALSE
INVARIANTS
  TypeOK
  AtMostLimit
  OnlyAdmittedStay
PROPERTY RefusedForCause
