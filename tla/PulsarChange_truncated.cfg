CONSTANTS
  Subscriptions = {s1, s2}
  MaxBacklog = 2
  BodyLimit = 2
  Attempts = 2
  EmptyBodies = FALSE
SPECIFICATION Spec
CHECK_DEADLOCK FALSE
INVARIANT SuccessMeansPurged
