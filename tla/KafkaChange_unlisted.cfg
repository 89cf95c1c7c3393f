CONSTANTS
  Partitions = {t0, t1}
  MaxOffset = 2
  Requests <- MCRequests
SPECIFICATION Spec
CHECK_DEADLOCK FALSE
INVARIANT ResetMeansMoved
