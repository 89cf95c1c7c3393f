CONSTANTS
  Partitions = {t0, t1}
  MaxOffset = 2
  Reads <- MCReads
SPECIFICATION FairSpec
CHECK_DEADLOCK FALSE
PROPERTY ReadEnds
