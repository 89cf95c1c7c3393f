SPECIFICATION Spec
CONSTANTS
  Levels <- AllLevels
  Limit = 2
INVARIANTS BothCleared ZeroTargetWrites CopiesInOrder
PROPERTY UsesJournal
CHECK_DEADLOCK FALSE
