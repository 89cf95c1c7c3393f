SPECIFICATION Spec
CONSTANT Levels <- AllLevels
INVARIANTS ClientUnderIntent ShownWhenRecorded OnlyCleared
PROPERTY UsesJournal
CHECK_DEADLOCK FALSE
