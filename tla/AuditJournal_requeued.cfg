CONSTANTS
  o1 = o1
  o2 = o2
  n1 = n1
  NoOp = NoOp
  Ops = {o1, o2, n1}
  Notes = {n1}
  MaxSeq = 2
  Faults = {"append","quarantine"}
SPECIFICATION Spec
CHECK_DEADLOCK TRUE
PROPERTIES OnlyUncommittedReplayed
