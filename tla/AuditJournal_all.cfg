CONSTANTS
  o1 = o1
  o2 = o2
  n1 = n1
  NoOp = NoOp
  Ops = {o1, o2, n1}
  Notes = {n1}
  MaxSeq = 2
  Faults <- AllFaults
SPECIFICATION Spec
SYMMETRY Symmetry
INVARIANTS KeptIsDurable SkippedIsTruthful OwnSpoolAccepted
PROPERTIES ReplayBarrier ReplayInOrder QuarantineFreezesLog
  ImplementsContract
