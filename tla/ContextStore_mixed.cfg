CONSTANTS
  c1 = c1
  c2 = c2
  NoName = NoName
  NoOne = NoOne
  Absent = Absent
  NoPolicy = "none"
  Commands = {c1, c2}
  Names = {"a", "b", "c", "a/sr"}
  Slots = {"a", "a/sr", "c/sr", "vault"}
  Vault = {"vault"}
  Secrets = {"old", "x", "y", "z", "w", "v", "u", "t", "s"}
  OldSecret = "old"
  Policies = {"open", "shut", "none"}
  Calls <- MixedCalls
  Stores <- TwoStores
  Faults <- AllFaults
SPECIFICATION Spec
SYMMETRY Symmetry
INVARIANTS StoreSound FailedLeavesNothing
PROPERTIES ApprovedWhenMade NothingClobbered RestoresOwnWrites
