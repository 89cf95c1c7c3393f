CONSTANTS
  c1 = c1
  c2 = c2
  NoName = NoName
  NoOne = NoOne
  Absent = Absent
  NoPolicy = "none"
  Commands = {c1, c2}
  Names = {"a", "b", "c", "a/sr"}
  Slots = {"a", "a/sr", "c/sr", "vault"}
  Vault = {"vault"}
  Secrets = {"old", "x", "y", "z", "w", "v"}
  OldSecret = "old"
  Policies = {"open", "shut", "none"}
  Calls <- SameCalls
  Stores <- OneStore
  Faults = {"commit"}
SPECIFICATION Spec
SYMMETRY Symmetry
PROPERTIES AcknowledgedKept
