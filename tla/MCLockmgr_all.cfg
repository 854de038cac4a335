CONSTANTS
  Proc = {p1, p2, p3}
  NoProc = NoProc
  Types = {"SHARED", "EXCLUSIVE", "UPGRADE", "EXCLUPGRADE", "DOWNGRADE", "RELEASE", "DRAIN"}
  ExtFlags = {"NOWAIT", "SLEEPFAIL", "CANRECURSE"}
  Timeout = TRUE
  Catch = TRUE
  Gated = FALSE
  MaxExcl = 2
SYMMETRY Symmetry
SPECIFICATION Spec
INVARIANTS MutualExclusion LockInv UpgradeExcludes DrainedIsFree
PROPERTY ImplementsRWLock
CHECK_DEADLOCK FALSE
