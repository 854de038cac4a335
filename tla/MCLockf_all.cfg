CONSTANTS
  p1 = p1
  p2 = p2
  p3 = p3
  f = f
  Proc = {p1, p2, p3}
  File = {f}
  Asks <- MCAsks
  End = 2
  MaxDepth = 3
  SplitSleeps = {"RD", "UN"}
SPECIFICATION Spec
INVARIANTS TypeOK NobodySleepsForNothing DeadlocksAreSeen
PROPERTIES ImplementsByteLocks
CHECK_DEADLOCK FALSE
