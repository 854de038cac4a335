CONSTANTS
  Proc = {p1, p2}
  Sock = {a, b, c}
  Plain = {v}
  None = None
  MaxFds = 3
  MaxQueue = 1
  MaxRights = 2
SPECIFICATION Spec
SYMMETRY Symmetry
INVARIANTS CountsTrue GarbageGone
PROPERTIES ImplementsRights
CHECK_DEADLOCK FALSE
