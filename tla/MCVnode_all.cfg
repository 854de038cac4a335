CONSTANTS
  Proc = {p, q, r}
  Vnode = {u, v, w}
  Inode = {i, j}
  None = None
  Desired = 1
SPECIFICATION Spec
SYMMETRY Symmetry
INVARIANTS CountsExact LockAlive RightFile WaitsForSomebody
CHECK_DEADLOCK FALSE
