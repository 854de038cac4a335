CONSTANTS
  Proc = {p, q}
  Vnode = {u, v, w}
  Inode = {i, j}
  None = None
  Desired = 1
SPECIFICATION FairSpec
PROPERTY CleaningEnds
CHECK_DEADLOCK FALSE
