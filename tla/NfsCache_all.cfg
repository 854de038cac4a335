SPECIFICATION FairSpec
CONSTANTS
  Nfsd = {d1, d2}
  Req = {a, b, c}
  Nonidem = {a}
  Bad = {c}
  Nqnfs = {a, c}
  Write = {a}
  Entry = {e, f}
  None = None
  Desired = 1
  MaxCrashes = 1
INVARIANTS AtMostOnce NoOrphan CacheSound
PROPERTY RequestAnswered
CHECK_DEADLOCK FALSE
