CONSTANTS
  Proc = {p1, p2}
  Chan = {c1, c2}
  NoChan = NoChan
  None = None
  Signals = {"INT", "KILL", "STOP", "CONT"}
  Caught = {"INT"}
  Held = {}
  Catch = {TRUE, FALSE}
  Timo = {TRUE, FALSE}
SPECIFICATION Spec
CHECK_DEADLOCK FALSE
SYMMETRY Symmetry
INVARIANTS QueueSound TimeoutSound ReturnsTruth NoDeafSleeper StoppedOnlyIfAsked
PROPERTIES StopHolds
