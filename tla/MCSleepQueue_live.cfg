CONSTANTS
  Proc = {p1}
  Chan = {c1}
  NoChan = NoChan
  None = None
  Signals = {"INT", "KILL", "STOP", "CONT", "USR1"}
  Caught = {"INT"}
  Held = {"USR1"}
  Catch = {TRUE}
  Timo = {TRUE, FALSE}
SPECIFICATION FairSpec
CHECK_DEADLOCK FALSE
PROPERTIES TimedSleepEnds ContinuedRuns KillTakes
