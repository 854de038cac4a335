CONSTANTS
  Proc = {p1, p2}
  NoProc = NoProc
  Desc = {a, b}
  Timeouts = {TRUE, FALSE}
SPECIFICATION FairSelect
INVARIANTS NoSleepOverReady
PROPERTIES SelectReturns
