CONSTANTS
  Proc = {p1, p2, p3}
  NoProc = NoProc
  Types = {"SHARED", "EXCLUSIVE", "DOWNGRADE", "RELEASE", "DRAIN"}
  ExtFlags = {"NOWAIT", "CANRECURSE"}
  Timeout = FALSE
  Catch = FALSE
  Gated = TRUE
  MaxExcl = 2
SPECIFICATION FairSpec
INVARIANTS NoStrandedSleeper NeverPanics
PROPERTIES WriterAdvances SleeperWakes
