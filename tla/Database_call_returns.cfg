SPECIFICATION FairSpec
CONSTANTS
  Handles = {root, c1}
  Root = root
  NoHandle = nobody
  Buffer = 1
  Outcomes = {"ok", "panic"}
  MayAbort = FALSE
PROPERTY EveryCallReturns
CHECK_DEADLOCK FALSE
