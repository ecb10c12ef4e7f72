SPECIFICATION FairSpec
CONSTANTS
  Handles = {root, c1, c2}
  Root = root
  NoHandle = nobody
  Buffer = 1
  Outcomes = {"ok", "err"}
  MayAbort = TRUE
PROPERTIES
  EveryCallReturns
  SentClosuresRun
  CloseReturns
  ThreadFinishes
