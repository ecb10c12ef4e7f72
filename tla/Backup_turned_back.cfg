SPECIFICATION Spec
CONSTANTS
  Commands = {c1}
  KeepLast = 1
  StartTime = 2
  MaxTime = 3
  Existing = {0, 2}
  SetBack = 1
  MayCrash = FALSE
INVARIANT RemovesOlder
