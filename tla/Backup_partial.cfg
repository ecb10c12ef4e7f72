SPECIFICATION Spec
CONSTANTS
  Commands = {c1, c2}
  KeepLast = 1
  StartTime = 2
  MaxTime = 3
  Existing = {0, 1}
  SetBack = 0
  MayCrash = FALSE
INVARIANT BackupRemains
