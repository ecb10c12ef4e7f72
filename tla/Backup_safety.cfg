SPECIFICATION FairSpec
CONSTANTS
  Commands = {c1, c2, c3}
  KeepLast = 1
  StartTime = 2
  MaxTime = 3
  Existing = {0, 1}
  SetBack = 1
  MayCrash = TRUE
INVARIANTS
  TypeOK
  NewestKept
  RemovesAfterSuccess
  AtMostKeepLast
  RemovesOlderUnlessSetBack
PROPERTIES
  CommandsEnd
