SPECIFICATION Spec
CONSTANTS
  Handles = {root, c1, c2, c3}
  Root = root
  NoHandle = nobody
  Buffer = 2
  Outcomes = {"ok", "err", "panic"}
  MayAbort = TRUE
SYMMETRY Clones
INVARIANTS
  TypeOK
  ClosedMeansPanicked
  QuietEnd
  PermitsAccounted
  LastCloseJoins
PROPERTIES
  ImplementsService
