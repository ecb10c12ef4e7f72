SPECIFICATION FairServeSpec
CONSTANTS
  Handles = {main, httpd, admind, a1, a2, h1}
  Root = main
  NoHandle = nobody
  Buffer = 1
  Outcomes = {"ok", "panic"}
  MayAbort = TRUE
  HttpHandle = httpd
  AdminHandle = admind
  HttpConns = {h1}
  AdminConns = {a1, a2}
  RequestKinds = {"api", "static"}
  MayFail = TRUE
  DebugBuild = TRUE
CHECK_DEADLOCK FALSE
INVARIANTS
  ServeTypeOK
  ClosedAfterConnections
  OkExitIsClean
PROPERTIES
  OpenConnectionIsLate
  HealthCheckTells
  ShutdownCompletes
  FailureExits
