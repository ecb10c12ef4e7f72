SPECIFICATION ServeSpec
CONSTANTS
  Handles = {main, httpd, admind, a1}
  Root = main
  NoHandle = nobody
  Buffer = 1
  Outcomes = {"ok"}
  MayAbort = TRUE
  HttpHandle = httpd
  AdminHandle = admind
  HttpConns = {}
  AdminConns = {a1}
  RequestKinds = {"api"}
  MayFail = FALSE
  DebugBuild = FALSE
INVARIANT ShutdownClosesDatabase
