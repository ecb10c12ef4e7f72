SPECIFICATION FairServeSpec
CONSTANTS
  Handles = {main, httpd, admind, h1}
  Root = main
  NoHandle = nobody
  Buffer = 1
  Outcomes = {"ok"}
  MayAbort = TRUE
  HttpHandle = httpd
  AdminHandle = admind
  HttpConns = {h1}
  AdminConns = {}
  RequestKinds = {"static"}
  MayFail = FALSE
  DebugBuild = FALSE
PROPERTY RequestsDoNotStopShutdown
