SPECIFICATION Spec
CONSTANTS
  Processes = {p1, p2, p3}
  Launches <- MCLaunches
  ConfigFiles <- MCConfigFiles
  Edits <- MCEdits
  Existing <- MCExisting
  ModeApplied = {TRUE, FALSE}
  MayFail = TRUE
SYMMETRY Symmetry
INVARIANTS
  TypeOK
  DocumentedPrecedence
  LoadedIsValid
  Reachable
  StartBlockedByServer
  BacksUpItsDatabase
  OnlyAuthorized
PROPERTIES
  CommandsFindServer
  TemplateKeepsFiles
