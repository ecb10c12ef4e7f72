SPECIFICATION Spec
CONSTANTS
  Processes = {p1}
  Launches <- MCLaunches
  ConfigFiles <- MCConfigFiles
  Edits <- MCEdits
  Existing <- MCExisting
  ModeApplied = {TRUE, FALSE}
  MayFail = FALSE
INVARIANT DocumentedTimeout
