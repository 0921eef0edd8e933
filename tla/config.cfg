SPECIFICATION Spec
CONSTANTS
  Homes = {"~/.traust/config", "/etc/traust"}
  Default = "~/.traust/config"
  NoHome = "-"
  Edited <- MCEdited
  Contents <- MCContents
  MaxEdits = 1
INVARIANT LoadIsWhole
INVARIANT LoadIsExact
CHECK_DEADLOCK FALSE
