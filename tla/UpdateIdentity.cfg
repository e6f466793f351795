SPECIFICATION SettingsSpec
CONSTANTS
  Varied <- MCBesideUri
  Given <- MCGiven
  HostList <- MCHostList
  Uri <- MCUri
  MaxSettings = 3
CHECK_DEADLOCK FALSE
INVARIANTS
  UpdatesFollowRestore
