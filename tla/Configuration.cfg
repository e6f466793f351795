SPECIFICATION SettingsSpec
CONSTANTS
  Varied <- MCVaried
  Given <- MCGiven
  HostList <- MCHostList
  Uri <- MCUri
  MaxSettings = 3
CHECK_DEADLOCK FALSE
INVARIANTS
  UpdatesFollowHost
  RestoreLooksWhereArchivePuts
