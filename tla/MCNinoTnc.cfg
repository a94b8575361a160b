SPECIFICATION Spec
CONSTANTS
  h1 = h1
  h2 = h2
  Http <- MCHttp
  Files <- MCFiles
  MaxLines = 3
  Attempts = 3
  CmdCapacity = 1
  Params = {"p1", "p2"}
  WantedModes = {0, 1, 15}
  Scenarios <- MCScenarios
INVARIANTS
  NeverBricked
  CleanUpdateCompletes
  RefusalRestores
  SettingsInForce
PROPERTIES
  SerialWorkEnds
CHECK_DEADLOCK FALSE
