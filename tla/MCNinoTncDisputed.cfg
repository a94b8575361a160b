\* Keep one of the invariants at a time; TLC stops at the first it refutes.
SPECIFICATION Spec
CONSTANTS
  h1 = h1
  h2 = h2
  Http <- MCHttp
  Files <- MCImages
  MaxLines = 3
  Attempts = 3
  CmdCapacity = 1
  Params = {"p1", "p2"}
  WantedModes = {1, 2, 15}
  Scenarios <- MCDisputed
INVARIANTS
  UsableOnlyWithModem
\*  SavedIsUsed
\*  ShownIsWorkedOn
\*  RefusalKeepsSettings
\*  ParamsOutliveModes
\*  NeverBrickedAtAll
CHECK_DEADLOCK FALSE
