SPECIFICATION Spec
CONSTANTS
  fast = fast
  slow = slow
  home = home
  away = away
  none = none
  near = near
  far = far
  nothing = nothing
  TncSettings <- MCTnc
  Rest <- MCRest
  Tables <- MCTables
  EmptyTable = none
  DefaultTnc = fast
  DefaultRest = home
  Nothing = nothing
  MaxGeneration = 4
  MaxBad = 1
INVARIANTS
  OkMeansStored
  RoutesSurvive
PROPERTIES
  ConfigDurable
