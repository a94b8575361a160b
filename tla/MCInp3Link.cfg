SPECIFICATION Spec
CONSTANTS
  a = a
  b = b
  Nodes <- MCNodes
  Advertisers <- MCAdvertisers
  ProbeUnknown = TRUE
  Cadence = 1
  Window = 3
  RifInterval = 2
  MaxDelay = 1
  MaxFaults = 1
INVARIANTS
  OneInFlight
  DownOnlyAfterLoss
  LossIsTold
PROPERTIES RoutesArrive
