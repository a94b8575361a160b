CONSTANTS
    MaxDests = 3
    MaxRoutes = 2
    MaxNbrs = 2
    ObsInit = 2
    ObsMin = 1
    MinQuality = 1
    DefaultQuality = 192
    HopLimit = 1
    Me = 0
    Neighbours = {1, 2, 3}
    Scenarios <- MCSafety
    MaxSaved = 3
    FrameEntries = 2
SPECIFICATION Spec
INVARIANTS RoutesSound SilentForgotten WithdrawalsTold
CHECK_DEADLOCK FALSE
