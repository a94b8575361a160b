CONSTANTS
    MaxDests = 3
    MaxRoutes = 2
    MaxNbrs = 2
    ObsInit = 2
    ObsMin = 1
    MinQuality = 1
    DefaultQuality = 192
    HopLimit = 1
    Me = 0
    Neighbours = {1, 2, 3}
    Scenarios <- MCReboot
    MaxSaved = 3
    FrameEntries = 2
SPECIFICATION Spec
PROPERTY RebootKeepsRoutes
CHECK_DEADLOCK FALSE
