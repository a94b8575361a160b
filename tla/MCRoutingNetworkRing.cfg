CONSTANTS
    MaxDests = 4
    MaxRoutes = 2
    MaxNbrs = 3
    ObsInit = 2
    ObsMin = 1
    MinQuality = 0
    DefaultQuality = 192
    HopLimit = 30
    Nodes = {1, 2, 3}
    Gateway = 4
    Far = 5
    Topologies <- MCRing
SPECIFICATION FairSpec
PROPERTY DeadAlwaysForgotten
