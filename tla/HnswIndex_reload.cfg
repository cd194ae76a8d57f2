SPECIFICATION MCSpec
CONSTANTS
    Ids = {1, 2, 3, 4, 5, 6}
    NoId = NoId
    MaxLayer = 0
    M = 2
    Mmax = 2
    TopK = 2
    Dist <- MCDist
    Modes = {TRUE}
PROPERTIES
    LoadReachesAll
