SPECIFICATION Spec
CONSTANTS
    Width = 4
    Height = 3
    Diagonals = TRUE
    Methods = {"astar", "d_star_lite", "fast_marching"}
    FirstGrids <- MCFirstGrids
    Grids <- MCGrids
    Starts = {0}
    Goals = {0, 6, 11}
    MaxPlans = 2
    LosIterations = 2
    BreakOnFirst = FALSE
    ObstacleThreshold = 1
    SafetyMarginSq = 2
    CancelEvery = 2
PROPERTY SearchEnds
INVARIANTS
    CheapestPath
    MarchAvoidsObstacles
    ClearanceExact
CHECK_DEADLOCK FALSE
