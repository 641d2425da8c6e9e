CONSTANTS
    no_scan = no_scan
    no_grid = no_grid
    NX = 3
    NY = 1
    DX = 1
    DY = 1
    NVoxels = 5
    Methods <- MCMethods
    BelowOnly = FALSE
    Combination = "max"
    StaticHeights <- Bank
    MaxPointAge = 1
    ForceEvery = 1
    Scenarios <- MCScenarios
    NoScan = no_scan
    NoGrid = no_grid
SPECIFICATION FairSpec
INVARIANTS
    DilationFollowsObstacles
    VoxelsMatchCells
    NoObstacleMissed
PROPERTIES
    CopyCatchesUp
