CONSTANTS
    Fid = {1, 2}
    Layer <- MCLayer
    Boundary <- MCBoundary
    Asks <- MCAsks
    MaxVertices = 20
    GridSize = 1
    ByUnit = TRUE
SPECIFICATION Spec
INVARIANTS OverlapIsSuspect
CHECK_DEADLOCK FALSE
