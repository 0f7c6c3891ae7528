CONSTANTS
    Fid = {1, 2, 3, 4}
    Layer <- MCLayer
    Boundary <- MCBoundary
    Asks <- MCAsks
    MaxVertices = 9
    GridSize = 2
    ByUnit = TRUE
SPECIFICATION Spec
INVARIANTS PartitionedLayerIsTrue EdgesAreTrue GapsAreTrue ChangeIsTrue ClustersAreTrue
CHECK_DEADLOCK FALSE
