\* None of these holds; leave the one to look at.
CONSTANTS
    RasterInput <- MCInput
    AutoIdentify = TRUE
    BlockSize = 8
    MMU = 3
    NoData = 0
    Group <- MCGroup
    ValueException = {3}
    NeighbourException = {4}
    ReportExceptions = TRUE
    MaxReported = 3
    GapBlock = 2
    AlignGrid = 1
    ByNoData = ByNoData
    None = None
SPECIFICATION RasterSpec
CHECK_DEADLOCK FALSE
INVARIANTS DetectedAreReported BordersCutNothing NoCrash CountedOnce OnlyUnmappedSkipped OriginsAligned OwnNoData EveryLayerCounts HashOfDelivery
