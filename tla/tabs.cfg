CONSTANTS
    File = {f1, f2}
    Tab = {b1, b2}
    Thread = {t1, t2}
    Chunks = 2
    Simultaneous = 2
    MaxRestarts = 1
    Nobody = nobody
SPECIFICATION FairSpec
INVARIANTS RegisteredHasAllChunks
PROPERTIES UploadEnds
CHECK_DEADLOCK FALSE
