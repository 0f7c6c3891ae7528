\* None of these holds; leave the one to look at.
CONSTANTS
    File = {f1, f2}
    Tab = {b1, b2}
    Thread = {t1, t2}
    Chunks = 2
    Simultaneous = 2
    MaxRestarts = 1
    Nobody = nobody
SPECIFICATION Spec
SYMMETRY Symmetry
INVARIANTS RegisteredIsWhole OneDelivery UploadedIsRegistered
CHECK_DEADLOCK FALSE
