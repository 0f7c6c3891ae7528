CONSTANTS
    File = {f1, f2}
    Tab = {b1, b2, b3}
    Thread = {t1}
    Chunks = 3
    Simultaneous = 2
    MaxRestarts = 0
    Nobody = nobody
SPECIFICATION Spec
SYMMETRY Symmetry
INVARIANTS RegisteredIsWhole OneDelivery UploadedIsRegistered
CHECK_DEADLOCK FALSE
