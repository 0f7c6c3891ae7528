CONSTANTS
    Job = {j1}
    Worker = {w1, w2}
    View = {v1, v2}
    History = {v2}
    Refresher = refresher
    Background = TRUE
    Deleter = {d1}
    MaxSlots = 1
    Fault = {"crash", "loss", "unreachable", "timeout", "die"}
    PickupInTime = TRUE
    Nobody = nobody
SPECIFICATION FairSpec
INVARIANTS GradeIsTrue ErrorIsTrue
PROPERTIES GradeStands RunningIsClosed
CHECK_DEADLOCK FALSE
