CONSTANTS
    Job = {j1}
    Worker = {w1}
    View = {}
    History = {}
    Refresher = refresher
    Background = TRUE
    Deleter = {}
    MaxSlots = 1
    Fault = {"crash", "reset"}
    PickupInTime = TRUE
    Nobody = nobody
SPECIFICATION FairSpec
PROPERTIES RunningIsClosed
CHECK_DEADLOCK FALSE
