CONSTANTS
    Job = {j1}
    Worker = {w1}
    View = {v1}
    History = {v1}
    Refresher = refresher
    Background = TRUE
    Deleter = {}
    MaxSlots = 1
    Fault = {}
    PickupInTime = TRUE
    Nobody = nobody
SPECIFICATION Spec
INVARIANTS LoadedJobHasFinished
CHECK_DEADLOCK FALSE
