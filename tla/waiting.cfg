CONSTANTS
    Job = {j1, j2}
    Worker = {w1, w2}
    View = {}
    History = {}
    Refresher = refresher
    Background = FALSE
    Deleter = {d1}
    MaxSlots = 1
    Fault = {"crash", "loss"}
    PickupInTime = TRUE
    Nobody = nobody
SPECIFICATION FairSpec
PROPERTIES WaitingIsTaken
CHECK_DEADLOCK FALSE
