\* None of these holds; leave the one to look at.
CONSTANTS
    Job = {j1, j2}
    Worker = {w1}
    View = {v1}
    History = {}
    Refresher = refresher
    Background = TRUE
    Deleter = {d1}
    MaxSlots = 1
    Fault = {"timeout"}
    PickupInTime = TRUE
    Nobody = nobody
SPECIFICATION Spec
INVARIANTS RunningJobHasRow
PROPERTIES ClaimsOldest VerdictStands DeletedForGood
CHECK_DEADLOCK FALSE
