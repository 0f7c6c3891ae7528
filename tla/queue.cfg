CONSTANTS
    Job = {j1, j2}
    Worker = {w1, w2}
    View = {}
    History = {}
    Refresher = refresher
    Background = TRUE
    Deleter = {d1}
    MaxSlots = 1
    Fault = {"loss", "crash"}
    PickupInTime = TRUE
    Nobody = nobody
SPECIFICATION Spec
SYMMETRY Symmetry
INVARIANTS HandedOutOnce
PROPERTIES ClaimsInOrder NeverBack ImplementsHandout
CHECK_DEADLOCK FALSE
