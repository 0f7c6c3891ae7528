CONSTANTS
    Job = {j1, j2, j3}
    Nobody = nobody
    Slots = 1
    MaxSlots = 2
    Fault = {"raise"}
SPECIFICATION FairSpec
INVARIANTS NotOverbooked RunningIsListed
PROPERTIES PulledJobEnds
CHECK_DEADLOCK FALSE
