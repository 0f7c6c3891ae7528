CONSTANTS
    Job = {j1, j2}
    Nobody = nobody
    Slots = 2
    MaxSlots = 2
    Fault = {"raise"}
SPECIFICATION Spec
INVARIANTS TableIsRead
CHECK_DEADLOCK FALSE
