CONSTANTS
    N = 3
    SkipRequest <- MCSkipRequest
    Fault = {"raise", "late", "db", "disk", "kill", "deaf"}
    LeaveSchema = FALSE
    LeaveJobdir = FALSE
SPECIFICATION FairSpec
INVARIANTS StepsAreTrue GradeIsEarned RequiredGates LeavesNothing
PROPERTIES StoredResultGrows ImplementsOutcome JobEnds
CHECK_DEADLOCK FALSE
