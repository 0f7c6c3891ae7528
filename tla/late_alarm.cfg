\* None of these holds; leave the one to look at.
CONSTANTS
    N = 2
    SkipRequest <- MCSkipRequest
    Fault = {"late", "deaf"}
    LeaveSchema = FALSE
    LeaveJobdir = FALSE
SPECIFICATION FairSpec
INVARIANTS ErrorsComeFromChecks SchemaIsDropped
PROPERTIES TimeLimitHolds
CHECK_DEADLOCK FALSE
