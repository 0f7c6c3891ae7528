CONSTANTS
    Deliveries <- MCDeliveries
    MaxRetries = 2
    StatusRetries = 2
    StatusInterval = 60
    PollInterval = 5
    RunTimeout = 5
    GithubAnswers = TRUE
SPECIFICATION FairInspireSpec
INVARIANTS OkIsPassed WaitIsBounded
PROPERTIES InspireEnds
CHECK_DEADLOCK FALSE
