CONSTANTS
    Deliveries <- MCDeliveries
    MaxRetries = 1
    StatusRetries = 2
    StatusInterval = 60
    PollInterval = 5
    RunTimeout = 5
    GithubAnswers = TRUE
SPECIFICATION InspireSpec
INVARIANTS ReportOfVerdict
CHECK_DEADLOCK FALSE
