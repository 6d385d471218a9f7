SPECIFICATION FairSpec
CONSTANTS
    MaxOps = 2
    MaxIssues = 2
    Known = {1}
    Workers = {w1}
    MaxFaults = 1
    MaxRetries = 1
    MaxExt = 1
    StaleScreens = FALSE
    LeaseOutlived = FALSE
CHECK_DEADLOCK FALSE
PROPERTIES
    PendingIssueSettles
    DeletionEnds
