SPECIFICATION Spec
CONSTANTS
    MaxOps = 2
    MaxIssues = 2
    Known = {1}
    Workers = {w1, w2}
    MaxFaults = 1
    MaxRetries = 1
    MaxExt = 1
    StaleScreens = TRUE
    LeaseOutlived = TRUE
CHECK_DEADLOCK FALSE
SYMMETRY Perms
INVARIANTS
    ChipTruth
    SyncedReached
    DeletedIsGone
