SPECIFICATION Spec
CONSTANTS
    MaxOps = 3
    MaxIssues = 2
    Known = {1}
    Workers = {w1, w2}
    MaxFaults = 1
    MaxRetries = 1
    MaxExt = 0
    StaleScreens = FALSE
    LeaseOutlived = FALSE
CHECK_DEADLOCK FALSE
SYMMETRY Perms
INVARIANTS
    IntentShown
    FailureIsVisibleOnIssues
    OneWorkerPerCard
PROPERTIES
    VersionMonotoneOnIssues
