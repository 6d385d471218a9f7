SPECIFICATION FairSpec
CONSTANTS
    Updates = {}
    Creates = {}
    Theirs = {t1}
    Born = born
    Deletion = deletion
    NoOp = none
    TempsUsed = 5
    MaxRev = 2
    Page = 1
    MaxErrors = 1
    MaxLoads = 1
    MaxDrags = 1
    MaxDrops = 1
    MaxDeletes = 0
CHECK_DEADLOCK FALSE
PROPERTIES
    CatchesUp
