SPECIFICATION Spec
CONSTANTS
    Updates = {}
    Creates = {c1}
    Theirs = {t1}
    Born = born
    Deletion = deletion
    NoOp = none
    TempsUsed = 5
    MaxRev = 3
    Page = 2
    MaxErrors = 2
    MaxLoads = 0
    MaxDrags = 0
    MaxDrops = 1
    MaxDeletes = 1
CHECK_DEADLOCK FALSE
INVARIANTS
    CreatedOnce
