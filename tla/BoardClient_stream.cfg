SPECIFICATION Spec
CONSTANTS
    Updates = {u1}
    Creates = {}
    Theirs = {t1, t2}
    Born = born
    Deletion = deletion
    NoOp = none
    TempsUsed = 5
    MaxRev = 3
    Page = 2
    MaxErrors = 0
    MaxLoads = 0
    MaxDrags = 1
    MaxDrops = 1
    MaxDeletes = 1
CHECK_DEADLOCK FALSE
SYMMETRY Perms
INVARIANTS
    UnsentEditShown
PROPERTIES
    FollowsTheLog
    DragSeesOneBoard
