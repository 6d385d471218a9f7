SPECIFICATION FairSpec
CONSTANTS
    card = card
    u1 = u1
    u2 = u2
    MaxRev = 2
    Public = {card}
    Users = {u1, u2}
    Streams = {u1}
    Pullers = {}
    Writers = {w1}
    Changes <- MCChanges
    Budget = 2
    Limits = {1}
    MaxPrunes = 1
    MaxDrops = 1
    PruneUnderReader = FALSE
    QuietReconnect = TRUE
CHECK_DEADLOCK FALSE
PROPERTIES
    EventuallyShown
