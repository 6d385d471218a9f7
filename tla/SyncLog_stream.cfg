SPECIFICATION Spec
CONSTANTS
    card = card
    u1 = u1
    u2 = u2
    MaxRev = 2
    Public = {card}
    Users = {u1, u2}
    Streams = {u1}
    Pullers = {u2}
    Writers = {w1, w2}
    Changes <- MCChanges
    Budget = 2
    Limits = {1, 2}
    MaxPrunes = 1
    MaxDrops = 1
    PruneUnderReader = FALSE
    QuietReconnect = FALSE
CHECK_DEADLOCK FALSE
SYMMETRY Perms
CONSTRAINT OneClient
INVARIANTS
    ViewIsPast
    NoLostWakeUp
PROPERTIES
    ImplementsHistory
