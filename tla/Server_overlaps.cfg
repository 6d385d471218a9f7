SPECIFICATION ServerSpec
CONSTANTS
Issues = {1}
Workers = {w1, w2}
Lag = 0
ReadTime = 0
DeltaOverlap = 0
MaxAttempts = 2
MaxTime = 1
MaxEvents = 2
Calls = {}
Requests = {r1, r2}
SessionTTL = 2
StateTTL = 1
TokenTTL = 1
MaxClock = 3
MaxLogins = 2
MaxPairs = 2
MaxMoves = 0
PROPERTIES DeliveryEnds SessionsRunTheirTime
CHECK_DEADLOCK FALSE
