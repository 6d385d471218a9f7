SPECIFICATION ServerSpec
CONSTANTS
Issues = {1, 2}
Workers = {w1}
Lag = 1
ReadTime = 0
DeltaOverlap = 1
MaxAttempts = 2
MaxTime = 3
MaxEvents = 2
Calls = {c1, c2}
Requests = {r1}
SessionTTL = 1
StateTTL = 1
TokenTTL = 0
MaxClock = 2
MaxLogins = 1
MaxPairs = 3
MaxMoves = 1
INVARIANTS CursorCoversUpdates CredentialWorks
PROPERTIES BoardCatchesUp LeaversAreSignedOut
CHECK_DEADLOCK FALSE
