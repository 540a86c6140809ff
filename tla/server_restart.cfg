CONSTANTS
    MaxRequests = 3
    MaxLosses = 2
    MaxDelayed = 2
SPECIFICATION LiveSpec
CHECK_DEADLOCK FALSE
INVARIANTS
    TypeOK
    NoStaleSignal
    NoFileLeft
    ClosedFollowsBound
    DestroyedIsClosed
PROPERTY Restarts
