CONSTANTS
    MaxSends = 2
    MaxEvents = 1
    MaxDelayed = 1
SPECIFICATION Spec
CHECK_DEADLOCK FALSE
INVARIANTS
    TypeOK
    Pipeline
    ProcessedInOrder
    ClosedFollowsConnected
    DestroyedIsQuiet
