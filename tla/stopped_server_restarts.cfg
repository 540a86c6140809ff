CONSTANTS
    MaxRequests = 2
    MaxLosses = 1
    MaxDelayed = 2
SPECIFICATION Spec
CHECK_DEADLOCK FALSE
INVARIANT StaysStopped
