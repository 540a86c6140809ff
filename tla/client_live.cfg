CONSTANTS
    MaxSends = 0
    MaxEvents = 2
    MaxDelayed = 1
SPECIFICATION LiveSpec
CHECK_DEADLOCK FALSE
PROPERTIES
    Reconnects
    TimerStops
