CONSTANTS
    Mode = "client"
    BufferSize = 1
    NoBufferSpaceLimit = 1
    NoBufferSpaceAbort = 2
    MaxEntries = 2
    MaxHandlers = 4
    MaxFailed = 2
    SerialConnects = TRUE
SPECIFICATION Spec
CHECK_DEADLOCK FALSE
INVARIANT SendHasDeadline
