CONSTANTS
    Mode = "client"
    BufferSize = 2
    NoBufferSpaceLimit = 1
    NoBufferSpaceAbort = 2
    MaxEntries = 2
    MaxHandlers = 2
    MaxFailed = 2
    SerialConnects = TRUE
SPECIFICATION LiveSpec
CHECK_DEADLOCK FALSE
PROPERTY JoinReturns
PROPERTY StuckSendAborted
PROPERTY EntriesProcessed
