CONSTANTS
    Mode = "server"
    BufferSize = 2
    NoBufferSpaceLimit = 1
    NoBufferSpaceAbort = 2
    MaxEntries = 3
    MaxHandlers = 4
    MaxFailed = 1
    SerialConnects = TRUE
SPECIFICATION LiveSpec
CHECK_DEADLOCK FALSE
INVARIANTS
    SingleSender
    SenderAlive
    WaitsNeedSocket
PROPERTIES
    ImplementsSendQueue
    JoinReturns
