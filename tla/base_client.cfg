CONSTANTS
    Mode = "client"
    BufferSize = 2
    NoBufferSpaceLimit = 1
    NoBufferSpaceAbort = 2
    MaxEntries = 3
    MaxHandlers = 3
    MaxFailed = 2
    SerialConnects = TRUE
SPECIFICATION Spec
CHECK_DEADLOCK FALSE
INVARIANTS
    TypeOK
    SingleSender
    SenderAlive
    WatchdogAlive
    NoSleepWithWork
    DeadlineGuardsSend
    NoSilentLoss
    WaitsNeedSocket
PROPERTY ImplementsSendQueue
