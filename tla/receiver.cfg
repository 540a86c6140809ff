CONSTANTS
    Senders = {s1, s2}
    Unnamed = Unnamed
    MaxDatagrams = 3
    MaxConnections = 3
    MaxHandlers = 2
    SerialConnects = TRUE
SPECIFICATION Spec
CHECK_DEADLOCK FALSE
INVARIANTS
    TypeOK
    OneReceive
    ReceivedInOrder
    HeardOnThisConnection
PROPERTY ReportsNewestOnce
