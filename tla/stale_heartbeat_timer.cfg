CONSTANTS
    Senders = {s1}
    Unnamed = Unnamed
    MaxDatagrams = 2
    MaxConnections = 2
    MaxHandlers = 2
    SerialConnects = TRUE
SPECIFICATION Spec
CHECK_DEADLOCK FALSE
INVARIANT DeadlineWillBeReported
