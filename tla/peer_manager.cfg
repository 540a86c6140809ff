CONSTANTS
    Peers = {p1, p2}
    MaxSends = 3
SPECIFICATION LiveSpec
CHECK_DEADLOCK FALSE
INVARIANTS
    TypeOK
    PeerOrder
    NothingStranded
    SignalsOfPresent
PROPERTY EventuallyDecided
