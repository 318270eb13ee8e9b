CONSTANTS
    SendWindow = 3
    ReceiveWindow = 2
    TimeOutLimit = 2
    MaxSeq = 4
    NoPkt = NoPkt
SPECIFICATION FairSpec
INVARIANTS TypeOK DeliveredInOrder AckedWasDelivered UnackedKept BufNotRaced
PROPERTY AckEndsSleep
