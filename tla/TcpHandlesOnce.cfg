CONSTANTS
    SendWindow = 2
    ReceiveWindow = 2
    TimeOutLimit = 1
    MaxSeq = 2
    NoPkt = NoPkt
SPECIFICATION FairSpec
PROPERTY EveryAckHandled
