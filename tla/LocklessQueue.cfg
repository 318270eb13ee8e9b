CONSTANTS
    Producers = {p1, p2}
    Consumers = {c1, c2}
    QueueCapacity = 3
    Values = {x, y}
    NoValue = NoValue
SPECIFICATION FairLapFreeSpec
INVARIANTS TypeOK NoDataRace PushIdxIsPushable
PROPERTIES ImplementsFifo RefusalIsJustified ClaimsComplete
