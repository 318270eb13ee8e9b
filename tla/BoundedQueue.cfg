CONSTANTS
    Producers = {p1, p2}
    Consumers = {c1, c2}
    Capacity = 2
    Values = {x, y}
    NoValue = NoValue
    NoThread = NoThread
SPECIFICATION FairSpec
INVARIANTS TypeOK NoSleeperForgotten
PROPERTIES ImplementsFifo KeepsMoving
