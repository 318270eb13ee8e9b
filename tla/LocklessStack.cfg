CONSTANTS
    Pushers = {p1, p2}
    Poppers = {c1}
    Addrs = {a1, a2, a3}
    Null = Null
    Values = {x, y}
    NoValue = NoValue
SPECIFICATION FairSpec
INVARIANTS TypeOK NoUseAfterFree NodesAccounted
PROPERTIES ImplementsStack LockFree
