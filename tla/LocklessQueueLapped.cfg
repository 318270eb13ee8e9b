CONSTANTS
    Producers = {p1, p2}
    Consumers = {c1}
    QueueCapacity = 4
    Values = {x}
    NoValue = NoValue
SPECIFICATION Spec
SYMMETRY Symmetry
INVARIANT PushIdxIsPushable
