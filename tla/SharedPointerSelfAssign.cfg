CONSTANTS
    Pointers = {p1, p2, p3}
    Weaks = {w1, w2}
    Blocks = {b1, b2, b3}
    Null = Null
    NoObject = NoObject
SPECIFICATION SelfAssignSpec
INVARIANT WellDefined
CHECK_DEADLOCK FALSE
