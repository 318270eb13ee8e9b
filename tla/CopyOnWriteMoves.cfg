CONSTANTS
    Objects = {o1, o2, o3}
    Blocks = {b1, b2, b3, b4}
    Contents = {x, y}
    Null = Null
    NoObject = NoObject
SPECIFICATION MoveSpec
INVARIANT WellDefined
CHECK_DEADLOCK FALSE
