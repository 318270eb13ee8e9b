CONSTANTS
    Pushers = {p1}
    Poppers = {c1, c2}
    Addrs = {a1, a2, a3}
    Null = Null
    Values = {x}
    NoValue = NoValue
SPECIFICATION Spec
SYMMETRY Symmetry
INVARIANT NoUseAfterFree
