CONSTANTS
    NodeSize = 4
    Bases <- MCBases
    Lens <- MCLens
    NoBlock = NoBlock
    NodeCapacity = 2
    MaxNodes = 3
    s1 = s1
    s2 = s2
    s3 = s3
    w1 = w1
    w2 = w2
    Handles <- MCSlots
    Objects <- MCSlots
    Pointers <- MCSlots
    Weaks <- MCWeaks
    Blocks = {b1, b2, b3, b4}
    Contents = {x, y}
    Null = Null
    NoObject = NoObject
    Numbers = {1, 2, 3}
    MaxHeapSize = 6
    ListNodes = {n1, n2, n3, n4}
    Keys = {1, 2, 3}
    Hash <- MCHash
    Default = x
    MaxInsertions = 4
    StackCapacity = 2
    MaxSize = 5
    Strings = {t1, t2}
    Nul = Nul
    MaxText = 2
    MaxFd = 3
    ArraySize = 5
SPECIFICATION Spec
SYMMETRY Symmetry
INVARIANTS TypeOK MemoryTiled IndexesAgree ChunksAccounted NoNeedlessGrowth
           RefcntCountsOwners WellDefined ContainersSound OwnedOnce
PROPERTIES ImplementsPool MutationIsPrivate ImplementsContainers
CHECK_DEADLOCK FALSE
