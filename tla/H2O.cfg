CONSTANTS
    HThreads = {h1, h2, h3}
    OThreads = {o1, o2}
    NoThread = NoThread
SPECIFICATION FairSpec
INVARIANTS TypeOK MoleculesWhole SleepersHaveAReason
PROPERTY KeepsProducing
