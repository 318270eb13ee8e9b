CONSTANTS
    TaskIds = {t1, t2}
    Nobody = Nobody
    Coros = {c1, c2, c3}
    MainStack = MainStack
SPECIFICATION FairSpec
INVARIANTS TypeOK NobodyStranded
PROPERTY QueuedTasksAnswered
CHECK_DEADLOCK FALSE
