SPECIFICATION FairSpec
CONSTANTS
    Threads = {t1, t2, t3}
    Null = Null
    SpinLimit = 1
    WeakCASMayFail = TRUE
INVARIANTS TypeOK MutualExclusion WordAssertionsHold ThreadDataIsClear NoWaiterForgotten
PROPERTIES QueueIsFIFO ImplementsMutex ParkedThreadIsWoken SomeoneAcquires
