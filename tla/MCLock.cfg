SPECIFICATION FairSpec
CONSTANTS
    Threads = {t1, t2, t3}
    Addresses = {byte}
    TheLock = byte
    Null = Null
    SpinLimit = 1
    WeakCASMayFail = TRUE
INVARIANTS MutualExclusion LockAssertionsHold ParkedThreadsRemembered
PROPERTIES ImplementsMutex ParkedThreadIsWoken
