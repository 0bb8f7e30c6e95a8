SPECIFICATION FairSpec
CONSTANTS
    Threads = {p1, c1, c2}
    Producers = {p1}
    Timeouts = {}
    Addresses = {byte, waiters}
    TheLock = byte
    TheCondition = waiters
    Null = Null
    SpinLimit = 0
    WeakCASMayFail = FALSE
PROPERTIES FlagIsConsumed
