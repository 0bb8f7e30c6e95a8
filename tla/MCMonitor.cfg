SPECIFICATION Spec
CONSTANTS
    Threads = {p1, c1, c2}
    Producers = {p1}
    Timeouts = {"past", "future"}
    Addresses = {byte, waiters}
    TheLock = byte
    TheCondition = waiters
    Null = Null
    SpinLimit = 0
    WeakCASMayFail = TRUE
CONSTRAINT NoStaleUnparker
SYMMETRY Symmetry
INVARIANTS WaitersRemembered
