SPECIFICATION FairSpec
CONSTANTS
    Callers = {m1, m2}
    TaskThread = TaskThread
    Null = Null
    SmallPages = {p1}
    Units = 3
    Alignments = {1, 2}
    WasteFactor = 2
INVARIANTS MemoryIsBacked MemoryOwnedOnce NothingLeftBehind
PROPERTIES RequestIsServed
