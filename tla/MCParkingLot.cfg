SPECIFICATION LotSpec
CONSTANTS
    Threads = {t1, t2, t3}
    Addresses = {a1, a2}
    Null = Null
CONSTRAINT NoStaleUnparker
SYMMETRY Symmetry
INVARIANTS QueuesConsistent LotAssertionsHold NoLostWakeup ResultTellsUnparked
