SPECIFICATION Spec
CONSTANTS
    t1 = t1
    t2 = t2
    t3 = t3
    Threads = {t1, t2, t3}
    a1 = a1
    a2 = a2
    Addresses = {a1, a2}
    Null = Null
    Hash <- AddressHash
    MaxLoadFactor = 1
    GrowthFactor = 1
    Operations <- Roles
CHECK_DEADLOCK FALSE
SYMMETRY Symmetry
INVARIANTS NoThreadLost TableIsSound NoCircularWait
PROPERTIES ImplementsQueues UnparkAllMissesNobody
