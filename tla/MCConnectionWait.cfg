SPECIFICATION Spec
CONSTANTS
    UI = UI
    Web = Web
    Plugin = Plugin
    uw = uw
    wu = wu
    wp = wp
    pw = pw
    Null = Null
    Processes = {UI, Web}
    Ends = {uw, wu}
    ProcessOf <- PairProcessOf
    Peer <- PairPeer
    OnlyWhenProcessing = {wu}
    ExitsOnFailure = {}
    MayCrash = {}
    MayInvalidate = {}
    MayTimeOut = {}
    WithSecondary = {}
    MayWait = {UI}
    AsyncKinds = {"awaited"}
    MaxSends = 2
CHECK_DEADLOCK FALSE
INVARIANTS WaitIsInterrupted
