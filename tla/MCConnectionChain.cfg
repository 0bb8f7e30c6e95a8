SPECIFICATION FairSpec
CONSTANTS
    UI = UI
    Web = Web
    Plugin = Plugin
    uw = uw
    wu = wu
    wp = wp
    pw = pw
    Null = Null
    Processes = {UI, Web, Plugin}
    Ends = {uw, wu, wp, pw}
    ProcessOf <- ChainProcessOf
    Peer <- ChainPeer
    OnlyWhenProcessing = {wu, pw}
    ExitsOnFailure = {wu}
    MayCrash = {}
    MayInvalidate = {}
    MayTimeOut = {}
    WithSecondary = {}
    MayWait = {}
    AsyncKinds = {}
    MaxSends = 3
CHECK_DEADLOCK FALSE
INVARIANTS PendingIsStack NothingStranded
PROPERTIES SyncSendReturns
