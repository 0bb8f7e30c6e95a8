SPECIFICATION FairSpec
CONSTANTS
    UI = UI
    Web = Web
    Plugin = Plugin
    uw = uw
    wu = wu
    wp = wp
    pw = pw
    Null = Null
    Processes = {UI, Web}
    Ends = {uw, wu}
    ProcessOf <- PairProcessOf
    Peer <- PairPeer
    OnlyWhenProcessing = {wu}
    ExitsOnFailure = {wu}
    MayCrash = {Web}
    MayInvalidate = {UI}
    MayTimeOut = {UI}
    WithSecondary = {Web}
    MayWait = {UI}
    AsyncKinds = {"awaited"}
    MaxSends = 3
CHECK_DEADLOCK FALSE
PROPERTIES PlainMessagesInOrder SyncSendReturns SecondarySendReturns PeerLossNoticed
