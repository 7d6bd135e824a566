SPECIFICATION TunnelsSpec
CONSTANTS
    Depth = 3
    f1 = f1
    f2 = f2
    f3 = f3
    Frames <- MCFrames
    NoFrame = NoFrame
    None = None
    NoKey = NoKey
    Factory = "old"
    Page = 2
    ThisHw = 7
    Again = {}
    Tokens = {}
    Chunks = 1
    MaxSessions = 2
    UpdateSlot = 4
    FaultReleases <- OneNewer
    FaultStarts <- AlsoForAnother
    FaultCuts = 1
    MaxFaults = 1
    BrainReleases <- AlsoUnsigned
    BrainStarts <- OneStart
    BrainCuts = 2
    LinkSlot = 6
    LinkReleases <- TwoReleases
    LinkStarts <- AlsoOfNothing
    LinkCuts = 1
    MaxDamage = 1
    Script <- Client
    SpiSends <- Between
    SpiSeqMod = 2
    SpiFrames = 1
    AskSends <- Questions
    AskSeqMod = 8
    AskFrames = 2
    MaxRestarts = 1
    Requests <- SomeRequests
    BoardFrames <- SomeBoardFrames
    BridgeDepth = 2
    BridgeFrames = 3
INVARIANTS UpdatesKeepTheirWord SlotsStayApart
PROPERTIES PageAckIsOfThisSession ImplementsFifo
CHECK_DEADLOCK FALSE
