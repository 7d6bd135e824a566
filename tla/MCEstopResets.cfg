\* A board and the brain over one jam or one reset of the brain, with a release asked for.
SPECIFICATION Spec
CONSTANTS
    n0 = n0
    n1 = n1
    Slots = {n0}
    Fitted = {}
    Masks <- AllBoards
    SeqMod = 4
    EpochMod = 2
    AliveTimeout = 2
    TripRepeat = 1
    AlivePeriod = 1
    ReleaseRepeat = 1
    AckTimeout = 2
    Axes = {}
    Category1 = {}
    RampMax = 0
    TripDebounce = 0
    ClearDebounce = 0
    StateHeartbeat = 1
    QueueDepth = 2
    BrainDepth = 2
    BootTime = 6
    FaultKinds = {"jam", "reboot"}
    MaxFaults = 1
    MaxAsks = 1
INVARIANTS AckIsReal
PROPERTIES RebootFindsAllLatched
