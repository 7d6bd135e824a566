\* A full transmit queue (the bus is jammed) against the comment of EstopSendDue.
SPECIFICATION Spec
CONSTANTS
    n0 = n0
    n1 = n1
    Slots = {n0}
    Fitted = {}
    Masks <- AllBoards
    SeqMod = 16
    EpochMod = 3
    AliveTimeout = 3
    TripRepeat = 1
    AlivePeriod = 1
    ReleaseRepeat = 1
    AckTimeout = 3
    Axes = {}
    Category1 = {}
    RampMax = 0
    TripDebounce = 0
    ClearDebounce = 1
    StateHeartbeat = 2
    QueueDepth = 2
    BrainDepth = 2
    BootTime = 6
    FaultKinds = {"jam"}
    MaxFaults = 1
    MaxAsks = 1
PROPERTIES QueueOnlyDelays
VIEW RotationView
