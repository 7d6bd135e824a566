\* Two boards and the brain with one lost frame, the timeout longer than two periods.
SPECIFICATION Spec
CONSTANTS
    n0 = n0
    n1 = n1
    Slots = {n0, n1}
    Fitted = {}
    Masks <- AllBoards
    SeqMod = 16
    EpochMod = 3
    AliveTimeout = 5
    TripRepeat = 1
    AlivePeriod = 2
    ReleaseRepeat = 2
    AckTimeout = 4
    Axes = {}
    Category1 = {}
    RampMax = 0
    TripDebounce = 0
    ClearDebounce = 1
    StateHeartbeat = 2
    QueueDepth = 3
    BrainDepth = 8
    BootTime = 6
    FaultKinds = {"loss"}
    MaxFaults = 1
    MaxAsks = 1
INVARIANTS StopReachesEveryBoard OneLossIsHarmless
PROPERTIES FailsOnlyOnTheUninformed
VIEW RotationView
SYMMETRY TwoAlike
