\* One board with a stop loop; frames are lost, repeated and garbled, the board restarts
\* or goes bus-off: one fault, at any point.
SPECIFICATION Spec
CONSTANTS
    n0 = n0
    n1 = n1
    Slots = {n0}
    Fitted = {n0}
    Masks <- AllBoards
    SeqMod = 16
    EpochMod = 3
    AliveTimeout = 3
    TripRepeat = 1
    AlivePeriod = 1
    ReleaseRepeat = 1
    AckTimeout = 3
    Axes = {}
    Category1 = {}
    RampMax = 0
    TripDebounce = 0
    ClearDebounce = 1
    StateHeartbeat = 2
    QueueDepth = 3
    BrainDepth = 8
    BootTime = 6
    FaultKinds = {"loss", "repeat", "noise", "busoff", "restart"}
    MaxFaults = 1
    MaxAsks = 1
INVARIANTS ReleasedOnRequest LoopKeepsTheStackStopped
PROPERTIES Implements
VIEW RotationView
