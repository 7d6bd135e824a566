SPECIFICATION PartsSpec
CONSTANTS
    v3 = v3
    a = a
    b = b
    b1 = b1
    b2 = b2
    k1 = k1
    k2 = k2
    Slots = 2
    States = {v1, v2}
    NoState = NoState
    NoWrite = NoWrite
    MaxGeneration = 6
    NoFrame = NoFrame
    Nothing = Nothing
    None = None
    NoKey = NoKey
    cm4 = cm4
    cm7 = cm7
    MaxAttempts = 3
    MaxEvents = 4
    MaxWriteFaults = 0
    LookPeriod = 5
    Reload = 10
    MaxPass = 4
    MaxSetUp = 4
    CountMod = 8
    Frames = 3
    Timed = TRUE
    Closes = TRUE
    MaxFailures = 3
    MaxResets = 2
    Boards <- TwoBoards
    DelayOf <- DelaysApart
    Steps = 4
    Poll = 1
    Window = 6
    ScanIds = 3
    Period = 3
    SeqMod = 4
    TickMod = 16
    Cores <- BothCores
    Start <- BothHandshake
    WaitLooks = 3
    MaxFaults = 2
    MaxRestarts = 3
INVARIANTS DriverKeepsCount OneCoreSetsUp TimersSurviveTheWrap LikeTheReference
PROPERTIES RelayKeepsWholeFramesInOrder EarlierStartsAreOver FlashKeepsItsWord ImplementsRegister
CHECK_DEADLOCK FALSE
