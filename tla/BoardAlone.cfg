\* One board, a loop, one axis of each category, every frame in every order.
SPECIFICATION Spec
CONSTANTS
    SeqMod = 4
    EpochMod = 2
    AliveTimeout = 2
    Axes = {a0, a1}
    Category1 = {a1}
    RampMax = 2
    TripDebounce = 1
    ClearDebounce = 2
    StateHeartbeat = 2
    Fitted = TRUE
INVARIANTS LoopHoldsTheStop ReadyIsEarned SilenceLatches OutputsAreCut ChangeIsReported
PROPERTIES CategoryOneRampsDown DebounceIsExact
