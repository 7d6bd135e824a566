SPECIFICATION UpdateSpec
CONSTANTS
    Releases <- History
    Factory = "factory"
    Page = 1
    Slot = 2
    ThisHw = 1
    Chunks = 1
    NoKey = "none"
    EraseFirst = FALSE
    MayLose = FALSE
    Starts <- HistoryStarts
    Again = {}
    Tokens <- OldToken
    MaxSessions = 2
    MaxCuts = 2
    MaxFaults = 0
INVARIANTS StartsOnlyWholeSigned ACutNeverStrandsTheBoard OkMeansInstalled
PROPERTIES FloorNeverFalls VersionOnlyForward CopiesOnlyTheVerified
CHECK_DEADLOCK FALSE
