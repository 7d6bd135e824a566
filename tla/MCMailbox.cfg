SPECIFICATION MailboxSpec
CONSTANTS
    Releases <- OneUnit
    Factory = "old"
    Page = 2
    Slot = 4
    ThisHw = 7
    Chunks = 1
    NoKey = "none"
    EraseFirst = TRUE
    MayLose = TRUE
    Starts <- UnitStart
    Again = {}
    Tokens = {}
    MaxSessions = 7
    MaxCuts = 1
    MaxFaults = 0
    Script <- Client
    Sends <- Between
    MaxCommands = 6
    MaxDamage = 1
    Prompt = FALSE
INVARIANTS EveryCommandIsReadOnce VerifyOkIsInstalled
CHECK_DEADLOCK FALSE
