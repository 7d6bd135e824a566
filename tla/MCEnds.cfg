SPECIFICATION EndsSpec
CONSTANTS
    cm4 = cm4
    cm7 = cm7
    n0 = n0
    Cores <- MCCores
    Start <- MCBothHandshake
    WaitLooks = 3
    MaxFaults = 2
    MaxRestarts = 3
    None = None
PROPERTIES MasterIsHeardAgain EveryStartEnds UpdatesFinish MailboxNeverJams
CHECK_DEADLOCK FALSE
