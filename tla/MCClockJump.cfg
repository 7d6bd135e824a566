CONSTANTS
    cm4 = cm4
    cm7 = cm7
    Cores <- MCCores
    Start <- MCOnlyCm4
    WaitLooks = 3
    MaxFaults = 2
    MaxRestarts = 0
    None = None
SPECIFICATION Spec
PROPERTIES ClockStaysUnderARunningCore
CHECK_DEADLOCK FALSE
