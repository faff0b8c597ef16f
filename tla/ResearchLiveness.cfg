SPECIFICATION FairSpec
CONSTANTS
    Networks = {FALSE}
    Sessions = {TRUE}
    Retained = 64
    MaxDay = 1
    MaxNetDay = 1
    MaxPrint = 1
    MaxProc = 4
    MaxFaults = 1
    None = None
CHECK_DEADLOCK FALSE
PROPERTIES
    EveryJobEnds
