SPECIFICATION Spec
CONSTANTS
    Networks = {TRUE, FALSE}
    Sessions = {FALSE}
    Retained = 64
    MaxDay = 2
    MaxNetDay = 1
    MaxPrint = 1
    MaxProc = 2
    MaxFaults = 1
    None = None
CHECK_DEADLOCK FALSE
PROPERTIES
    SuccessIsOwn
    EndedNotReplayed
