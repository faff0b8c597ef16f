SPECIFICATION Spec
CONSTANTS
    Networks = {TRUE}
    Sessions = {FALSE}
    Retained = 64
    MaxDay = 1
    MaxNetDay = 1
    MaxPrint = 2
    MaxProc = 3
    MaxFaults = 0
    None = None
CHECK_DEADLOCK FALSE
PROPERTIES
    TickRegistersPrint
