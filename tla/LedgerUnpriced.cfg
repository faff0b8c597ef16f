SPECIFICATION FairSpec
CONSTANTS
    p1 = p1
    p2 = p2
    Workers = {w1}
    Preds <- MCPreds
    AsOf <- SameDay
    Horizon = 1
    Unpriced = {p2}
    MaxDay = 2
    MaxFaults = 0
    None = None
CHECK_DEADLOCK FALSE
PROPERTIES
    DueSettled
