SPECIFICATION Spec
CONSTANTS
    p1 = p1
    p2 = p2
    Workers = {w1}
    Preds <- MCPreds
    AsOf <- NextDays
    Horizon = 1
    Unpriced = {}
    MaxDay = 2
    MaxFaults = 2
    None = None
CHECK_DEADLOCK FALSE
INVARIANTS
    Durable
