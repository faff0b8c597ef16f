SPECIFICATION Spec
CONSTANTS
  None = None
  MaxUpsets = 1
  Symbols = {1, 2}
  Limit = 1
  Span = 2
  Horizon = 4
  Histories = {{1, 2, 3, 4}, {2, 3, 4}, {2, 4}, {1}}
  Apps = {a1, a2}
  Crews = {{a1}, {a1, a2}}
  Conns = {cloud}
  Limits = {1, 2}
  Price = 1
  Excess = 1
  Daily = 2
  PerTask = 1
  MaxRequests = 2
  MaxTasks = 1
  MaxKeys = 1
  MaxDay = 2
INVARIANTS
  NoHole
  CancelBinds
PROPERTIES
  LivelyAdvance
  TaskEnds
CHECK_DEADLOCK FALSE
