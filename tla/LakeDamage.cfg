SPECIFICATION LakeSpec
CONSTANTS
  None = None
  Stocks = {a, b}
  Index = i
  Halted = {}
  HaltDay = 3
  MaxSession = 4
  Lookback = 2
  MinRows = 2
  MinStocks = 1
  Holdings = {{}}
  MaxDamages = 1
  MaxEnds = 1
CHECK_DEADLOCK FALSE
PROPERTIES
  DamageRepaired
