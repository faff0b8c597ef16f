SPECIFICATION RealtimeSpec
CONSTANTS
  None = None
  Symbols = {a}
  Monitored = {{a}}
  StaleAfter = 1
  Interval = 2
  MaxTime = 3
  MaxChanges = 0
PROPERTIES
  GoodEarned
CHECK_DEADLOCK FALSE
