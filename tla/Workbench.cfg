SPECIFICATION Spec
CONSTANTS
  None = None
  MaxUpsets = 1
  Keys = {k1}
  Versions = {v1, v2}
  Contents = {c1, c2}
  MaxFile = 2
  MaxBytes = 9
  MaxReplaces = 2
  Apps = {a1, a2}
  Crews = {{a1}, {a1, a2}}
  Conns = {cloud}
  Limits = {1, 2}
  Price = 1
  Excess = 1
  Daily = 2
  PerTask = 1
  MaxRequests = 1
  MaxTasks = 2
  MaxKeys = 2
  Watched = {{a}, {a, b}}
  StaleAfter = 1
  Interval = 2
  MaxTime = 3
  MaxChanges = 1
  MaxDay = 2
  MaxPreviews = 2
  MaxNews = 3
  MaxOwed = 1
  MaxFaults = 1
  Symbols = {1}
  Pages = 2
  Workers = {w1, w2}
  Preds = {p1, p2}
  MaxCuts = 2
  Stocks = {s1, s2}
  Steady = {s1}
  Index = index
  MaxSession = 4
  Bundles = {b1, b2}
  MaxArtifacts = 3
  MaxFrozen = 2
  Names = {export}
  Blank = Blank
  Unreadable = Unreadable
  Damaged = Damaged
  MaxWrites = 2
INVARIANTS
  OnlyJoinedLinesBreak
  OneInputPerDay
  ContestKept
  GivenStaysReadable
  NothingUnmarked
  ChargesCovered
  AnsweredIsKept
  FileReplays
  HoldingsAssessed
  ImportsAreTheirSource
PROPERTIES
  HistoryKept
  PublishedWhole
  StoreIsLog
  LimitsHold
  CallsVerified
  HandedForward
  AdverseStays
CHECK_DEADLOCK FALSE
