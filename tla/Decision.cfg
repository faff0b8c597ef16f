SPECIFICATION Spec
CONSTANTS
  None = None
  Stocks = {s1}
  MaxAttempts = 2
  MaxDay = 2
  MaxChanges = 1
  MaxUpsets = 2
  Prices = {96, 100}
  Scores = {"ready"}
  SessionLength = 2
  StaleAfter = 1
  RiskAge = 1
  MaxTime = 3
  MaxEvents = 2
  Handlers = {h1, h2}
  Reports = {r1}
  Models = {m1}
  MaxTokens = 3
  MaxFaults = 1
  Symbols = {a, b}
  Halts = {3, 8}
  MaxHalts = 2
  Reaches = {13, 14}
  Horizon = 1
  TrainSessions = 2
  ValidationSessions = 1
  EmbargoSessions = 1
  TestSessions = 2
  MinimumWindows = 3
  MinimumSessions = 13
INVARIANTS
  NoFabricatedSuccess
  OneBundle
  CompletedCovers
  JudgedTogether
  ConfirmedOnce
  OutOfSample
PROPERTIES
  HoldingsCovered
CHECK_DEADLOCK FALSE
