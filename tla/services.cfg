SPECIFICATION ServicesSpec
CONSTANTS
  MaxMessages = 4
  BatchSize = 2
  MaxAttempts = 2
  StreamLen = 3
  BusFaults = 2
  BusStops = 2
  Callers = {a, b, c}
  FailureThreshold = 2
  SuccessThreshold = 2
  RecoveryTimeout = 2
  ServiceFailures = 5
  Submitters = {a, b}
  MaxCalls = 2
  Window = 2
  LimiterFaults = 2
  MaxCounter = 4
  MaxBar = 6
  MaxBuffer = 4
  PollLimit = 3
  FillSlack = 1
  FeedFaults = 2
  SinceIsEnd = FALSE
  Markets = {m1, m2, m3}
  Curated = {m1}
  HasBinance = TRUE
  MaxListings = 2
  MarketFaults = 2
  EntryPrice = 10
  Prices = {8, 13}
  Proposed = {8, 11}
  StopTicks = 2
  TargetTicks = 3
  CostTicks = 2
  Holding = 1
  Cutover = 1
  LastTick = 2
  Openings = 1
  WriteFaults = 1
  OrderFaults = 1
  Restarts = 1
  Entries = {x, y}
  WorkerRuns = 2
  WorkerFaults = 1
  HealthTtl = 3
  HealthFaults = 2
  HealthEvents = 3
  Symbols = {s1, s2}
  Most = 2
  MaxMoves = 3
  MaxReports = 2
PROPERTIES  ProtectionContract BusContract GuardsContract FeedsContract
CHECK_DEADLOCK FALSE
