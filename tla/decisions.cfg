SPECIFICATION DecisionsSpec
CONSTANTS
  Strategies = {s1, s3}
  GridOnes = {s3}
  GateFaults = 1
  GateStarts = 2
  GateRequests = 1
  Assets = {x1, x2}
  MaxEquity = 5
  StartEquity = 4
  MaxLeverage = 1
  MaxAssets = 2
  MaxOrder = 3
  PositionSize = 0
  PositionShare = 6
  ExposureShare = 9
  Drawdown = 4
  DailyLoss = 4
  Cooldown = 1
  RiskFaults = 1
  Requests = {r1, r2}
  Grids = {g1, g2}
  NoGrid = NoGrid
  Quantities = {3, 4}
  MaxHeld = 4
  StepSize = 2
  MinAmount = 3
  MaxOrders = 2
  MaxGrids = 1
  PositionCap = 4
  MaxLoss = 2
  MaxDailyLoss = 1
  Day = 1
  Duration = 1
  GateErrors = 1
  Markets = {m1}
  PerMarket = 1
  Size = 2
  Placements = 3
  OpenLimit = 1
  PionexFaults = 3
  Candidates = {s1, s2}
  Nobody = Nobody
  Batches = {b1, b2}
  MaxScore = 1
  ValidationRuns = 2
  ValidationFaults = 1
  ValidationStops = 1
  ParameterSets = {o1, o2}
  NoSet = NoSet
  LastBar = 5
  SplitBar = 2
  PageSize = 2
  Warmup = 1
  Quotes = {100, 200}
  Lots = {1}
  Capital = 400
  Slip = 10
  TakerFee = 10
  CapShare = 90
  StopDistance = 20
  MaxHolding = 2
  EnoughTrades = 1
  WalkSplits = 2
  WalkTrades = 1
  RuinTrades = 1
  GoTrades = 2
  BacktestFaults = 1
  Closes = {1, 2, 3}
  Wicks = {0, 1}
  Buffer = 4
  MaxBars = 5
  Unit = 288
  MinCandles = 3
  RsiPeriod = 2
  AdxPeriod = 2
  BandPeriod = 3
  Fast = 1
  Slow = 3
  SignalPeriod = 2
  AdxValues = {19, 22, 26}
  RsiValues = {33, 38, 62, 67}
  PositionValues = {3, 20, 80, 97}
  WidthValues = {30, 50}
  AtrValues = {20, 60}
  VolumeValues = {70, 140}
  ReturnSize = 30
  MaxEvents = 2
  Ranges = {3, 4}
  Multiplier = 3
  Count = 7
  Leverage = 2
  TakeTicks = 12
  StopTicks = 20
  HoldingBars = 2
  BreakoutShare = 50
  MakerRate = 40
  TakerRate = 80
  SlipRate = 50
  PaperSlip = 60
  FundingRate = 20
  FundingBars = 2
  SafetyMargin = 150
  GridCloses = {45, 81, 94, 101, 106, 155}
  GridWicks = {0, 3}
  WindowBars = 3
  OutBars = 2
  CyclesWanted = 2
INVARIANTS StrategyContract  GatesContract SymbolContract BacktestContract IndicatorsContract SignalsContract DesignContract
PROPERTIES PionexContract 
CHECK_DEADLOCK FALSE
