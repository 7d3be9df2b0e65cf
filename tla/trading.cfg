SPECIFICATION TradingSpec
CONSTANTS
  btc = btc
  eth = eth
  Pairs <- MCPairs
  Quote = usdt
  Prices <- MCPrices
  Sizes <- MCSizes
  Candles <- MCTwoPairCandles
  Asks = {4}
  InitialQuote = 12
  InitialAsset = 0
  MaxOrders = 7
  MaxIds = 20
  MaxDebt = 40
  Interleaved = FALSE
  Strategies <- MCAll
  HighFrequency <- MCTrailing
  Reserve = 3
  MinQuote = 4
  Schedule <- MCSchedule
  AnalysisInterval = 2
  Percents <- MCPercents
  ExitBars = 2
  InitialRisk = 4
  MaxRisk = 6
  RiskScale = 10
  LossPenalty = 1
  StopDistances <- MCDistances
  ProfitTarget = 1
  TrailingStart = 1
  MaxPositions = 1
  MaxTradesPerDay = 1
  Size = 50
  WinIncrease = 20
  MaxFactor = 150
  LossReduction = 20
  MinFactor = 50
  MaxRiskPercent = 20
INVARIANTS NeverShort HoldingIsProtected HoldsAtMostExitBars DailyLimit ScheduledOnce
PROPERTIES ExecutedStaysExecuted RiskLimited
CHECK_DEADLOCK FALSE
