SPECIFICATION TradingSpec
CONSTANTS
  btc = btc
  eth = eth
  Pairs <- MCOnePair
  Quote = usdt
  Prices <- MCPrices
  Sizes <- MCSizes
  Candles <- MCCandles
  Asks = {4}
  InitialQuote = 12
  InitialAsset = 0
  MaxOrders = 7
  MaxIds = 20
  MaxDebt = 40
  Interleaved = FALSE
  Strategies <- MCMACD
  HighFrequency <- MCNone
  Reserve = 3
  MinQuote = 4
  Schedule <- MCSchedule
  AnalysisInterval = 2
  Percents <- MCPercents
  ExitBars = 2
  InitialRisk = 4
  MaxRisk = 6
  RiskScale = 10
  LossPenalty = 1
  StopDistances <- MCDistances
  ProfitTarget = 1
  TrailingStart = 1
  MaxPositions = 1
  MaxTradesPerDay = 1
  Size = 50
  WinIncrease = 20
  MaxFactor = 150
  LossReduction = 20
  MinFactor = 50
  MaxRiskPercent = 20
INVARIANTS ExitCancelsOCO
CHECK_DEADLOCK FALSE
