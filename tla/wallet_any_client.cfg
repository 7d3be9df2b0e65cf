SPECIFICATION Spec
CONSTANTS
  btc = btc
  Pairs <- MCPairs
  Quote = usdt
  Prices <- MCPrices
  Sizes <- MCSizes
  Candles <- MCCandles
  Asks <- MCAsks
  InitialQuote = 2
  InitialAsset = 1
  MaxOrders = 2
  MaxIds = 9
  MaxDebt = 0
  Interleaved = FALSE
INVARIANTS TypeOK SellGroupsExclusive
PROPERTIES OrdersSurvive LocksMoveFunds MarketFillsMakeNoMoney
