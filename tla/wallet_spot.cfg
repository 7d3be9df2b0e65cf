SPECIFICATION SpotSpec
CONSTANTS
  btc = btc
  Pairs <- MCPairs
  Quote = usdt
  Prices <- MCPrices
  Sizes <- MCSizes
  Candles <- MCCandles
  Asks <- MCAsks
  InitialQuote = 2
  InitialAsset = 1
  MaxOrders = 3
  MaxIds = 9
  MaxDebt = 0
  Interleaved = FALSE
INVARIANTS LocksBackOrders BooksBalance NoOverdraft
PROPERTIES OrderBookRefined
