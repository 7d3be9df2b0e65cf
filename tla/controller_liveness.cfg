SPECIFICATION FairSpec
CONSTANTS
  btc = btc
  Pairs <- MCPairs
  Prices <- MCOnePrice
  Quantities <- MCOneLot
  Databases <- MCBunt
  StoreFails = FALSE
  MaxOrders = 2
  MaxRestarts = 0
INVARIANTS OrdersTracked
 
