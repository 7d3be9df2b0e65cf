SPECIFICATION Spec
CONSTANTS
  btc = btc
  Pairs <- MCPairs
  Prices <- MCOnePrice
  Quantities <- MCQuantities
  Databases <- MCDatabases
  StoreFails = TRUE
  MaxOrders = 2
  MaxRestarts = 1
INVARIANTS StoreFollowsExchange  OutcomesPublished
PROPERTIES StoredOrdersSurvive
