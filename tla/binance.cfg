SPECIFICATION BinanceSpec
CONSTANTS
  MinQuantity = 3
  MaxQuantity = 9
  StepSize = 3
  Quantities <- MCQuantities
  Prices = {2}
  Holding = 8
  MaxOrders = 3
INVARIANTS  HistoryIsExecuted FilterNeverRejects
