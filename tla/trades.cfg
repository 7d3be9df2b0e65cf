SPECIFICATION Spec
CONSTANTS
  Prices <- MCPrices
  Quantities <- MCQuantities
  MaxQty = 6
INVARIANTS PositionNets LongCloseBooksGain
