--------------------------- MODULE MCTradeHistory ---------------------------
(* Bounds for TLC: three prices and quantities up to four lots. *)
EXTENDS TradeHistory
MCPrices == 1 .. 3
MCQuantities == 1 .. 4
=============================================================================
