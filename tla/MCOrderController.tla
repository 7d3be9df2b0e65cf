------------------------- MODULE MCOrderController -------------------------
(* Bounds for TLC: one pair and two or three orders. *)
EXTENDS OrderController

CONSTANT btc

MCPairs      == {btc}
MCPrices     == {1, 2}
MCOnePrice   == {1}
MCQuantities == {1, 2}
MCOneLot     == {1}
MCDatabases  == {"buntdb", "sql"}
MCBunt       == {"buntdb"}
=============================================================================
