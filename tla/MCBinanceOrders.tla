-------------------------- MODULE MCBinanceOrders --------------------------
(* Model checking of BinanceOrders: a lot of three units, bounds of one    *)
(* and three lots, quantities beyond both bounds and between two lots.     *)
EXTENDS BinanceOrders

MCQuantities == {2, 4, 8, 11}
=============================================================================
