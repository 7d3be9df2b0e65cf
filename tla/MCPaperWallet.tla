--------------------------- MODULE MCPaperWallet ---------------------------
(* Bounds for TLC: one pair, two prices, two sizes and a few candle shapes. *)
EXTENDS PaperWallet

CONSTANT btc

MCPairs    == {btc}
MCPrices   == {1, 2}
MCNoPrices == {}            \* market orders only
MCSizes    == {1, 2}
MCAsks     == {2}

Candle(low, close, high, complete) ==
  [pair |-> btc, close |-> close, high |-> high, low |-> low, complete |-> complete]

MCCandles == {Candle(1, 1, 1, TRUE), Candle(2, 2, 2, TRUE), Candle(1, 1, 2, TRUE),
              Candle(1, 2, 2, FALSE)}
=============================================================================
