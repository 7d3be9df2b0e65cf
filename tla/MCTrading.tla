------------------------------ MODULE MCTrading -----------------------------
(* Bounds for TLC: two pairs of which one trades at a single price. *)
EXTENDS Trading

CONSTANTS btc, eth

MCPairs    == {btc, eth}
MCOnePair  == {btc}
MCPrices   == {1, 2, 3, 4, 5}
MCNone     == {}
MCSizes    == {1}
MCDistances == {1}
MCSchedule == << [side |-> Buy, size |-> 2], [side |-> Sell, size |-> 1] >>
MCAll      == {"turtle", "ema_cross", "oco_sell", "ema_macd", "chatgpt", "trailing", "telegram",
               "scheduled", "larry", "macd_divergence", "triple_ema", "adaptive",
               "breakout", "trend"}
MCPercents == {50}
MCTrailing == {"trailing"}
MCMACD     == {"macd_divergence"}

CandleOf(p, low, shut, high, complete) ==
  [pair |-> p, close |-> shut, high |-> high, low |-> low, complete |-> complete]

MCCandles == {CandleOf(btc, 2, 2, 2, TRUE), CandleOf(btc, 2, 3, 4, TRUE),
              CandleOf(btc, 2, 2, 2, FALSE), CandleOf(btc, 4, 4, 4, TRUE),
              CandleOf(btc, 1, 2, 3, TRUE)}
MCTwoPairCandles == MCCandles \cup {CandleOf(eth, 2, 3, 3, TRUE)}
=============================================================================
