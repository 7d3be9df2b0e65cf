--------------------------- MODULE MCOrderUpdates ---------------------------
(***************************************************************************)
(* Bounds for TLC: one order and a later update of it, another order older *)
(* than any candle, and a period that is preloaded, corrected, finished    *)
(* again and followed by the next.                                         *)
(***************************************************************************)
EXTENDS OrderUpdates

CONSTANTS tab, phone

MCUpdates == <<[id |-> 1, at |-> 1], [id |-> 2, at |-> 0], [id |-> 1, at |-> 2]>>
MCStream  == <<[time |-> 1, complete |-> TRUE], [time |-> 1, complete |-> FALSE],
               [time |-> 1, complete |-> TRUE], [time |-> 2, complete |-> TRUE]>>

Scenario(w, k, u, browsers) ==
  [preloaded |-> w, candles |-> k, updates |-> u, browsers |-> browsers]

\* Two browsers around the pair's first candle, or a correction of it; three
\* updates that fill the feed's channel; all the candles.
MCScenarios ==
  {Scenario(0, 1, 1, {tab, phone}), Scenario(1, 2, 1, {tab, phone}),
   Scenario(1, 2, 3, {tab}), Scenario(1, 4, 1, {tab})}
=============================================================================
