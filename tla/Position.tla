------------------------------ MODULE Position ------------------------------
(***************************************************************************)
(* The position a pair holds, as order/position.go and updatePosition of   *)
(* order/controller.go maintain it from one executed order after another.  *)
(* Average prices are truncated to a tick, the one inexact operation.      *)
(***************************************************************************)
EXTENDS Integers, CoreOrder

\* No entry for the pair in the controller's position map.
NoPosition == [side |-> Buy, qty |-> 0, avg |-> 0]

Signed(side, qty) == IF side = Buy THEN qty ELSE -qty

\* The quantity held, negative for a short position.
Net(pos) == Signed(pos.side, pos.qty)

MinQty(a, b) == IF a <= b THEN a ELSE b

\* Stop orders execute at their stop price.
EffectivePrice(o) == IF o.stop # None THEN o.stop ELSE o.price

\* calculateWeightedAverage
WeightedAverage(price1, qty1, price2, qty2) ==
  (price1 * qty1 + price2 * qty2) \div (qty1 + qty2)

Extends(pos, o)  == pos.side = o.side
Closes(pos, o)   == pos.side # o.side /\ pos.qty = o.qty
Reduces(pos, o)  == pos.side # o.side /\ pos.qty > o.qty
Reverses(pos, o) == pos.side # o.side /\ pos.qty < o.qty

\* BUG: a reversed position keeps the whole quantity of the order.
UpdatedWhole(pos, o) ==
  CASE Extends(pos, o)  ->
         [side |-> pos.side, qty |-> pos.qty + o.qty,
          avg  |-> WeightedAverage(pos.avg, pos.qty, EffectivePrice(o), o.qty)]
    [] Closes(pos, o)   -> pos
    [] Reduces(pos, o)  -> [pos EXCEPT !.qty = @ - o.qty]
    [] Reverses(pos, o) -> [side |-> o.side, qty |-> o.qty, avg |-> EffectivePrice(o)]

\* Position.Update: what the call leaves in the position's fields.  A position
\* that is closed keeps them (the caller drops it).
Updated(pos, o) ==
  CASE Extends(pos, o)  ->
         [side |-> pos.side, qty |-> pos.qty + o.qty,
          avg  |-> WeightedAverage(pos.avg, pos.qty, EffectivePrice(o), o.qty)]
    [] Closes(pos, o)   -> pos
    [] Reduces(pos, o)  -> [pos EXCEPT !.qty = @ - o.qty]
    [] Reverses(pos, o) ->
         [side |-> o.side, qty |-> o.qty - pos.qty, avg |-> EffectivePrice(o)]

\* BUG: a stop order's limit price is taken for its execution price.
TradeResultAtLimit(pos, o) ==
  LET now == Updated(pos, o) IN
  [side  |-> now.side,
   value |-> (o.price - now.avg) * MinQty(now.qty, o.qty),
   won   |-> o.price >= now.avg]

\* The trade result is worked out from the fields as they are by then.
TradeResult(pos, o) ==
  LET now == Updated(pos, o) IN
  [side  |-> now.side,
   value |-> (EffectivePrice(o) - now.avg) * MinQty(now.qty, o.qty),
   won   |-> EffectivePrice(o) >= now.avg]

\* updatePosition: the first order opens the position at its plain price.
AfterOrder(pos, o) ==
  IF pos = NoPosition THEN [side |-> o.side, qty |-> o.qty, avg |-> o.price]
  ELSE IF Closes(pos, o) THEN NoPosition
  ELSE Updated(pos, o)

HasTrade(pos, o) == pos # NoPosition /\ ~Extends(pos, o)
=============================================================================
