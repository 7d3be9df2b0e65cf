------------------------- MODULE TradeHistoryProofs -------------------------
(***************************************************************************)
(* The position a pair holds after any executed orders, and the result     *)
(* that is booked when a long position is sold.                            *)
(***************************************************************************)
EXTENDS TradeHistory, BookkeepingTheorems

\* An executed order is what Position.Update may be given.
LEMMA FillsAreFills == \A o \in Fills : IsFill(o)
<1>1. ASSUME NEW o \in Fills PROVE IsFill(o)
  <2>1. o.side \in Sides /\ o.price \in Prices /\ o.stop \in Prices \cup {None} /\ o.qty \in Quantities
    BY DEF Fills
  <2>2. (\A x \in Prices : x \in Nat) /\ (\A x \in Quantities : x \in Nat \ {0})
    BY TradeAssumption
  <2>3. o.stop \in Nat
    BY <2>1, <2>2 DEF None
  <2>. QED  BY <2>1, <2>2, <2>3 DEF IsFill
<1>. QED  BY <1>1

-----------------------------------------------------------------------------
(* The quantity held *)

NetInv == position \in Positions /\ PositionNets

\* For all prices and quantities and every sequence of executed orders, the
\* position moves by exactly the quantity of each: updatePosition opens it,
\* Position.Update extends, reduces, closes or reverses it, and no quantity is
\* lost where one case meets the next.
THEOREM PositionIsNet == Spec => []PositionNets
<1>1. Init => NetInv
  BY DEF Init, NetInv, Positions, PositionNets, NoPosition, NoFill, Sides, Net, Signed
<1>2. NetInv /\ [Next]_vars => NetInv'
  <2>1. ASSUME NetInv, NEW o \in Fills, ProcessTrade(o)
        PROVE  NetInv'
    <3>1. position \in Positions
      BY <2>1 DEF NetInv
    <3>2. position' = AfterOrder(position, o) /\ before' = position /\ last' = o
      BY <2>1 DEF ProcessTrade
    <3>3. /\ position' \in Positions
          /\ Net(position') = Net(before') + Signed(last'.side, last'.qty)
      BY <3>1, <3>2, FillsAreFills, OrderNets
    <3>. QED  BY <3>3 DEF NetInv, PositionNets
  <2>2. ASSUME NetInv, UNCHANGED vars
        PROVE  NetInv'
    BY <2>2 DEF NetInv, vars, PositionNets
  <2>. QED  BY <2>1, <2>2 DEF Next
<1>3. NetInv => PositionNets
  BY DEF NetInv
<1>. QED  BY <1>1, <1>2, <1>3, PTL DEF Spec

-----------------------------------------------------------------------------
(* The gain on a long position that is sold *)

\* A position is never kept with nothing in it.
Held(pos) == pos \in Positions /\ (pos # NoPosition => pos.qty > 0)

\* What recordTradeResult adds for an order that meets a position.
Booked(pos, o) == [NoResults EXCEPT ![ListOf(TradeResult(pos, o))] = {TradeResult(pos, o).value}]

\* The lists hold what the last order made of the position it found.
ResultsInv ==
  /\ Held(position) /\ Held(before)
  /\ before # NoPosition =>
       /\ last \in Fills
       /\ HasTrade(before, last) => results = Booked(before, last)

LEMMA HeldAfterOrder ==
  ASSUME NEW pos, Held(pos), NEW o, IsFill(o)
  PROVE  Held(AfterOrder(pos, o))
<1>1. AfterOrder(pos, o) \in Positions
  BY OrderNets DEF Held
<1>2. /\ pos.side \in Sides /\ pos.qty \in Nat /\ pos.avg \in Nat
      /\ o.side \in Sides /\ o.qty \in Nat \ {0}
      /\ pos # NoPosition => pos.qty > 0
  BY DEF Held, Positions, IsFill
<1>3. CASE pos = NoPosition
  BY <1>1, <1>2, <1>3 DEF AfterOrder, Held
<1>4. CASE pos # NoPosition /\ Extends(pos, o)
  <2>1. AfterOrder(pos, o).qty = pos.qty + o.qty
    BY <1>2, <1>4 DEF AfterOrder, Updated, Extends, Closes, Reduces, Reverses
  <2>. QED  BY <1>1, <1>2, <2>1 DEF Held
<1>5. CASE pos # NoPosition /\ Closes(pos, o)
  BY <1>1, <1>5 DEF AfterOrder, Held
<1>6. CASE pos # NoPosition /\ Reduces(pos, o)
  <2>1. AfterOrder(pos, o) = [pos EXCEPT !.qty = pos.qty - o.qty]
    BY <1>2, <1>6 DEF AfterOrder, Updated, Extends, Closes, Reduces, Reverses
  <2>2. AfterOrder(pos, o).qty = pos.qty - o.qty
    BY <2>1 DEF Held, Positions
  <2>3. pos.qty - o.qty > 0
    BY <1>2, <1>6 DEF Reduces
  <2>. QED  BY <1>1, <2>2, <2>3 DEF Held
<1>7. CASE pos # NoPosition /\ Reverses(pos, o)
  <2>1. AfterOrder(pos, o).qty = o.qty - pos.qty
    BY <1>2, <1>7 DEF AfterOrder, Updated, Extends, Closes, Reduces, Reverses
  <2>2. o.qty - pos.qty > 0
    BY <1>2, <1>7 DEF Reverses
  <2>. QED  BY <1>1, <2>1, <2>2 DEF Held
<1>. QED  BY <1>2, <1>3, <1>4, <1>5, <1>6, <1>7 DEF Extends, Closes, Reduces, Reverses

\* A product with a positive factor has the sign of the other.
LEMMA SignOfProduct ==
  ASSUME NEW n \in Nat \ {0}, NEW x \in Int
  PROVE  (n * x >= 0) <=> (x >= 0)
BY SMT

\* Closed at once, a long position books its gain: what Update leaves in the
\* fields still has the side and the average price, and at least as much as
\* the order sold.
LEMMA LongGain ==
  ASSUME NEW pos, Held(pos), pos # NoPosition, pos.side = Buy, NEW o, IsFill(o),
         Closes(pos, o) \/ (Reduces(pos, o) /\ 2 * o.qty <= pos.qty)
  PROVE  LET gain == MinQty(pos.qty, o.qty) * (EffectivePrice(o) - pos.avg)
         IN  /\ HasTrade(pos, o)
             /\ Booked(pos, o) = [NoResults EXCEPT ![IF gain >= 0 THEN "WinLong" ELSE "LoseLong"] = {gain}]
<1> DEFINE now == Updated(pos, o)
           price == EffectivePrice(o)
           result == TradeResult(pos, o)
           gain == o.qty * (price - pos.avg)
<1>1. /\ pos.qty \in Nat /\ pos.avg \in Nat /\ pos.qty > 0
      /\ o.qty \in Nat \ {0} /\ price \in Nat
  BY DEF Held, Positions, IsFill, EffectivePrice
<1>2. MinQty(pos.qty, o.qty) = o.qty
  BY <1>1 DEF MinQty, Closes, Reduces
<1>3. now.side = Buy /\ now.avg = pos.avg /\ MinQty(now.qty, o.qty) = o.qty
  <2>1. CASE Closes(pos, o)
    <3>1. now = pos
      BY <1>1, <2>1 DEF Updated, Extends, Closes, Reduces, Reverses
    <3>. QED  BY <1>1, <2>1, <3>1 DEF MinQty, Closes
  <2>2. CASE Reduces(pos, o) /\ 2 * o.qty <= pos.qty
    <3>1. now = [pos EXCEPT !.qty = pos.qty - o.qty]
      BY <1>1, <2>2 DEF Updated, Extends, Closes, Reduces, Reverses
    <3>2. now.side = Buy /\ now.avg = pos.avg /\ now.qty = pos.qty - o.qty
      BY <3>1 DEF Held, Positions
    <3>3. o.qty <= pos.qty - o.qty
      BY <1>1, <2>2
    <3>4. MinQty(pos.qty - o.qty, o.qty) = o.qty
      BY <1>1, <3>3 DEF MinQty
    <3>. QED  BY <3>2, <3>4
  <2>. QED  BY <2>1, <2>2
<1>4. price - pos.avg \in Int /\ (price >= pos.avg <=> price - pos.avg >= 0)
  BY <1>1
<1>5. (price - pos.avg) * o.qty = gain /\ (gain >= 0 <=> price >= pos.avg)
  <2>1. \A x \in Int, n \in Nat : x * n = n * x
    BY SMT
  <2>. QED  BY <1>1, <1>4, <2>1, SignOfProduct
<1> HIDE DEF now, price, gain
<1>6. result = [side |-> now.side, value |-> (price - now.avg) * MinQty(now.qty, o.qty),
             won |-> price >= now.avg]
  BY DEF TradeResult, now, price
<1>7. result.side = Buy /\ result.value = gain /\ (result.won <=> gain >= 0)
  <2>1. result.side = Buy /\ result.value = (price - pos.avg) * o.qty
    BY <1>3, <1>6
  <2> DEFINE up == price >= now.avg
  <2> HIDE DEF up
  <2>2. result.won <=> up
    <3>1. result.won = up
      BY <1>6 DEF up
    <3>. QED  BY <3>1 DEF result, TradeResult, up
  <2>3. up <=> price >= pos.avg
    BY <1>3 DEF up
  <2>. QED  BY <1>5, <2>1, <2>2, <2>3
<1> HIDE DEF result
<1>8. ListOf(result) = IF gain >= 0 THEN "WinLong" ELSE "LoseLong"
  BY <1>7 DEF ListOf, Buy, Sell
<1>9. HasTrade(pos, o)
  BY DEF HasTrade, Closes, Reduces, Extends
<1>. QED  BY <1>2, <1>7, <1>8, <1>9 DEF Booked, result, gain, price

\* Whatever was bought and sold before, selling a long position whole, or at
\* most half of it, books the gain on the quantity sold at the price the order
\* executed at, among the long trades won or lost (Position.Update,
\* updatePosition and recordTradeResult).
THEOREM LongGainIsBooked == Spec => []LongCloseBooksGain
<1>1. Init => ResultsInv
  BY DEF Init, ResultsInv, Held, Positions, NoPosition, Sides
<1>2. ResultsInv /\ [Next]_vars => ResultsInv'
  <2>1. ASSUME ResultsInv, NEW o \in Fills, ProcessTrade(o)
        PROVE  ResultsInv'
    <3>1. /\ position' = AfterOrder(position, o) /\ before' = position /\ last' = o
          /\ HasTrade(position, o) => results' = Booked(position, o)
      BY <2>1 DEF ProcessTrade, Booked
    <3>2. Held(position)
      BY <2>1 DEF ResultsInv
    <3>3. Held(position')
      BY <3>1, <3>2, FillsAreFills, HeldAfterOrder
    <3>. QED  BY <3>1, <3>2, <3>3 DEF ResultsInv
  <2>2. ASSUME ResultsInv, UNCHANGED vars
        PROVE  ResultsInv'
    BY <2>2 DEF ResultsInv, vars
  <2>. QED  BY <2>1, <2>2 DEF Next
<1>3. ResultsInv => LongCloseBooksGain
  <2>1. SUFFICES ASSUME ResultsInv, before # NoPosition, before.side = Buy, ClosedAtOnce
                 PROVE  results = [NoResults EXCEPT ![IF Gain >= 0 THEN "WinLong" ELSE "LoseLong"] = {Gain}]
    BY DEF LongCloseBooksGain
  <2>2. Held(before) /\ IsFill(last) /\ (HasTrade(before, last) => results = Booked(before, last))
    BY <2>1, FillsAreFills DEF ResultsInv
  <2>3. Closes(before, last) \/ (Reduces(before, last) /\ 2 * last.qty <= before.qty)
    BY <2>1 DEF ClosedAtOnce
  <2>4. Gain = MinQty(before.qty, last.qty) * (EffectivePrice(last) - before.avg)
    BY <2>1 DEF Gain
  <2>. QED  BY <2>1, <2>2, <2>3, <2>4, LongGain
<1>. QED  BY <1>1, <1>2, <1>3, PTL DEF Spec
=============================================================================
