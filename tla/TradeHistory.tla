---------------------------- MODULE TradeHistory ----------------------------
(***************************************************************************)
(* One pair of the order controller through a sequence of executed orders: *)
(* processTrade, updatePosition and recordTradeResult, one after another.  *)
(***************************************************************************)
EXTENDS Position

CONSTANTS
  Prices,     \* execution and stop prices
  Quantities, \* quantities of the executed orders
  MaxQty      \* bound: the largest position held

ASSUME TradeAssumption ==
  /\ Prices \subseteq Nat \ {0}
  /\ Quantities \subseteq Nat \ {0}
  /\ MaxQty \in Nat

Fills == [side : Sides, price : Prices, stop : Prices \cup {None}, qty : Quantities]

Lists == {"WinLong", "WinShort", "LoseLong", "LoseShort"}

VARIABLES
  position,  \* the controller's position of the pair
  before,    \* the position the last order found
  last,      \* the last executed order
  results    \* what the last order added to each list of the TradeSummary

vars == <<position, before, last, results>>

NoFill == [side |-> Buy, price |-> 0, stop |-> None, qty |-> 0]

NoResults == [l \in Lists |-> {}]

Init ==
  /\ position = NoPosition /\ before = NoPosition
  /\ last = NoFill
  /\ results = NoResults

\* recordTradeResult
ListOf(trade) ==
  CASE trade.won  /\ trade.side = Buy  -> "WinLong"
    [] trade.won  /\ trade.side = Sell -> "WinShort"
    [] ~trade.won /\ trade.side = Buy  -> "LoseLong"
    [] ~trade.won /\ trade.side = Sell -> "LoseShort"

ProcessTrade(o) ==
  /\ before' = position
  /\ last' = o
  /\ position' = AfterOrder(position, o)
  /\ results' = IF HasTrade(position, o)
                THEN LET trade == TradeResult(position, o)
                     IN  [NoResults EXCEPT ![ListOf(trade)] = {trade.value}]
                ELSE NoResults

Next == \E o \in Fills : ProcessTrade(o) /\ position'.qty <= MaxQty

Spec == Init /\ [][Next]_vars

-----------------------------------------------------------------------------
(* Properties *)

\* The position is the sum of the executed orders: it is extended, reduced,
\* closed and reversed by exactly their quantities.
PositionNets == Net(position) = Net(before) + Signed(last.side, last.qty)


\* What a trade made on the quantity it closed, for a long or a short.
Gain == MinQty(before.qty, last.qty)
          * (IF before.side = Buy THEN EffectivePrice(last) - before.avg
                                  ELSE before.avg - EffectivePrice(last))

ClosedAtOnce == Closes(before, last) \/ (Reduces(before, last) /\ 2 * last.qty <= before.qty)

\* Selling a long position whole, or at most half of it, books the gain on the
\* quantity sold, as a win or a loss of a long trade.
LongCloseBooksGain ==
  before # NoPosition /\ before.side = Buy /\ ClosedAtOnce
    => results = [NoResults EXCEPT ![IF Gain >= 0 THEN "WinLong" ELSE "LoseLong"] = {Gain}]

=============================================================================
