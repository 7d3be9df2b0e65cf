--------------------------- MODULE StopStrategies ---------------------------
(***************************************************************************)
(* The strategies that place a protective order after every entry and      *)
(* remember it: Larry Williams 9.1 and triple EMA with a stop order, MACD  *)
(* divergence with an OCO.  An exit cancels the remembered order and then  *)
(* sells the position.                                                     *)
(***************************************************************************)
EXTENDS StrategyCalls

CONSTANT ExitBars   \* Williams91Strategy.exitBars

ASSUME StopAssumption == ExitBars \in Nat \ {0}

VARIABLES
  activeOrders,     \* the remembered id of each pair, None without one
  barsSinceEntry,   \* Williams91Strategy.barsSinceEntry
  entryPrices,      \* TripleMAStrategy.entryPrices, 0 without one
  age               \* history: complete candles since the pair was bought

stopVars == <<activeOrders, barsSinceEntry, entryPrices, age>>

StopInit ==
  /\ activeOrders = [p \in Pairs |-> None]
  /\ barsSinceEntry = [p \in Pairs |-> 0]
  /\ entryPrices = [p \in Pairs |-> 0]
  /\ age = [p \in Pairs |-> 0]

Remember(id) == activeOrders' = [activeOrders EXCEPT ![pair] = id]

\* The exit's first half, shared by the three: cancel what is remembered.
CancelRemembered ==
  /\ CancelKnown(activeOrders[pair])
  /\ Remember(None)

-----------------------------------------------------------------------------
(* Larry Williams 9.1 *)

\* The counter after the candle in hand.
Bars == [barsSinceEntry EXCEPT ![pair] = IF AssetPosition > 0 THEN @ + 1 ELSE 0]

\* BUG: the position is held for one candle more.
ExitDueLate == Bars[pair] > ExitBars

ExitDue == Bars[pair] >= ExitBars

\* shouldEnter
LarryShouldEnter == AssetPosition = 0 /\ close > last.low

\* executeEntry, up to its stop order.
LarryEnters ==
  \/ Market(Buy, InLots(QuotePosition \div 2)) /\ Then("protect")
  \/ Refused(Buy, InLots(QuotePosition \div 2), close) /\ Then("idle")

LarryDecides ==
  /\ At("larry", "decide")
  /\ age' = [age EXCEPT ![pair] = IF AssetPosition > 0 THEN @ + 1 ELSE 0]
  /\ barsSinceEntry' = Bars
  /\ \/ /\ AssetPosition > 0 /\ ExitDue
        /\ UNCHANGED vars /\ Then("cancel")
     \/ LarryShouldEnter /\ LarryEnters
     \/ /\ AssetPosition <= 0 \/ ~ExitDue
        /\ UNCHANGED vars /\ Then("idle")
  /\ UNCHANGED <<activeOrders, entryPrices>>

LarryCancels ==
  /\ At("larry", "cancel")
  /\ CancelRemembered
  /\ Then("sell")
  /\ UNCHANGED <<barsSinceEntry, entryPrices, age>>

\* The counter starts over whether or not the sale succeeded.
LarrySells ==
  /\ At("larry", "sell")
  /\ MarketCall(Sell, AssetPosition)
  /\ barsSinceEntry' = [barsSinceEntry EXCEPT ![pair] = 0]
  /\ Then("idle")
  /\ UNCHANGED <<activeOrders, entryPrices, age>>

-----------------------------------------------------------------------------
(* MACD divergence *)

\* What the extremes of price and MACD, and their crossing, tell.
Divergences == {"bullish", "bearish", "none"}

\* executeBuy, up to its OCO order.
MACDBuys ==
  \/ Market(Buy, InLots(QuotePosition \div 2)) /\ Then("protect")
  \/ Refused(Buy, InLots(QuotePosition \div 2), close) /\ Then("idle")

\* Bound: a run is followed until the position has turned short.
MACDDecides ==
  /\ At("macd_divergence", "decide") /\ AssetPosition >= 0
  /\ \E divergence \in Divergences :
       CASE divergence = "bearish" /\ AssetPosition > 0 -> UNCHANGED vars /\ Then("cancel")
         [] divergence = "bullish" /\ AssetPosition = 0 -> MACDBuys
         [] OTHER -> UNCHANGED vars /\ Then("idle")
  /\ UNCHANGED stopVars

\* The remembered order is the first of the OCO the store returned.
MACDProtects ==
  /\ At("macd_divergence", "protect")
  /\ \/ /\ AssetPosition > 0
        /\ CreateOrderOCO(Sell, pair, AssetPosition, close + 1, close - 1, close - 1)
        /\ Remember(NewestId + 1)
     \/ Refused(Sell, AssetPosition, close + 1) /\ UNCHANGED activeOrders
  /\ Then("idle")
  /\ UNCHANGED <<barsSinceEntry, entryPrices, age>>

MACDCancels ==
  /\ At("macd_divergence", "cancel")
  /\ CancelRemembered
  /\ Then("sell")
  /\ UNCHANGED <<barsSinceEntry, entryPrices, age>>

MACDSells ==
  /\ At("macd_divergence", "sell")
  /\ MarketCall(Sell, AssetPosition)
  /\ Then("idle")
  /\ UNCHANGED stopVars

-----------------------------------------------------------------------------
(* Triple EMA *)

\* The target of the take profit lies a tick above the remembered entry.
TakeProfit == entryPrices[pair] > 0 /\ close > entryPrices[pair]

\* executeEntry, up to its stop order.
TripleEnters ==
  \/ /\ Market(Buy, InLots(QuotePosition \div 2))
     /\ entryPrices' = [entryPrices EXCEPT ![pair] = close]
     /\ Then("protect")
  \/ /\ Refused(Buy, InLots(QuotePosition \div 2), close)
     /\ Then("idle")
     /\ UNCHANGED entryPrices

TripleDecides ==
  /\ At("triple_ema", "decide")
  /\ \/ /\ AssetPosition > 0
        /\ UNCHANGED <<vars, entryPrices>> /\ Then("cancel")
     \/ AssetPosition <= 0 /\ TripleEnters
     \/ /\ AssetPosition <= 0 \/ ~TakeProfit
        /\ UNCHANGED <<vars, entryPrices>> /\ Then("idle")
  /\ UNCHANGED <<activeOrders, barsSinceEntry, age>>

\* An order that was executed in the meantime is not cancelled.
TripleCancels ==
  /\ At("triple_ema", "cancel")
  /\ \/ \E i \in Known(activeOrders[pair]) : orders[i].status # Filled /\ Cancel(i)
     \/ /\ \A i \in Known(activeOrders[pair]) : orders[i].status = Filled
        /\ UNCHANGED vars
  /\ Remember(None)
  /\ Then("sell")
  /\ UNCHANGED <<barsSinceEntry, entryPrices, age>>

\* The entry price is forgotten only with a sale that succeeded.
TripleSells ==
  /\ At("triple_ema", "sell")
  /\ \/ Market(Sell, AssetPosition) /\ entryPrices' = [entryPrices EXCEPT ![pair] = 0]
     \/ Refused(Sell, AssetPosition, close) /\ UNCHANGED entryPrices
  /\ Then("idle")
  /\ UNCHANGED <<activeOrders, barsSinceEntry, age>>

-----------------------------------------------------------------------------
(* Both stop strategies protect an entry alike *)

\* BUG: the stop covers half of the position.
PlaceHalfStop(stopPrice) ==
  /\ strategy \in {"larry", "triple_ema"} /\ step = "protect"
  /\ CreateOrderStop(pair, (AssetPosition + 1) \div 2, stopPrice)
  /\ Remember(NewestId + 1)
  /\ Then("idle")
  /\ UNCHANGED <<barsSinceEntry, entryPrices, age>>

\* BUG: the id of the purchase is remembered.
PlaceStopKeepsEntryId(stopPrice) ==
  /\ strategy \in {"larry", "triple_ema"} /\ step = "protect"
  /\ CreateOrderStop(pair, AssetPosition, stopPrice)
  /\ Remember(NewestId)
  /\ Then("idle")
  /\ UNCHANGED <<barsSinceEntry, entryPrices, age>>

\* A stop order of the whole position, remembered if the exchange accepts it.
PlaceStop(stopPrice) ==
  /\ strategy \in {"larry", "triple_ema"} /\ step = "protect"
  /\ \/ /\ AssetPosition > 0
        /\ CreateOrderStop(pair, AssetPosition, stopPrice)
        /\ Remember(NewestId + 1)
     \/ Refused(Sell, AssetPosition, stopPrice) /\ UNCHANGED activeOrders
  /\ Then("idle")
  /\ UNCHANGED <<barsSinceEntry, entryPrices, age>>

StopNext ==
  \/ LarryDecides \/ LarryCancels \/ LarrySells
  \/ MACDDecides \/ MACDProtects \/ MACDCancels \/ MACDSells
  \/ TripleDecides \/ TripleCancels \/ TripleSells
  \/ PlaceStop(close - 1)
=============================================================================
