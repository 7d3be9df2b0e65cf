----------------------------- MODULE TrendMaster ----------------------------
(***************************************************************************)
(* strategies/trend_master.go: entries limited per day and sized by the    *)
(* streak of wins and losses, an OCO sale (or, with partial take profits,  *)
(* none) behind each entry, and a trailing stop the strategy executes      *)
(* itself.  Percentages are integers; filters are signals.                 *)
(***************************************************************************)
EXTENDS StrategyCalls

CONSTANTS
  MaxTradesPerDay,
  Size,              \* PositionSize, percent of the quote coin
  WinIncrease,       \* WinIncreaseFactor, percent per win
  MaxFactor,         \* MaxPositionSizeFactor, percent
  LossReduction,     \* LossReductionFactor, percent per loss
  MinFactor,         \* MinPositionSizeFactor, percent
  MaxRiskPercent     \* MaxRiskPerTrade, percent

ASSUME TrendAssumption ==
  /\ MaxTradesPerDay \in Nat /\ MaxRiskPercent \in Nat \ {0} /\ Size \in Nat \ {0}
  /\ WinIncrease \in Nat /\ MaxFactor \in Nat /\ MaxFactor >= 100
  /\ LossReduction \in Nat /\ MinFactor \in Nat

VARIABLES
  usePartial,        \* config.UsePartialTakeProfit
  dailyTradeCount,
  ocoIds,            \* activeOrders: the remembered ids of each pair
  lastPrice,         \* the highest close of the trailing stop, 0 without one
  entryPrice,        \* 0 without one
  partials,          \* whether partialPositions has the pair, and configured levels
  winStreak, consecutiveLosses,
  bought             \* history: purchases of each pair since the day began

trendVars == <<usePartial, dailyTradeCount, ocoIds, lastPrice, entryPrice, partials,
               winStreak, consecutiveLosses, bought>>

None0 == [p \in Pairs |-> 0]

TrendInit ==
  /\ usePartial \in IF strategy = "trend" THEN BOOLEAN ELSE {FALSE}
  /\ dailyTradeCount = None0 /\ lastPrice = None0 /\ entryPrice = None0 /\ bought = None0
  /\ ocoIds = [p \in Pairs |-> {}]
  /\ partials = [p \in Pairs |-> "absent"]
  /\ winStreak = 0 /\ consecutiveLosses = 0

-----------------------------------------------------------------------------
(* Decisions *)

\* BUG: the day's trades are only counted while there is a position.
DayBeginsLazily(newDay) ==
  /\ dailyTradeCount' = IF newDay \/ AssetPosition = 0 THEN None0 ELSE dailyTradeCount
  /\ bought' = IF newDay THEN None0 ELSE bought

\* resetDailyTradeCountIfNewDay
DayBegins(newDay) ==
  /\ dailyTradeCount' = IF newDay THEN None0 ELSE dailyTradeCount
  /\ bought' = IF newDay THEN None0 ELSE bought

\* updateTrailingStopIfInPosition
TrailPrice(p) == IF lastPrice[p] > 0 /\ close > lastPrice[p] THEN close ELSE lastPrice[p]

\* checkTrailingStop; the stop gives way by less than a tick.
TrailingHit == lastPrice[pair] > 0 /\ close < TrailPrice(pair)

\* What the filters on this and the higher timeframe make of the market.
Trends == {"strong", "up", "flat", "down"}

\* shouldEnter: after two losses in a row only a strong trend will do.
ShouldEnter(trend) == trend = "strong" \/ (trend = "up" /\ consecutiveLosses < 2)

ShouldExit(trend) == trend = "down"

\* A tick: the least and the most that calculateTakeProfit may say.
TakeProfitPrice == close + 1

\* checkPartialExits configures its levels when it finds no entry for the pair.
CheckedPartials ==
  IF usePartial /\ entryPrice[pair] > 0 /\ partials[pair] = "absent"
  THEN [partials EXCEPT ![pair] = "configured"] ELSE partials

\* Bound: a run is followed until the position has turned short.
TrendDecides(newDay, trend) ==
  /\ At("trend", "decide") /\ AssetPosition >= 0
  /\ DayBegins(newDay)
  /\ lastPrice' = [lastPrice EXCEPT ![pair] = TrailPrice(pair)]
  /\ \/ /\ AssetPosition > 0
        /\ partials' = CheckedPartials
        /\ Then(IF ShouldExit(trend) \/ TrailingHit THEN "unwind" ELSE "idle")
     \/ /\ AssetPosition = 0
        /\ partials' = partials
        /\ Then(IF ShouldEnter(trend) /\ dailyTradeCount'[pair] < MaxTradesPerDay
                THEN "clear" ELSE "idle")
  /\ UNCHANGED <<vars, usePartial, ocoIds, entryPrice, winStreak, consecutiveLosses>>

\* Outside the trading hours only the day is looked at.
TrendSleeps(newDay) ==
  /\ At("trend", "decide")
  /\ DayBegins(newDay)
  /\ Then("idle")
  /\ UNCHANGED <<vars, usePartial, ocoIds, lastPrice, entryPrice, partials,
                 winStreak, consecutiveLosses>>

\* Entry and exit both begin by cancelling the remembered orders, one by one
\* in the order of a Go map.
TrendCancels ==
  /\ strategy = "trend" /\ step \in {"clear", "unwind"}
  /\ \E id \in ocoIds[pair] :
       /\ CancelKnown(id)
       /\ ocoIds' = [ocoIds EXCEPT ![pair] = @ \ {id}]
  /\ Then(step)
  /\ UNCHANGED <<usePartial, dailyTradeCount, lastPrice, entryPrice, partials,
                 winStreak, consecutiveLosses, bought>>

-----------------------------------------------------------------------------
(* Entry *)

\* The share of the quote coin a streak of wins or losses leaves.
StreakShare ==
  LET grown == (Size * (100 + Min2(winStreak * WinIncrease, MaxFactor - 100))) \div 100
      kept  == Max2(100 - consecutiveLosses * LossReduction, MinFactor)
  IN  IF consecutiveLosses > 0 THEN (grown * kept) \div 100 ELSE grown

\* BUG: the share is not limited by the risk.
ShareUnlimited(distance) == StreakShare

\* The share for a stop this far below the close: less if the stop is wide, and
\* never more than loses MaxRiskPercent of the quote coin at the stop.
Share(distance) ==
  LET careful == IF 100 * distance > MaxRiskPercent * close
                 THEN (StreakShare * MaxRiskPercent * close) \div (100 * distance)
                 ELSE StreakShare
  IN  Min2(careful, (MaxRiskPercent * close) \div distance)

Lots(distance) == InLots((QuotePosition * Share(distance)) \div 100)

\* The entry stores an empty list for the pair.
ClearedPartials == IF usePartial THEN [partials EXCEPT ![pair] = "empty"] ELSE partials

\* An entry that fails counts as a trade of the day, too.  The stop lies
\* a tick below the close.
TrendEnters ==
  /\ At("trend", "clear") /\ ocoIds[pair] = {}
  /\ dailyTradeCount' = [dailyTradeCount EXCEPT ![pair] = @ + 1]
  /\ \/ /\ Market(Buy, Lots(1))
        /\ entryPrice' = [entryPrice EXCEPT ![pair] = close]
        /\ lastPrice' = [lastPrice EXCEPT ![pair] = close]
        /\ partials' = ClearedPartials
        /\ bought' = [bought EXCEPT ![pair] = @ + 1]
        /\ Then(IF usePartial THEN "idle" ELSE "protect")
     \/ /\ Refused(Buy, Lots(1), close)
        /\ Then("idle")
        /\ UNCHANGED <<entryPrice, lastPrice, partials, bought>>
  /\ UNCHANGED <<usePartial, ocoIds, winStreak, consecutiveLosses>>

\* A refusal would only be logged and leave the position without stop and target;
\* the wallet has no ground for one, as the whole asset was just bought and is free.
TrendProtects ==
  /\ At("trend", "protect")
  /\ CreateOrderOCO(Sell, pair, AssetPosition, TakeProfitPrice, close - 1, close - 1)
  /\ ocoIds' = [ocoIds EXCEPT ![pair] = {NewestId + 1, NewestId + 2}]
  /\ Then("idle")
  /\ UNCHANGED <<usePartial, dailyTradeCount, lastPrice, entryPrice, partials,
                 winStreak, consecutiveLosses, bought>>

-----------------------------------------------------------------------------
(* Exit *)

\* The trailing stop is dropped with every exit, successful or not; the other
\* records only with a sale.
TrendSells ==
  /\ At("trend", "unwind") /\ ocoIds[pair] = {}
  /\ lastPrice' = [lastPrice EXCEPT ![pair] = 0]
  /\ \/ /\ Market(Sell, AssetPosition)
        /\ winStreak' = CASE entryPrice[pair] = 0 -> winStreak
                          [] entryPrice[pair] > 0 /\ close > entryPrice[pair] -> winStreak + 1
                          [] OTHER -> 0
        /\ consecutiveLosses' =
             CASE entryPrice[pair] = 0 -> consecutiveLosses
               [] entryPrice[pair] > 0 /\ close > entryPrice[pair] -> 0
               [] OTHER -> consecutiveLosses + 1
        /\ entryPrice' = [entryPrice EXCEPT ![pair] = 0]
        /\ partials' = [partials EXCEPT ![pair] = "absent"]
     \/ /\ Refused(Sell, AssetPosition, close)
        /\ UNCHANGED <<winStreak, consecutiveLosses, entryPrice, partials>>
  /\ Then("idle")
  /\ UNCHANGED <<usePartial, dailyTradeCount, ocoIds, bought>>

TrendNext ==
  \/ \E newDay \in BOOLEAN :
       \/ \E trend \in Trends : TrendDecides(newDay, trend)
       \/ TrendSleeps(newDay)
  \/ TrendCancels \/ TrendEnters \/ TrendProtects \/ TrendSells
=============================================================================
