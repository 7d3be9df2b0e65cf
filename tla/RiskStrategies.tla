--------------------------- MODULE RiskStrategies ---------------------------
(***************************************************************************)
(* The two strategies that size their positions by risk and keep records   *)
(* of every position: adaptive momentum and volatility breakout.  Both     *)
(* place a stop order on the exchange, follow the highest close since the  *)
(* entry, and exit by cancelling the stop and selling.                     *)
(***************************************************************************)
EXTENDS StrategyCalls

CONSTANTS
  InitialRisk, MaxRisk,   \* risk per trade, in units of 1 / RiskScale
  RiskScale,
  LossPenalty,            \* what each consecutive loss takes off the risk
  StopDistances,          \* stopLossAmount, in ticks
  ProfitTarget,           \* of the take profits, in ticks above the entry
  TrailingStart,          \* the breakout's trailing stop starts this far up
  MaxPositions            \* VolatilityBreakoutStrategy.maxPositions

ASSUME RiskAssumption ==
  /\ InitialRisk \in Nat \ {0} /\ MaxRisk \in Nat \ {0} /\ RiskScale \in Nat \ {0}
  /\ LossPenalty \in Nat /\ StopDistances \subseteq Nat \ {0}
  /\ ProfitTarget \in Nat \ {0} /\ TrailingStart \in Nat /\ MaxPositions \in Nat

VARIABLES
  stopId,            \* activeOrders: the remembered stop, None without one
  entry,             \* entryPrices, 0 without one
  highestSinceBuy,   \* 0 without one
  stopLoss,          \* stopLosses of the breakout, 0 without one
  activePositions,   \* the pairs the breakout counts as held
  score,             \* winCount, lossCount, consecutiveLoss
  plan               \* size and stop of the entry being made

riskVars == <<stopId, entry, highestSinceBuy, stopLoss, activePositions, score, plan>>

Zero == [p \in Pairs |-> 0]
NoPlan == [size |-> 0, stop |-> 0]

RiskInit ==
  /\ stopId = [p \in Pairs |-> None]
  /\ entry = Zero /\ highestSinceBuy = Zero /\ stopLoss = Zero
  /\ activePositions = {}
  /\ score = [wins |-> 0, losses |-> 0, streak |-> 0]
  /\ plan = NoPlan

AtRisk(now) == strategy \in {"adaptive", "breakout"} /\ step = now

\* The highest close since the entry, after the candle in hand.
Highest ==
  [highestSinceBuy EXCEPT ![pair] = IF AssetPosition > 0 /\ close > @ THEN close ELSE @]

-----------------------------------------------------------------------------
(* Entry *)

\* The risk of the adaptive strategy: reduced by a losing streak down to half,
\* raised by a fifth when more than 60% of the trades were won.
AdaptiveRisk ==
  LET cautious == Max2(InitialRisk \div 2, InitialRisk - score.streak * LossPenalty)
      base     == IF score.streak > 0 THEN cautious ELSE InitialRisk
      winning  == /\ score.wins > 0 /\ score.losses > 0
                  /\ 10 * score.wins > 6 * (score.wins + score.losses)
  IN  IF winning THEN Min2(MaxRisk, (base * 6) \div 5) ELSE base

Risk == IF strategy = "adaptive" THEN AdaptiveRisk ELSE InitialRisk

\* A position loses the risk at its stop and costs no more than there is; the
\* breakout leaves a part of the quote coin (5%, a lot here) when it takes all.
PositionSize(distance) ==
  LET byRisk == (QuotePosition * Risk) \div (RiskScale * distance)
      most   == InLots(QuotePosition)
  IN  CASE byRisk <= most -> byRisk
        [] byRisk > most /\ strategy = "adaptive" -> most
        [] byRisk > most /\ strategy = "breakout" -> most - 1

\* Whether the filters of the two agree is left open.
AdaptiveMayEnter == AssetPosition = 0
BreakoutMayEnter == AssetPosition = 0 /\ Cardinality(activePositions) < MaxPositions

MayEnter ==
  \/ strategy = "adaptive" /\ AdaptiveMayEnter
  \/ strategy = "breakout" /\ BreakoutMayEnter

Enter(distance) ==
  /\ AtRisk("decide") /\ MayEnter
  /\ close > distance
  /\ \/ /\ Market(Buy, PositionSize(distance))
        /\ entry' = [entry EXCEPT ![pair] = close]
        /\ highestSinceBuy' = [highestSinceBuy EXCEPT ![pair] = close]
        /\ stopLoss' = [stopLoss EXCEPT ![pair] =
                          IF strategy = "breakout" THEN close - distance ELSE @]
        /\ activePositions' = activePositions \cup
                                (IF strategy = "breakout" THEN {pair} ELSE {})
        /\ plan' = [size |-> PositionSize(distance), stop |-> close - distance]
        /\ Then("protect")
     \/ /\ Refused(Buy, PositionSize(distance), close)
        /\ Then("idle")
        /\ UNCHANGED <<entry, highestSinceBuy, stopLoss, activePositions, plan>>
  /\ UNCHANGED <<stopId, score>>

Protect ==
  /\ AtRisk("protect")
  /\ \/ /\ Accepted(Sell, plan.size, plan.stop)
        /\ CreateOrderStop(pair, plan.size, plan.stop)
        /\ stopId' = [stopId EXCEPT ![pair] = NewestId + 1]
     \/ Refused(Sell, plan.size, plan.stop) /\ UNCHANGED stopId
  /\ plan' = NoPlan
  /\ Then("idle")
  /\ UNCHANGED <<entry, highestSinceBuy, stopLoss, activePositions, score>>

-----------------------------------------------------------------------------
(* Exit *)

\* Exits that do not depend on an indicator.  The trailing stops give way by a
\* tick; the breakout's starts once the price has risen far enough.
AdaptiveMustExit ==
  \/ close < Highest[pair] - 1
  \/ entry[pair] > 0 /\ close >= entry[pair] + ProfitTarget

BreakoutMustExit ==
  \/ /\ entry[pair] > 0 /\ Highest[pair] >= entry[pair] + TrailingStart
     /\ close < Highest[pair] - 1
  \/ entry[pair] > 0 /\ close >= entry[pair] + ProfitTarget
  \/ stopLoss[pair] > 0 /\ last.low <= stopLoss[pair]

MustExit ==
  \/ strategy = "adaptive" /\ AdaptiveMustExit
  \/ strategy = "breakout" /\ BreakoutMustExit

\* The adaptive strategy may also leave on a signal.
Exit ==
  /\ AtRisk("decide") /\ AssetPosition > 0
  /\ MustExit \/ strategy = "adaptive"
  /\ highestSinceBuy' = Highest
  /\ Then("cancel")
  /\ UNCHANGED <<vars, stopId, entry, stopLoss, activePositions, score, plan>>

\* No signal; outside its trading hours the breakout does not even look.
Stay ==
  /\ AtRisk("decide")
  /\ AssetPosition > 0 => ~MustExit
  /\ highestSinceBuy' = Highest
  /\ Then("idle")
  /\ UNCHANGED <<vars, stopId, entry, stopLoss, activePositions, score, plan>>

OutsideTradingHours ==
  /\ strategy = "breakout" /\ step = "decide"
  /\ Then("idle")
  /\ UNCHANGED <<vars, riskVars>>

CancelStop ==
  /\ AtRisk("cancel")
  /\ CancelKnown(stopId[pair])
  /\ stopId' = [stopId EXCEPT ![pair] = None]
  /\ Then("sell")
  /\ UNCHANGED <<entry, highestSinceBuy, stopLoss, activePositions, score, plan>>

\* The adaptive strategy's count of wins and losses.
Scored ==
  IF close > entry[pair]
  THEN [score EXCEPT !.wins = @ + 1, !.streak = 0]
  ELSE [wins |-> score.wins, losses |-> score.losses + 1, streak |-> score.streak + 1]

\* The records of a position are dropped with its sale.
SellOut ==
  /\ AtRisk("sell")
  /\ \/ /\ Market(Sell, AssetPosition)
        /\ score' = IF strategy = "adaptive" /\ entry[pair] > 0 THEN Scored ELSE score
        /\ entry' = [entry EXCEPT ![pair] = 0]
        /\ highestSinceBuy' =
             [highestSinceBuy EXCEPT ![pair] =
                IF strategy = "breakout" \/ entry[pair] > 0 THEN 0 ELSE @]
        /\ stopLoss' = [stopLoss EXCEPT ![pair] = 0]
        /\ activePositions' = activePositions \ {pair}
     \/ /\ Refused(Sell, AssetPosition, close)
        /\ UNCHANGED <<score, entry, highestSinceBuy, stopLoss, activePositions>>
  /\ Then("idle")
  /\ UNCHANGED <<stopId, plan>>

RiskNext ==
  \/ \E distance \in StopDistances : Enter(distance)
  \/ Protect \/ Exit \/ Stay \/ OutsideTradingHours \/ CancelStop \/ SellOut
=============================================================================
