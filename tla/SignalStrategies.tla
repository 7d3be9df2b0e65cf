-------------------------- MODULE SignalStrategies --------------------------
(***************************************************************************)
(* The strategies that trade on a signal and keep no record of the orders  *)
(* they placed: turtle, EMA cross, stochastic with an OCO sale, EMA and    *)
(* MACD on both sides, ChatGPT, the trailing stop, and the scheduler of    *)
(* conditional orders (strategy/conditional_order.go) as its clients drive *)
(* it.  The orders somebody gives by hand through the Telegram bot         *)
(* (notification/telegram.go) are here too, as the strategy of a trader.   *)
(***************************************************************************)
EXTENDS StrategyCalls

CONSTANTS
  Schedule,          \* the conditional orders of a pair: a sequence of [side, size]
  AnalysisInterval,  \* StrategyConfig.AnalysisInterval of the ChatGPT strategy
  Percents           \* percentages in the commands of a Telegram user

ASSUME SignalAssumption ==
  /\ Schedule \in Seq([side : Sides, size : Nat])
  /\ AnalysisInterval \in Nat \ {0} /\ Percents \subseteq Nat \ {0}

VARIABLES
  trail,        \* strategy.TrailingStop of each pair
  conditions,   \* Scheduler.orderConditions of each pair
  evaluated,    \* the conditions Update has not come to yet
  candleCounter \* ChatGPTStrategy.candleCounter, of all pairs together

signalVars == <<trail, conditions, evaluated, candleCounter>>

SignalInit ==
  /\ trail = [p \in Pairs |-> [price |-> 0, level |-> 0, active |-> FALSE]]
  /\ conditions = [p \in Pairs |-> Schedule]
  /\ evaluated = << >>
  /\ candleCounter = 0

-----------------------------------------------------------------------------
Turtle ==
  /\ At("turtle", "decide")
  /\ \/ AssetPosition = 0 /\ MarketCall(Buy, InLots(QuotePosition \div 2))
     \/ AssetPosition > 0 /\ MarketCall(Sell, AssetPosition)
     \/ UNCHANGED vars
  /\ Then("idle")
  /\ UNCHANGED signalVars

\* Buys on top of what it holds as long as it has the quote coin.
CrossEMA ==
  /\ At("ema_cross", "decide")
  /\ \/ QuotePosition >= MinQuote /\ MarketCall(Buy, InLots(QuotePosition))
     \/ AssetPosition > 0 /\ MarketCall(Sell, AssetPosition)
     \/ UNCHANGED vars
  /\ Then("idle")
  /\ UNCHANGED signalVars

\* The OCO sale follows the purchase only if that succeeded.
OCOSell ==
  /\ \/ /\ At("oco_sell", "decide")
        /\ \/ /\ QuotePosition > MinQuote
              /\ \/ Market(Buy, InLots(MinQuote)) /\ Then("protect")
                 \/ Refused(Buy, InLots(MinQuote), close) /\ Then("idle")
           \/ UNCHANGED vars /\ Then("idle")
     \/ /\ At("oco_sell", "protect")
        /\ \/ CreateOrderOCO(Sell, pair, InLots(MinQuote), close + 1, close - 1, close - 1)
           \/ Refused(Sell, InLots(MinQuote), close + 1)
        /\ Then("idle")
  /\ UNCHANGED signalVars

\* A position, long or short, is closed before another is opened.
CrossEMAMACD ==
  /\ At("ema_macd", "decide")
  /\ \/ AssetPosition > 0 /\ MarketCall(Sell, AssetPosition)
     \/ AssetPosition < 0 /\ MarketCall(Buy, -AssetPosition)
     \/ /\ AssetPosition = 0
        /\ \/ QuotePosition >= MinQuote /\ MarketCall(Buy, InLots(QuotePosition))
           \/ MarketCall(Sell, InLots(MinQuote))
     \/ UNCHANGED vars
  /\ Then("idle")
  /\ UNCHANGED signalVars

\* What AnalyzeMarket makes of the answer, if any, of the language model.
Signals == {"buy", "sell", "hold", "error"}

ExecuteBuy  == MarketCall(Buy, InLots((QuotePosition * 95) \div 100))
ExecuteSell == MarketCall(Sell, AssetPosition)

\* An analysis every so many candles; it may fail, and a signal that does not
\* fit the position is ignored.
ChatGPT ==
  /\ At("chatgpt", "decide")
  /\ \/ /\ candleCounter + 1 < AnalysisInterval
        /\ candleCounter' = candleCounter + 1
        /\ UNCHANGED vars
     \/ /\ candleCounter + 1 >= AnalysisInterval
        /\ candleCounter' = 0
        /\ \E signal \in Signals :
             CASE signal = "buy" /\ AssetPosition <= 0 -> ExecuteBuy
               [] signal = "sell" /\ AssetPosition > 0 -> ExecuteSell
               [] OTHER -> UNCHANGED vars
  /\ Then("idle")
  /\ UNCHANGED <<trail, conditions, evaluated>>

-----------------------------------------------------------------------------
(* The trailing stop *)

\* Entry with all the quote coin; the stop starts at the low of the candle.
TrailingEntry ==
  /\ At("trailing", "decide")
  /\ Then("idle")
  /\ \/ /\ QuotePosition > MinQuote /\ AssetPosition * close < MinQuote
        /\ \/ /\ Market(Buy, InLots(QuotePosition))
              /\ trail' = [trail EXCEPT ![pair] =
                             [price |-> close, level |-> last.low, active |-> TRUE]]
           \/ Refused(Buy, InLots(QuotePosition), close) /\ UNCHANGED trail
     \/ UNCHANGED <<vars, trail>>
  /\ UNCHANGED <<conditions, evaluated, candleCounter>>

\* TrailingStop.Update: a higher price raises the level by as much.
Raised(t) ==
  [t EXCEPT !.level = @ + (IF close > t.price THEN close - t.price ELSE 0),
            !.price = close]

Triggered(t) == t.active /\ close <= t.level

\* OnPartialCandle and executeExit; the stop ends only with a successful sale.
TrailingUpdate ==
  LET t == IF trail[pair].active THEN Raised(trail[pair]) ELSE trail[pair] IN
  /\ At("trailing", "partial")
  /\ Then("idle")
  /\ \/ /\ Triggered(t) /\ AssetPosition > 0 /\ Market(Sell, AssetPosition)
        /\ trail' = [trail EXCEPT ![pair] = [t EXCEPT !.active = FALSE]]
     \/ /\ ~Triggered(t) \/ ~Accepted(Sell, AssetPosition, close)
        /\ trail' = [trail EXCEPT ![pair] = t]
        /\ UNCHANGED vars
  /\ UNCHANGED <<conditions, evaluated, candleCounter>>

-----------------------------------------------------------------------------
(* The scheduler *)

\* Update walks the list; conditions and orders of other candles are not in it.
SchedulerBegin ==
  /\ At("scheduled", "decide")
  /\ evaluated' = conditions[pair]
  /\ conditions' = [conditions EXCEPT ![pair] = << >>]
  /\ Then("schedule")
  /\ UNCHANGED <<vars, trail, candleCounter>>

Keep(oc) == conditions' = [conditions EXCEPT ![pair] = Append(@, oc)]

\* BUG: a condition that was met is dropped whether or not its order succeeded.
SchedulerDrops ==
  /\ At("scheduled", "schedule") /\ evaluated # << >>
  /\ LET oc == Head(evaluated) IN
       \/ MarketCall(oc.side, oc.size) /\ UNCHANGED conditions
       \/ UNCHANGED vars /\ Keep(oc)
  /\ evaluated' = Tail(evaluated)
  /\ Then("schedule")
  /\ UNCHANGED <<trail, candleCounter>>

\* A condition stays until it was met and its order succeeded.
SchedulerStep ==
  /\ At("scheduled", "schedule") /\ evaluated # << >>
  /\ LET oc == Head(evaluated) IN
       \/ Market(oc.side, oc.size) /\ UNCHANGED conditions
       \/ UNCHANGED vars /\ Keep(oc)
  /\ evaluated' = Tail(evaluated)
  /\ Then("schedule")
  /\ UNCHANGED <<trail, candleCounter>>

SchedulerEnd ==
  /\ At("scheduled", "schedule") /\ evaluated = << >>
  /\ Then("idle")
  /\ UNCHANGED <<vars, signalVars>>

-----------------------------------------------------------------------------
(* Telegram *)

QuoteOrder(side, amount) == amount > 0 /\ QuoteToQuantity(side, pair, amount)

\* /buy: an amount of the quote coin, or a percentage of what there is of it.
TelegramBuys ==
  /\ At("telegram", "decide")
  /\ \/ \E amount \in Asks \cup {(p * QuotePosition) \div 100 : p \in Percents} :
          QuoteOrder(Buy, amount) /\ Then("convert")
     \/ UNCHANGED vars /\ Then("idle")
  /\ UNCHANGED signalVars

\* /sell: worth an amount of the quote coin, or a percentage of the position.
TelegramSells ==
  /\ At("telegram", "decide")
  /\ \/ \E amount \in Asks : QuoteOrder(Sell, amount) /\ Then("convert")
     \/ \E p \in Percents : MarketCall(Sell, (p * AssetPosition) \div 100) /\ Then("idle")
  /\ UNCHANGED signalVars

\* The second half of CreateOrderMarketQuote.
TelegramConverts ==
  /\ At("telegram", "convert")
  /\ CreateOrderMarketQuote
  /\ Then("idle")
  /\ UNCHANGED signalVars

SignalNext ==
  \/ TelegramBuys \/ TelegramSells \/ TelegramConverts
  \/ Turtle \/ CrossEMA \/ OCOSell \/ CrossEMAMACD \/ ChatGPT
  \/ TrailingEntry \/ TrailingUpdate
  \/ SchedulerBegin \/ SchedulerStep \/ SchedulerEnd

-----------------------------------------------------------------------------
\* Every conditional order is executed once: what was executed, what waits and
\* what is being evaluated make up the schedule, also when the exchange
\* refuses an order (Scheduler.Update).
ScheduledOnce ==
  strategy = "scheduled" =>
    \A p \in Pairs :
      Len(conditions[p]) + (IF pair = p THEN Len(evaluated) ELSE 0)
        + Cardinality({i \in DOMAIN orders : orders[i].pair = p}) = Len(Schedule)
=============================================================================
