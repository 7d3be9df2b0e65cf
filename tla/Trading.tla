------------------------------- MODULE Trading ------------------------------
(***************************************************************************)
(* A backtest: one of the strategies over the simulated exchange.          *)
(***************************************************************************)
EXTENDS SignalStrategies, StopStrategies, RiskStrategies, TrendMaster

tradingVars == <<vars, callVars, signalVars, stopVars, riskVars, trendVars>>

TradingInit ==
  /\ Init
  /\ CallsInit
  /\ SignalInit /\ StopInit /\ RiskInit /\ TrendInit

Bot == (\E c \in Candles : CandleArrives(c)) \/ ExchangeSettles

TradingNext ==
  \/ Bot /\ UNCHANGED <<signalVars, stopVars, riskVars, trendVars>>
  \/ SignalNext /\ UNCHANGED <<stopVars, riskVars, trendVars>>
  \/ StopNext /\ UNCHANGED <<signalVars, riskVars, trendVars>>
  \/ RiskNext /\ UNCHANGED <<signalVars, stopVars, trendVars>>
  \/ TrendNext /\ UNCHANGED <<signalVars, stopVars, riskVars>>

TradingSpec == TradingInit /\ [][TradingNext]_tradingVars

-----------------------------------------------------------------------------
(* Properties *)

\* The strategies that sell only what they hold: those without short entries
\* whose orders on the exchange they can find again.
LongOnly == {"turtle", "ema_cross", "oco_sell", "trailing", "chatgpt",
             "larry", "triple_ema", "adaptive", "breakout"}

\* Those that place one stop order behind each entry.
StopKeepers == {"larry", "triple_ema", "adaptive", "breakout"}

Remembered(p) ==
  IF strategy \in {"larry", "triple_ema"} THEN activeOrders[p] ELSE stopId[p]

\* A strategy that only goes long never owes the exchange an asset, whichever
\* of its own orders the exchange executed between two of its candles: an exit
\* first cancels what is pending, so nothing is sold twice.
NeverShort == strategy \in LongOnly => \A p \in Pairs : Total(p) >= 0

\* Between two candles a position of these strategies is covered to its whole
\* size by one pending stop, the one the strategy remembers; and no order is
\* left pending for a pair without a position.
HoldingIsProtected ==
  strategy \in StopKeepers /\ Resting =>
    \A p \in Pairs :
      IF Total(p) > 0
      THEN \E i \in Waiting(p) : /\ Waiting(p) = {i} /\ orders[i].qty = Total(p)
                                 /\ orders[i].id = Remembered(p)
      ELSE Waiting(p) = {}

\* No strategy with a stop cancels an order the exchange already executed
\* (paper_wallet.go would hand the funds out again).
ExecutedStaysExecuted ==
  [][(strategy \in StopKeepers) =>
       IdsWith(orders, Filled) \subseteq IdsWith(orders', Filled)]_tradingVars

\* Larry Williams 9.1 is out of a position when it has seen ExitBars candles
\* with it, also if the exchange stopped it out in between.
HoldsAtMostExitBars ==
  strategy = "larry" /\ Resting =>
    \A p \in Pairs : age[p] <= ExitBars /\ (age[p] = ExitBars => Total(p) = 0)

\* The trend master buys a pair at most MaxTradesPerDay times a day.
DailyLimit == strategy = "trend" => \A p \in Pairs : bought[p] <= MaxTradesPerDay

\* What the trend master buys would lose, at a stop one tick below, no more
\* than its risk per trade.
RiskLimited ==
  [][strategy = "trend" /\ bought' # bought /\ MarketFill =>
       100 * LastOrder'.qty <= MaxRiskPercent * QuotePosition]_tradingVars

\* A MACD divergence exit cancels "any active OCO order": a pair without a
\* position has no order pending.
ExitCancelsOCO ==
  strategy = "macd_divergence" /\ Resting =>
    \A p \in Pairs : Total(p) = 0 => Waiting(p) = {}
=============================================================================
