---------------------------- MODULE StrategyCalls ---------------------------
(***************************************************************************)
(* How a strategy trades in a backtest: bot/candle_processing.go hands     *)
(* every candle first to the simulated exchange and then to the strategy,  *)
(* which calls the exchange through the order controller.  Everything runs *)
(* in one goroutine, one call after the other; a call that the exchange    *)
(* rejects changes nothing and the strategy carries on.                    *)
(*                                                                         *)
(* What a strategy reads off its indicators is a signal that may or may    *)
(* not be there; what it computes from prices it remembers is computed.    *)
(* A stop lies a tick or more below the close and a target above it.       *)
(***************************************************************************)
EXTENDS PaperWallet, FiniteSets

CONSTANTS
  Strategies,     \* the strategies examined, one per run of the bot
  HighFrequency,  \* those the strategy controller hands partial candles to
  Reserve,        \* bound: no candle once fewer orders than this are left
  MinQuote        \* minQuoteAmount, buyAmount and minAssetValue

ASSUME CallsAssumption ==
  HighFrequency \subseteq Strategies /\ Reserve \in Nat /\ MinQuote \in Nat \ {0}

VARIABLES
  strategy,   \* the strategy this bot runs
  step,       \* what runs next: "idle" waits for a candle
  last        \* the candle in hand

callVars == <<strategy, step, last>>

CallsInit ==
  /\ strategy \in Strategies
  /\ step = "idle"
  /\ last = NoCandle

Then(next) == step' = next /\ UNCHANGED <<strategy, last>>

-----------------------------------------------------------------------------
(* The bot *)

CandleArrives(c) ==
  /\ step = "idle" /\ Len(orders) + Reserve <= MaxOrders
  /\ OnCandleBegin(c)
  /\ last' = c /\ step' = "exchange"
  /\ UNCHANGED strategy

\* The exchange settles its orders first; then a complete candle goes to the
\* strategy, and a partial one only to a strategy that asks for those.
ExchangeSettles ==
  /\ step = "exchange"
  /\ OnCandleStep
  /\ Then(CASE Processing' -> "exchange"
            [] ~Processing' /\ last.complete -> "decide"
            [] ~Processing' /\ ~last.complete /\ strategy \in HighFrequency -> "partial"
            [] OTHER -> "idle")

-----------------------------------------------------------------------------
(* Broker calls, for the pair of the candle in hand *)

pair  == last.pair
close == last.close

At(name, now) == strategy = name /\ step = now

\* broker.Position: free and locked amounts together.
AssetPosition == Total(pair)
QuotePosition == Total(Quote)

InLots(amount) == amount \div close

Accepted(side, size, price) == size > 0 /\ FundsSuffice(side, pair, size, price)
Refused(side, size, price)  == ~Accepted(side, size, price) /\ UNCHANGED vars

Market(side, size) == size > 0 /\ CreateOrderMarket(side, pair, size)

\* A market order whose outcome the strategy only logs.
MarketCall(side, size) == Market(side, size) \/ Refused(side, size, close)

\* The id the order store gave to the newest order.  broker.Order takes it to
\* the exchange, which searches its own ids for it.
NewestId  == Len(orders)
Known(id) == {i \in DOMAIN orders : orders[i].id = id}

\* BUG: the order stays where it is.
CancelNothing(id) == UNCHANGED vars

\* broker.Order and, when it finds an order, broker.Cancel.
CancelKnown(id) ==
  \/ \E i \in Known(id) : Cancel(i)
  \/ Known(id) = {} /\ UNCHANGED vars

-----------------------------------------------------------------------------
(* What the properties look at *)

Waiting(p) == {i \in DOMAIN orders : orders[i].pair = p /\ orders[i].status = New}

\* The strategy waits for the next candle.
Resting == step = "idle"
=============================================================================
