--------------------------- MODULE BinanceOrders ---------------------------
(***************************************************************************)
(* Orders on Binance: the requests exchange/binance (binance.go, spot.go,  *)
(* futures.go) builds and the answers it converts, and what the order      *)
(* controller makes of them.  The exchange itself is external: it accepts  *)
(* a request that meets the pair's LOT_SIZE filter and the free funds,     *)
(* executes orders in parts, and expires the rest of a market order.       *)
(*                                                                         *)
(* Quantities are counted in a unit finer than StepSize.  Quote funds and  *)
(* fees are left out: a buy is never short of funds, and what an order     *)
(* executes is what the account receives.                                  *)
(***************************************************************************)
EXTENDS Position, Sequences, Functions

CONSTANTS
  MinQuantity, MaxQuantity, StepSize,   \* core.AssetInfo of the pair
  Quantities,     \* quantities and amounts asked for
  Prices,         \* limit prices and prices of executions
  Holding,        \* what the spot account holds of the asset
  MaxOrders       \* bound: orders the exchange accepts

(* The filter's bounds are multiples of a step that is a power of ten, and *)
(* odd in the unit used, so that no quantity lies halfway between two.     *)
ASSUME BinanceAssumption ==
  /\ StepSize \in Nat \ {0} /\ StepSize % 2 = 1
  /\ MinQuantity \in Nat \ {0} /\ MinQuantity % StepSize = 0
  /\ MaxQuantity \in Nat /\ MaxQuantity % StepSize = 0 /\ MinQuantity <= MaxQuantity
  /\ Quantities \subseteq Nat /\ Prices \subseteq Nat \ {0}
  /\ Holding \in Nat /\ MaxOrders \in Nat

Expired == "EXPIRED"
Live    == {New, PartiallyFilled}
Pending == Live \cup {PendingCancel}

\* cost / quantity of an order of which nothing was executed.
NaN == -1

VARIABLES
  market,     \* "spot" or "futures"
  asset,      \* the account's amount of the asset, short if negative (futures)
  orders,     \* the exchange's orders; an ExchangeID is an index
  store,      \* what the controller has stored of them: [status, qty]
  position,   \* the controller's position of the pair
  rejected    \* the exchange has rejected a request for its LOT_SIZE

vars == <<market, asset, orders, store, position, rejected>>

Spot == market = "spot"

BinanceInit ==
  /\ market \in {"spot", "futures"}
  /\ asset = IF market = "spot" THEN Holding ELSE 0
  /\ orders = << >> /\ store = << >>
  /\ position = NoPosition
  /\ rejected = FALSE

-----------------------------------------------------------------------------
(* Requests *)

\* The pair's limits, as createAssetInfo takes them from the LOT_SIZE filter the
\* exchange publishes.
AssetInfo == [min |-> MinQuantity, max |-> MaxQuantity, step |-> StepSize]

\* BUG: the upper bound of the filter is not looked at.
ValidatesMinimum(q) == AssetInfo.min <= q

\* validateOrder.  Its last test, for a multiple of the step size, divides and
\* multiplies by the step without rounding between and rejects nothing.
Validates(q) == AssetInfo.min <= q /\ q <= AssetInfo.max

\* formatQuantity: FormatFloat rounds to the nearest, up as well as down.
Formatted(q) == ((q + AssetInfo.step \div 2) \div AssetInfo.step) * AssetInfo.step

Truncated(q) == q - (q % StepSize)

\* The exchange's own check of a quantity.
MeetsLotSize(q) == q % StepSize = 0 /\ MinQuantity <= q /\ q <= MaxQuantity

\* What open sell orders lock; the legs of an OCO lock it once.
Locked ==
  LET locks == {e \in DOMAIN orders :
        /\ orders[e].side = Sell /\ orders[e].status \in Live
        /\ \A f \in DOMAIN orders :
             SameGroup(orders[e], orders[f]) /\ orders[f].status \in Live => e <= f}
  IN  SumFunctionOnSet([e \in locks |-> orders[e].sent - orders[e].executed], locks)

Free == asset - Locked

\* Account and Position: free and locked amount together on the spot market, the
\* signed position on the futures market.
SpotPosition    == Free + Locked
FuturesPosition == asset
AccountPosition == IF Spot THEN SpotPosition ELSE FuturesPosition

Funded(side, q) == Spot /\ side = Sell => q <= Free

\* An error is returned and nothing is created.
Refused == UNCHANGED vars

RejectedLotSize ==
  /\ rejected' = TRUE
  /\ UNCHANGED <<market, asset, orders, store, position>>

Order(side, q, price, executed, status, group) ==
  [side |-> side, sent |-> Formatted(q), price |-> price, executed |-> executed,
   cost |-> price * executed, status |-> status, group |-> group]

\* Every create method: validated, formatted, and judged by the exchange.
Requested(side, q, Accepted) ==
  /\ Len(orders) < MaxOrders
  /\ IF ~Validates(q) THEN Refused
     ELSE IF ~MeetsLotSize(Formatted(q)) THEN RejectedLotSize
     ELSE IF ~Funded(side, Formatted(q)) THEN Refused
     ELSE Accepted /\ UNCHANGED <<market, rejected>>

-----------------------------------------------------------------------------
(* What the controller makes of an order *)

\* processTrade counts orders that are filled.
Counts(o) == o.status = Filled

ProcessTrade(o) == position' = IF Counts(o) THEN AfterOrder(position, o) ELSE position

\* BUG: an answer's quantity is the quantity asked for.
AnswerAsAsked(q, o) ==
  [side |-> o.side, status |-> o.status, qty |-> q, stop |-> None,
   price |-> IF o.executed > 0 THEN o.cost \div o.executed ELSE NaN]

\* The order CreateOrderMarket returns: executed quantity, average price.
MarketAnswer(q, o) ==
  [side |-> o.side, status |-> o.status, qty |-> o.executed, stop |-> None,
   price |-> IF o.executed > 0 THEN o.cost \div o.executed ELSE NaN]

\* BUG: the original quantity is kept.
ConvertedAsSent(o) ==
  [side |-> o.side, status |-> o.status, stop |-> None, qty |-> o.sent,
   price |-> IF o.executed > 0 THEN o.cost \div o.executed ELSE o.price]

\* convertOrder
Converted(o) ==
  [side |-> o.side, status |-> o.status, stop |-> None,
   qty   |-> IF o.executed > 0 THEN o.executed ELSE o.sent,
   price |-> IF o.executed > 0 THEN o.cost \div o.executed ELSE o.price]

Stored(o) == [status |-> o.status, qty |-> o.qty]

-----------------------------------------------------------------------------
(* Create methods *)

CreateOrderLimit(side, q, price) ==
  Requested(side, q,
    LET o == Order(side, q, price, 0, New, None)
    IN  /\ orders' = Append(orders, o)
        /\ store' = Append(store, Stored(Converted(o)))
        /\ UNCHANGED <<asset, position>>)

CreateOrderStop(q, limit) == CreateOrderLimit(Sell, q, limit)

\* Two legs under the exchange's order list id.
CreateOrderOCO(side, q, price, stopLimit) ==
  IF Spot
  THEN /\ Len(orders) + 1 < MaxOrders
       /\ Requested(side, q,
            LET group == Len(orders) + 1
                legs == <<Order(side, q, price, 0, New, group),
                          Order(side, q, stopLimit, 0, New, group)>>
            IN  /\ orders' = orders \o legs
                /\ store' = store \o [i \in 1..2 |-> Stored(Converted(legs[i]))]
                /\ UNCHANGED <<asset, position>>)
  ELSE Refused

\* A market order that executed x of what was sent: the rest of it expires
\* (spot), or it is answered before it executes (futures).
AnsweredMarket(side, q, sent, price, x) ==
  LET status == IF x = sent THEN Filled ELSE IF Spot THEN Expired ELSE New
      o == [Order(side, q, price, x, status, None) EXCEPT !.sent = sent]
      answer == MarketAnswer(q, o)
  IN  /\ orders' = Append(orders, o)
      /\ asset' = asset + Signed(side, x)
      /\ store' = Append(store, Stored(answer))
      /\ ProcessTrade(answer)

\* What a market order may have executed when it is answered.
Answerable(sent) ==
  IF Spot THEN {x \in 0..sent : x % StepSize = 0} ELSE {0, sent}

CreateOrderMarket(side, q, price) ==
  Requested(side, q,
    \E x \in Answerable(Formatted(q)) : AnsweredMarket(side, q, Formatted(q), price, x))

\* The amount of quote is held against the limits of the asset.
CreateOrderMarketQuote(side, amount, price) ==
  LET bought == Truncated(Formatted(amount) \div price) IN
  IF ~Spot THEN Refused
  ELSE IF ~Validates(amount) THEN Refused
  ELSE IF bought = 0 THEN Refused
  ELSE IF ~Funded(side, bought) THEN Refused
  ELSE /\ Len(orders) < MaxOrders
       /\ UNCHANGED <<market, rejected>>
       /\ \E x \in Answerable(bought) \ {0} : AnsweredMarket(side, bought, bought, price, x)

\* Cancel: the exchange refuses what is no longer open; an OCO goes as a whole.
Cancel(e) ==
  IF orders[e].status \in Live
  THEN /\ orders' = [f \in DOMAIN orders |->
            IF f = e \/ (SameGroup(orders[e], orders[f]) /\ orders[f].status \in Live)
            THEN [orders[f] EXCEPT !.status = Canceled] ELSE orders[f]]
       /\ store' = [store EXCEPT ![e].status = PendingCancel]
       /\ UNCHANGED <<market, asset, position, rejected>>
  ELSE Refused

-----------------------------------------------------------------------------
(* The exchange, and the controller's polling *)

\* Some more of an open order executes; the first execution ends its OCO group.
Execute(e, x) ==
  LET o == orders[e]
      executed == o.executed + x
  IN  /\ o.status \in Live
      /\ x > 0 /\ x % StepSize = 0 /\ executed <= o.sent
      /\ orders' = [f \in DOMAIN orders |->
           IF f = e
           THEN [o EXCEPT !.executed = executed, !.cost = @ + x * o.price,
                          !.status = IF executed = o.sent THEN Filled ELSE PartiallyFilled]
           ELSE IF SameGroup(o, orders[f]) THEN [orders[f] EXCEPT !.status = Canceled]
           ELSE orders[f]]
      /\ asset' = asset + Signed(o.side, x)
      /\ UNCHANGED <<market, store, position, rejected>>

\* updateOrders asks for one pending order.
Polls(e) ==
  LET answer == Converted(orders[e]) IN
  /\ store[e].status \in Pending /\ answer.status # store[e].status
  /\ store' = [store EXCEPT ![e] = Stored(answer)]
  /\ ProcessTrade(answer)
  /\ UNCHANGED <<market, asset, orders, rejected>>

BinanceNext ==
  \/ \E side \in Sides, price \in Prices :
       \E q \in Quantities \cup ({AccountPosition} \cap Nat) :
         \/ CreateOrderLimit(side, q, price)
         \/ CreateOrderMarket(side, q, price)
         \/ CreateOrderMarketQuote(side, q, price)
         \/ CreateOrderOCO(side, q, price, price)
  \/ \E q \in Quantities, limit \in Prices : CreateOrderStop(q, limit)
  \/ \E e \in DOMAIN orders : Cancel(e) \/ Polls(e) \/ \E x \in 1..MaxQuantity : Execute(e, x)

BinanceSpec == BinanceInit /\ [][BinanceNext]_vars

-----------------------------------------------------------------------------
(* Properties *)

\* What each order changed of the account, and the orders that are not counted.
Executions == [e \in DOMAIN orders |-> Signed(orders[e].side, orders[e].executed)]
Uncounted  == {e \in DOMAIN orders : store[e].status # Filled}

\* What the controller counted as traded and what pending or cut-short orders
\* executed make up the change of the account: neither a partial execution nor
\* an average price or quantity that was rounded on the way loses any of it.
PositionFollowsAccount ==
  Net(position) + SumFunctionOnSet(Executions, Uncounted) = asset - (IF Spot THEN Holding ELSE 0)

\* An order that the store has as finished is stored with the quantity that was
\* executed, however much of it was (the quantity sent, when nothing was).
HistoryIsExecuted ==
  \A e \in DOMAIN orders :
    LET o == orders[e] IN
    store[e].status \in {Filled, Canceled} /\ o.executed > 0 => store[e].qty = o.executed

\* What the filters loaded at the start let through, the exchange's filter does
\* too, after the quantity has been rounded.
FilterNeverRejects == ~rejected
=============================================================================
