---------------------------- MODULE PaperWallet ----------------------------
(***************************************************************************)
(* The simulated exchange of BackNRun, exchange/paper_wallet.go: balances, *)
(* the order list and the matching of pending orders against candles.      *)
(*                                                                         *)
(* The wallet is protected by one RWMutex.  Every order call holds it from *)
(* its first to its last access and is one action here.  OnCandle does     *)
(* not: it copies the orders, releases the lock, fills the copy order by   *)
(* order (taking the lock once per fill) and finally writes the copy back. *)
(* Each of those critical sections is an action, and Interleaved says      *)
(* whether another goroutine (the Telegram handlers) may call the wallet   *)
(* between them.                                                           *)
(*                                                                         *)
(* Amounts are integers: prices in ticks, quantities in lots.  The one     *)
(* inexact operation of the code, the division of an average price, is     *)
(* truncated to a tick.  Times are left out.                               *)
(***************************************************************************)
EXTENDS Integers, Sequences, CoreOrder

CONSTANTS
  Pairs,          \* traded pairs; all are quoted in the base coin
  Quote,          \* the wallet's baseCoin
  Prices,         \* prices clients use
  Candles,        \* the candles OnCandle is called with
  Sizes,          \* quantities clients ask for (calls with 0 are rejected)
  Asks,           \* amounts of quote coin CreateOrderMarketQuote is asked for
  InitialQuote,   \* WithPaperAsset(baseCoin, ...)
  InitialAsset,   \* WithPaperAsset of every traded asset
  MaxOrders,      \* bound: no order is created once the list is this long,
  MaxIds,         \* or once this many ids were given out
  MaxDebt,        \* bound: no cancel once a lock is this far below zero
  Interleaved     \* may order calls run while OnCandle has the lock released

ASSUME WalletAssumption ==
  /\ Quote \notin Pairs
  /\ Prices \subseteq Nat \ {0}
  /\ Candles \subseteq [pair : Pairs, close : Nat \ {0}, high : Nat, low : Nat,
                        complete : BOOLEAN]
  /\ Sizes \subseteq Nat \ {0}
  /\ Asks \subseteq Nat \ {0}
  /\ InitialQuote \in Nat /\ InitialAsset \in Nat
  /\ MaxOrders \in Nat /\ MaxIds \in Nat /\ MaxDebt \in Nat
  /\ Interleaved \in BOOLEAN

Statuses == {New, Filled, Canceled}
Types    == {"LIMIT", "MARKET", "LIMIT_MAKER", "STOP_LOSS", "STOP_LOSS_LIMIT"}
Coins    == Pairs \cup {Quote}

Orders == [id : Nat, pair : Pairs, side : Sides, type : Types,
           status : Statuses, price : Nat, stop : Nat, qty : Nat, group : Nat]

NoCandle == [pair |-> Quote, close |-> 0, high |-> 0, low |-> 0, complete |-> FALSE]
NoQuote  == [side |-> Buy, pair |-> Quote, qty |-> 0, asked |-> 0]

VARIABLES
  free, lock,         \* assets[coin].Free and .Lock
  avgLong, avgShort,  \* avgLongPrice and avgShortPrice
  volume,             \* traded volume per pair
  lastClose,          \* lastCandle[pair].Close, 0 before the first candle
  counter,            \* the id generator
  orders,             \* the order list
  values,             \* the terms of the last of equityValues: what each coin is worth
  candle,             \* the candle OnCandle works on, NoCandle outside it
  result,             \* processOrders' private copy of the order list
  quoted              \* a CreateOrderMarketQuote between its two sections

balances == <<free, lock, avgLong, avgShort>>
market   == <<lastClose, values, candle, result>>
vars == <<free, lock, avgLong, avgShort, volume, lastClose, counter, orders,
          values, candle, result, quoted>>

Min2(a, b) == IF a <= b THEN a ELSE b
Max2(a, b) == IF a >= b THEN a ELSE b

Processing == candle # NoCandle

\* The order list the balances belong to: OnCandle settles its copy first.
Book == IF Processing THEN result ELSE orders

Init ==
  /\ free = [c \in Coins |-> IF c = Quote THEN InitialQuote ELSE InitialAsset]
  /\ lock = [c \in Coins |-> 0]
  /\ avgLong = [p \in Pairs |-> 0]
  /\ avgShort = [p \in Pairs |-> 0]
  /\ volume = [p \in Pairs |-> 0]
  /\ lastClose = [p \in Pairs |-> 0]
  /\ counter = 0
  /\ orders = << >>
  /\ values = [c \in Coins |-> 0]
  /\ candle = NoCandle
  /\ result = << >>
  /\ quoted = NoQuote

-----------------------------------------------------------------------------
(* Funds *)

\* BUG: the price of buying the short back is left out.
LiquidShortProceeds(p, price) == 2 * (-free[p]) * avgShort[p]

\* What buying back the whole short of p at a price leaves in the quote coin.
LiquidShortValue(p, price) == 2 * (-free[p]) * avgShort[p] - (-free[p]) * price

\* BUG: a purchase is checked against its quantity, not its cost.
FundsSufficeInLots(side, p, amount, value) == side = Sell \/ free[Quote] >= amount

\* The balance checks of validateSellFunds and validateBuyFunds; an order that
\* fails them is rejected and changes nothing.
FundsSuffice(side, p, amount, value) ==
  \/ /\ side = Sell
     /\ free[Quote] + Max2(free[p], 0) * value >= amount * value
  \/ /\ side = Buy /\ free[p] < 0
     /\ free[Quote] + LiquidShortValue(p, value) >= (amount + free[p]) * value
  \/ /\ side = Buy /\ free[p] >= 0
     /\ free[Quote] >= amount * value

\* The amounts an order takes: a sale uses the free asset and backs the short
\* part with the quote coin; a cover first buys back the short.
LockedAsset(side, p, amount) ==
  IF side = Sell THEN Min2(Max2(free[p], 0), amount)
                 ELSE Min2(Max2(-free[p], 0), amount)

LockedQuote(side, p, amount, value) ==
  (amount - LockedAsset(side, p, amount)) * value
    - (IF side = Buy /\ free[p] < 0 THEN LiquidShortValue(p, value) ELSE 0)

\* BUG: the whole value of the order is locked, whatever part is taken.
LockFundsWhole(side, p, amount, value) ==
  LET asset == LockedAsset(side, p, amount)
      quote == LockedQuote(side, p, amount, value)
  IN  /\ FundsSuffice(side, p, amount, value)
      /\ free' = [free EXCEPT ![p] = IF side = Sell THEN @ - asset ELSE @ + asset,
                              ![Quote] = @ - quote]
      /\ lock' = [lock EXCEPT ![p] = @ + asset, ![Quote] = @ + amount * value]
      /\ UNCHANGED <<avgLong, avgShort>>

\* validateFunds with fill = false: the balances of a pending order are locked.
LockFunds(side, p, amount, value) ==
  LET asset == LockedAsset(side, p, amount)
      quote == LockedQuote(side, p, amount, value)
  IN  /\ FundsSuffice(side, p, amount, value)
      /\ free' = [free EXCEPT ![p] = IF side = Sell THEN @ - asset ELSE @ + asset,
                              ![Quote] = @ - quote]
      /\ lock' = [lock EXCEPT ![p] = @ + asset, ![Quote] = @ + quote]
      /\ UNCHANGED <<avgLong, avgShort>>

\* BUG: the short quantity is weighted with its sign.
UpdateAveragePriceSigned(side, p, amount, value, held) ==
  /\ avgShort' = [avgShort EXCEPT ![p] =
       IF side = Sell /\ held < 0 THEN (@ * held + amount * value) \div (amount - held)
       ELSE value]
  /\ UNCHANGED avgLong

\* updateAveragePrice, where held is the free amount of the asset at the call.
UpdateAveragePrice(side, p, amount, value, held) ==
  /\ avgLong' = [avgLong EXCEPT ![p] =
       CASE side = Buy /\ held = 0 -> value
         [] side = Buy /\ held > 0 -> (@ * held + amount * value) \div (held + amount)
         [] side = Buy /\ held < 0 /\ amount > -held -> value
         [] OTHER -> @]
  /\ avgShort' = [avgShort EXCEPT ![p] =
       CASE side = Sell /\ held = 0 -> value
         [] side = Sell /\ held > 0 /\ amount > held -> value
         [] side = Sell /\ held < 0 -> (@ * (-held) + amount * value) \div (amount - held)
         [] OTHER -> @]

\* validateFunds with fill = true: the order executes at once.  A sale that
\* takes quote coin enters a short, any other sale liquidates a long.
FillFunds(side, p, amount, value) ==
  LET asset == LockedAsset(side, p, amount)
      quote == LockedQuote(side, p, amount, value)
  IN  /\ FundsSuffice(side, p, amount, value)
      /\ UpdateAveragePrice(side, p, amount, value,
                            IF side = Sell THEN free[p] - asset ELSE free[p] + asset)
      /\ free' = [free EXCEPT
           ![p] = CASE side = Buy -> @ + amount
                    [] side = Sell /\ quote > 0 -> @ - asset - amount
                    [] OTHER -> @ - asset,
           ![Quote] = IF side = Sell /\ quote = 0 THEN @ + amount * value ELSE @ - quote]
      /\ UNCHANGED lock

-----------------------------------------------------------------------------
(* Order calls: each is one critical section of the wallet's mutex *)

\* An order call gets the wallet's mutex outside OnCandle and, when a second
\* goroutine makes the call, while OnCandle has released it.  The order
\* controller's mutex admits one call at a time.
CallAllowed == (~Processing \/ Interleaved) /\ quoted = NoQuote

\* The bounds on order creation.
Room == Len(orders) < MaxOrders /\ counter < MaxIds

Order(id, p, side, type, status, price, stop, qty, group) ==
  [id |-> id, pair |-> p, side |-> side, type |-> type, status |-> status,
   price |-> price, stop |-> stop, qty |-> qty, group |-> group]

CreateOrderLimit(side, p, size, limit) ==
  /\ CallAllowed /\ Room
  /\ LockFunds(side, p, size, limit)
  /\ counter' = counter + 1
  /\ orders' = Append(orders, Order(counter', p, side, "LIMIT", New, limit, None, size, None))
  /\ UNCHANGED <<volume, market, quoted>>

CreateOrderStop(p, size, limit) ==
  /\ CallAllowed /\ Room
  /\ LockFunds(Sell, p, size, limit)
  /\ counter' = counter + 1
  /\ orders' = Append(orders,
                 Order(counter', p, Sell, "STOP_LOSS_LIMIT", New, limit, limit, size, None))
  /\ UNCHANGED <<volume, market, quoted>>

CreateOrderOCO(side, p, size, price, stop, stopLimit) ==
  /\ CallAllowed /\ Room
  /\ LockFunds(side, p, size, price)
  /\ counter' = counter + 3
  /\ orders' = orders \o
       << Order(counter + 2, p, side, "LIMIT_MAKER", New, price, None, size, counter + 1),
          Order(counter + 3, p, side, "STOP_LOSS", New, stopLimit, stop, size, counter + 1) >>
  /\ UNCHANGED <<volume, market, quoted>>

FillMarket(side, p, size) ==
  /\ FillFunds(side, p, size, lastClose[p])
  /\ volume' = [volume EXCEPT ![p] = @ + lastClose[p] * size]
  /\ counter' = counter + 1
  /\ orders' = Append(orders,
                 Order(counter', p, side, "MARKET", Filled, lastClose[p], None, size, None))
  /\ UNCHANGED market

CreateOrderMarket(side, p, size) ==
  /\ CallAllowed /\ Room
  /\ FillMarket(side, p, size)
  /\ UNCHANGED quoted

\* CreateOrderMarketQuote, first section: the asked amount of quote coin
\* becomes a quantity at the last close, then the mutex is released.
QuoteToQuantity(side, p, asked) ==
  /\ CallAllowed /\ Room
  /\ lastClose[p] > 0 /\ asked >= lastClose[p]
  /\ quoted' = [side |-> side, pair |-> p, qty |-> asked \div lastClose[p], asked |-> asked]
  /\ UNCHANGED <<balances, volume, counter, orders, market>>

\* Second section: CreateOrderMarket with that quantity, filled or rejected.
CreateOrderMarketQuote ==
  /\ quoted # NoQuote
  /\ quoted' = NoQuote
  /\ \/ FillMarket(quoted.side, quoted.pair, quoted.qty)
     \/ /\ ~FundsSuffice(quoted.side, quoted.pair, quoted.qty, lastClose[quoted.pair])
        /\ UNCHANGED <<balances, volume, counter, orders, market>>

\* Bound: locks are released until one of them is this far below zero (a
\* second cancel of an order releases its funds a second time).
InDebt == \E c \in Coins : lock[c] < -MaxDebt

\* Cancel looks at the asset's lock and never at the order's status to decide
\* what it hands back.
Cancel(i) ==
  LET o == orders[i] IN
  /\ CallAllowed
  /\ ~InDebt
  /\ orders' = [orders EXCEPT ![i].status = Canceled]
  /\ \/ /\ lock[o.pair] > 0 /\ o.side = Sell
        /\ free' = [free EXCEPT ![o.pair] = @ + o.qty]
        /\ lock' = [lock EXCEPT ![o.pair] = @ - o.qty]
     \/ /\ lock[o.pair] = 0
        /\ free' = [free EXCEPT ![Quote] = @ + o.price * o.qty]
        /\ lock' = [lock EXCEPT ![Quote] = @ - o.price * o.qty]
     \/ /\ lock[o.pair] < 0 \/ (lock[o.pair] > 0 /\ o.side = Buy)
        /\ UNCHANGED <<free, lock>>
  /\ UNCHANGED <<avgLong, avgShort, volume, counter, market, quoted>>

-----------------------------------------------------------------------------
(* OnCandle *)

IsLimitOrder(o) == o.type \in {"LIMIT", "LIMIT_MAKER"}
IsStopOrder(o)  == o.type \in {"STOP_LOSS", "STOP_LOSS_LIMIT"}

\* The price a pending order executes at.
ExecutionPrice(o) == IF o.side = Sell /\ IsStopOrder(o) THEN o.stop ELSE o.price

\* BUG: an executed order executes again at the next candle that reaches it.
ReachedAgain(o, c) ==
  /\ o.pair = c.pair /\ o.status # Canceled
  /\ IF o.side = Buy THEN o.price >= c.close ELSE c.high >= o.price

\* The candle reaches the price of the pending order.
Reached(o, c) ==
  /\ o.pair = c.pair /\ o.status = New
  /\ \/ o.side = Buy /\ o.price >= c.close
     \/ o.side = Sell /\ IsLimitOrder(o) /\ c.high >= o.price
     \/ o.side = Sell /\ IsStopOrder(o) /\ c.low <= o.stop

\* processOrders walks its copy in order; orders that are not reached are
\* skipped, so the next one to execute is the first one reached.
NextReached(i) ==
  /\ Reached(result[i], candle)
  /\ \A j \in 1 .. i - 1 : ~Reached(result[j], candle)

\* BUG: the copy holds the pending orders only.
OnCandleBeginPending(c) ==
  /\ ~Processing
  /\ Interleaved \/ quoted = NoQuote
  /\ candle' = c
  /\ lastClose' = [lastClose EXCEPT ![c.pair] = c.close]
  /\ result' = SelectSeq(orders, LAMBDA o : o.status = New)
  /\ UNCHANGED <<balances, volume, counter, orders, values, quoted>>

OnCandleBegin(c) ==
  /\ ~Processing
  /\ Interleaved \/ quoted = NoQuote
  /\ candle' = c
  /\ lastClose' = [lastClose EXCEPT ![c.pair] = c.close]
  /\ result' = orders
  /\ UNCHANGED <<balances, volume, counter, orders, values, quoted>>

ProcessBuyOrder(i) ==
  LET o == result[i] IN
  /\ Processing /\ o.side = Buy /\ NextReached(i)
  /\ volume' = [volume EXCEPT ![o.pair] = @ + o.price * o.qty]
  /\ result' = [result EXCEPT ![i].status = Filled]
  /\ UpdateAveragePrice(Buy, o.pair, o.qty, o.price, free[o.pair])
  /\ free' = [free EXCEPT ![o.pair] = @ + o.qty]
  /\ lock' = [lock EXCEPT ![Quote] = @ - o.price * o.qty]
  /\ UNCHANGED <<lastClose, counter, orders, values, candle, quoted>>

\* BUG: the executed order is taken for its own peer.
CancelOwn(res, i) ==
  LET related == {j \in DOMAIN res : res[j].group # None /\ res[j].id = res[i].id}
  IN  [j \in DOMAIN res |->
         IF j \in related THEN [res[j] EXCEPT !.status = Canceled] ELSE res[j]]

\* cancelRelatedOrdersLocked: the first other order of the group, or none.
CancelRelated(res, i) ==
  LET related == {j \in DOMAIN res : /\ res[i].group # None
                                     /\ res[j].group = res[i].group
                                     /\ res[j].id # res[i].id}
  IN  [j \in DOMAIN res |->
         IF j \in related /\ \A k \in related : j <= k
         THEN [res[j] EXCEPT !.status = Canceled] ELSE res[j]]

\* BUG: the sold quantity stays locked.
ProcessSellOrderKeepsLock(i) ==
  LET o == result[i]
      price == ExecutionPrice(o)
  IN
  /\ Processing /\ o.side = Sell /\ NextReached(i)
  /\ result' = [CancelRelated(result, i) EXCEPT ![i].status = Filled]
  /\ volume' = [volume EXCEPT ![o.pair] = @ + price * o.qty]
  /\ free' = [free EXCEPT ![Quote] = @ + price * o.qty]
  /\ UNCHANGED <<lock, avgLong, avgShort, lastClose, counter, orders, values, candle, quoted>>

ProcessSellOrder(i) ==
  LET o == result[i]
      price == ExecutionPrice(o)
  IN
  /\ Processing /\ o.side = Sell /\ NextReached(i)
  /\ result' = [CancelRelated(result, i) EXCEPT ![i].status = Filled]
  /\ volume' = [volume EXCEPT ![o.pair] = @ + price * o.qty]
  /\ UpdateAveragePrice(Sell, o.pair, o.qty, price, free[o.pair])
  /\ lock' = [lock EXCEPT ![o.pair] = @ - o.qty]
  /\ free' = [free EXCEPT ![Quote] = @ + price * o.qty]
  /\ UNCHANGED <<lastClose, counter, orders, values, candle, quoted>>

\* What an amount of the asset is worth; a short at its liquidation value.
Worth(amount, avg, price) ==
  IF amount < 0 THEN 2 * (-amount) * avg - (-amount) * price ELSE amount * price

\* updatePortfolioValues
PortfolioValues ==
  [c \in Coins |-> IF c = Quote THEN free[c] + lock[c]
                   ELSE Worth(free[c] + lock[c], avgShort[c], lastClose[c])]

OnCandleEnd ==
  /\ Processing
  /\ \A i \in DOMAIN result : ~Reached(result[i], candle)
  /\ orders' = result
  /\ values' = IF candle.complete THEN PortfolioValues ELSE values
  /\ candle' = NoCandle
  /\ result' = << >>
  /\ UNCHANGED <<balances, volume, lastClose, counter, quoted>>

OnCandleStep == (\E i \in DOMAIN result : ProcessBuyOrder(i) \/ ProcessSellOrder(i))
                \/ OnCandleEnd

-----------------------------------------------------------------------------
Next ==
  \/ \E side \in Sides, p \in Pairs, size \in Sizes :
       \/ \E limit \in Prices : CreateOrderLimit(side, p, size, limit)
       \/ CreateOrderMarket(side, p, size)
       \/ \E price, stop, stopLimit \in Prices :
            CreateOrderOCO(side, p, size, price, stop, stopLimit)
  \/ \E p \in Pairs, size \in Sizes, limit \in Prices : CreateOrderStop(p, size, limit)
  \/ \E side \in Sides, p \in Pairs, asked \in Asks : QuoteToQuantity(side, p, asked)
  \/ CreateOrderMarketQuote
  \/ \E i \in DOMAIN orders : Cancel(i)
  \/ \E c \in Candles : OnCandleBegin(c)
  \/ OnCandleStep

Spec == Init /\ [][Next]_vars

-----------------------------------------------------------------------------
(* Properties *)

\* The wallet's state keeps its shape: average prices, volumes and order ids
\* are never negative; balances of careless clients may be.
TypeOK ==
  /\ free \in [Coins -> Int] /\ lock \in [Coins -> Int]
  /\ avgLong \in [Pairs -> Nat] /\ avgShort \in [Pairs -> Nat]
  /\ volume \in [Pairs -> Nat] /\ lastClose \in [Pairs -> Nat]
  /\ counter \in Nat
  /\ orders \in Seq(Orders) /\ result \in Seq(Orders)
  /\ values \in [Coins -> Int]
  /\ candle \in Candles \cup {NoCandle}
  /\ quoted \in [side : Sides, pair : Pairs, qty : Nat, asked : Asks] \cup {NoQuote}

ExclusiveGroups(list, sides) ==
  \A i, j \in DOMAIN list :
    i # j /\ SameGroup(list[i], list[j]) /\ list[i].side \in sides
      => ~(list[i].status = Filled /\ list[j].status = Filled)

\* At most one leg of a sell OCO ever executes, in the list clients see and in
\* the copy OnCandle works on, whatever is called between its sections
\* (cancelRelatedOrdersLocked).
SellGroupsExclusive == \A list \in {orders, result} : ExclusiveGroups(list, {Sell})

Ids(list) == {list[i].id : i \in DOMAIN list}
IdsWith(list, status) == {list[i].id : i \in {j \in DOMAIN list : list[j].status = status}}

\* Identifiers of executed orders: OnCandle settles its copy first.
Executed == IdsWith(Book, Filled)

\* No step forgets an order or revives a cancelled one: what was created can be
\* looked up, cancelled and filled later (Order, Cancel and OnCandle all search
\* this list), and what its owner or its OCO group cancelled never executes.
OrdersSurvive ==
  [][/\ Ids(orders) \subseteq Ids(orders')
     /\ IdsWith(orders, Canceled) \subseteq IdsWith(orders', Canceled)]_vars

Total(c) == free[c] + lock[c]

\* A step that executes nothing moves funds between free and locked and never
\* makes or destroys any, as long as no pair is short: placing, rejecting and
\* cancelling orders, and every bookkeeping step of OnCandle.
LocksMoveFunds ==
  [][Executed' \subseteq Executed /\ (\A p \in Pairs : free[p] >= 0) =>
       \A c \in Coins : Total(c)' = Total(c)]_vars

\* The worth of a pair and the quote coin together, at the last close.
WorthWith(p) == Worth(Total(p), avgShort[p], lastClose[p]) + Total(Quote)

LastOrder == orders[Len(orders)]
MarketFill == Len(orders') > Len(orders) /\ LastOrder'.type = "MARKET"

\* A purchase that buys back only a part of a short is credited with the
\* liquidation value of the whole: the next property leaves it out.
PartialCover == LastOrder'.side = Buy /\ LastOrder'.qty < -free[LastOrder'.pair]

\* A market order trades at the last close, so it never makes money: opening,
\* extending, closing and reversing a position, long or short, leave the worth
\* of the wallet at that price where it was (less the truncated average), in
\* every state in which no asset of the pair is locked.
MarketFillsMakeNoMoney ==
  [][MarketFill /\ ~PartialCover =>
       \A p \in Pairs : LastOrder'.pair = p /\ lock[p] = 0 => WorthWith(p)' <= WorthWith(p)]_vars

=============================================================================
