-------------------------- MODULE PaperWalletSpot --------------------------
(***************************************************************************)
(* The paper wallet under the client it is written for: a spot strategy,   *)
(* called from the goroutine that feeds the candles.  It sells no more     *)
(* than the free asset, uses OCO orders to sell, and cancels only pending  *)
(* orders outside a group, a buy only while no sale is pending: Cancel     *)
(* takes any locked asset for the sign that the order is not a buy.        *)
(***************************************************************************)
EXTENDS PaperWallet, Functions

ASSUME SpotAssumption == Interleaved = FALSE

Buying ==
  \/ \E p \in Pairs, size \in Sizes :
       \/ \E limit \in Prices : CreateOrderLimit(Buy, p, size, limit)
       \/ CreateOrderMarket(Buy, p, size)
  \/ \E p \in Pairs, asked \in Asks : QuoteToQuantity(Buy, p, asked)

Selling ==
  \/ \E p \in Pairs, size \in Sizes :
       /\ size <= free[p]
       /\ \/ CreateOrderMarket(Sell, p, size)
          \/ \E limit \in Prices : CreateOrderLimit(Sell, p, size, limit)
          \/ \E limit \in Prices : CreateOrderStop(p, size, limit)
          \/ \E price, stop, stopLimit \in Prices :
               CreateOrderOCO(Sell, p, size, price, stop, stopLimit)
  \/ \E p \in Pairs, asked \in Asks :
       /\ QuoteToQuantity(Sell, p, asked)
       /\ quoted'.qty <= free[p]

Canceling == \E i \in DOMAIN orders :
  /\ orders[i].status = New /\ orders[i].group = None
  /\ orders[i].side = Buy => lock[orders[i].pair] = 0
  /\ Cancel(i)

SpotNext ==
  \/ Buying \/ Selling \/ Canceling
  \/ CreateOrderMarketQuote
  \/ \E c \in Candles : OnCandleBegin(c)
  \/ OnCandleStep

SpotSpec == Init /\ [][SpotNext]_vars

-----------------------------------------------------------------------------
(* Properties *)

\* What an order of a list stands for: a quantity of its pair, and the quote
\* coin that pays for it.
OrderCost(o) == ExecutionPrice(o) * o.qty

Qty(list)  == [i \in DOMAIN list |-> list[i].qty]
Cost(list) == [i \in DOMAIN list |-> OrderCost(list[i])]

\* The pending orders that lock funds; the legs of an OCO share one lock.
Pending(list, side, pairs) ==
  {i \in DOMAIN list :
     /\ list[i].pair \in pairs /\ list[i].side = side /\ list[i].status = New
     /\ \A j \in 1 .. i - 1 : ~SameGroup(list[i], list[j])}

Trades(list, side, pairs) ==
  {i \in DOMAIN list :
     list[i].pair \in pairs /\ list[i].side = side /\ list[i].status = Filled}

PendingQty(list, side, pairs)  == SumFunctionOnSet(Qty(list), Pending(list, side, pairs))
PendingCost(list, side, pairs) == SumFunctionOnSet(Cost(list), Pending(list, side, pairs))

\* What is locked is exactly what the pending orders will take when they
\* execute: the quantity of every pending sale and the cost of every pending
\* buy, through placing, filling, cancelling and the cancelled legs of an OCO.
LocksBackOrders ==
  /\ \A p \in Pairs : lock[p] = PendingQty(Book, Sell, {p})
  /\ lock[Quote] = PendingCost(Book, Buy, Pairs)

Volume(list, side, pairs)   == SumFunctionOnSet(Qty(list), Trades(list, side, pairs))
Turnover(list, side, pairs) == SumFunctionOnSet(Cost(list), Trades(list, side, pairs))

\* The balances are the initial ones plus the executed orders, each at its
\* execution price, and the volume is their turnover: no order executes twice,
\* none executes without its counterpart.
BooksBalance ==
  /\ \A p \in Pairs :
       /\ Total(p) = InitialAsset + Volume(Book, Buy, {p}) - Volume(Book, Sell, {p})
       /\ volume[p] = Turnover(Book, Buy, {p}) + Turnover(Book, Sell, {p})
  /\ Total(Quote) = InitialQuote + Turnover(Book, Sell, Pairs) - Turnover(Book, Buy, Pairs)

\* A client that never sells more than it has free never owes anything: no
\* balance, free or locked, falls below zero at any step of OnCandle.
NoOverdraft == \A c \in Coins : free[c] >= 0 /\ lock[c] >= 0

\* The order list keeps the promises of an exchange's order book.
OB == INSTANCE OrderBook WITH book <- Book
OrderBookRefined == OB!Spec
=============================================================================
