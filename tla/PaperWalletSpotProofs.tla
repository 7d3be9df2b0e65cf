------------------------ MODULE PaperWalletSpotProofs ------------------------
(***************************************************************************)
(* Proofs about the paper wallet.  The first sections hold for every       *)
(* client and every interleaving: types, sell groups, calls that wait for  *)
(* OnCandle, what moves the funds and what market fills are worth.  The    *)
(* others are about the client the wallet is written for: what is locked,  *)
(* the balances, and the order book that the list implements.              *)
(*                                                                         *)
(* A step of the wallet does one of three things to the order list: it     *)
(* appends the legs of one new order, it closes a pending order together   *)
(* with its group, or it leaves the list alone.  What each does to the     *)
(* sums over the list comes first, then that every step is one of them and *)
(* moves the balances by the same amounts.                                 *)
(***************************************************************************)
EXTENDS PaperWalletSpot, BookkeepingTheorems, SequenceTheorems

-----------------------------------------------------------------------------
(* Arithmetic and sequences *)

\* Products and truncated quotients of natural numbers, as in the average
\* prices and the volumes, are natural numbers.
LEMMA NatProduct == \A a, b \in Nat : a * b \in Nat
  BY SMT

LEMMA SumOfProduct == \A a, b, c \in Nat : a + b * c \in Nat
  BY SMT

LEMMA NatQuotient == \A a \in Nat, b \in Nat \ {0} : a \div b \in Nat
  BY SMT

\* Changing the status of one entry keeps a list of orders one.
LEMMA StatusUpdate ==
  ASSUME NEW list \in Seq(Orders), NEW i \in DOMAIN list, NEW s \in Statuses
  PROVE  /\ [list EXCEPT ![i].status = s] \in Seq(Orders)
         /\ DOMAIN [list EXCEPT ![i].status = s] = DOMAIN list
  <1>1. list \in [1 .. Len(list) -> Orders] /\ Len(list) \in Nat /\ DOMAIN list = 1 .. Len(list)
    BY LenProperties
  <1>2. [list[i] EXCEPT !.status = s] \in Orders
    BY <1>1 DEF Orders
  <1>3. [list EXCEPT ![i].status = s] \in [1 .. Len(list) -> Orders]
    BY <1>1, <1>2
  <1>. QED
    BY <1>1, <1>3, SeqDef

\* An execution cancels at most one other entry and keeps the list one.
LEMMA RelatedUpdate ==
  ASSUME NEW list \in Seq(Orders), NEW i \in DOMAIN list
  PROVE  /\ CancelRelated(list, i) \in Seq(Orders)
         /\ DOMAIN CancelRelated(list, i) = DOMAIN list
  <1>1. list \in [1 .. Len(list) -> Orders] /\ Len(list) \in Nat /\ DOMAIN list = 1 .. Len(list)
    BY LenProperties
  <1>2. \A j \in DOMAIN list : [list[j] EXCEPT !.status = Canceled] \in Orders
    BY <1>1 DEF Orders, Statuses
  <1>3. CancelRelated(list, i) \in [1 .. Len(list) -> Orders]
    BY <1>1, <1>2 DEF CancelRelated
  <1>. QED
    BY <1>1, <1>3, SeqDef

-----------------------------------------------------------------------------
(* Type correctness *)

\* What a filled order leaves of the average prices.
LEMMA AverageTypes ==
  ASSUME TypeOK, WalletAssumption, NEW side \in Sides, NEW p \in Pairs,
         NEW amount \in Nat, NEW value \in Nat, NEW held \in Int,
         UpdateAveragePrice(side, p, amount, value, held)
  PROVE  avgLong' \in [Pairs -> Nat] /\ avgShort' \in [Pairs -> Nat]
  <1>1. avgLong[p] \in Nat /\ avgShort[p] \in Nat
    BY DEF TypeOK
  <1>2. ASSUME held > 0
        PROVE  (avgLong[p] * held + amount * value) \div (held + amount) \in Nat
    <2>1. avgLong[p] * held \in Nat /\ amount * value \in Nat
      BY <1>1, <1>2, NatProduct
    <2>2. avgLong[p] * held + amount * value \in Nat /\ held + amount \in Nat \ {0}
      BY <1>2, <2>1
    <2>. QED
      BY <2>2, NatQuotient
  <1>3. ASSUME held < 0
        PROVE  (avgShort[p] * (-held) + amount * value) \div (amount - held) \in Nat
    <2>1. avgShort[p] * (-held) \in Nat /\ amount * value \in Nat
      BY <1>1, <1>3, NatProduct
    <2>2. avgShort[p] * (-held) + amount * value \in Nat /\ amount - held \in Nat \ {0}
      BY <1>3, <2>1
    <2>. QED
      BY <2>2, NatQuotient
  <1>4. avgLong' \in [Pairs -> Nat]
    BY <1>1, <1>2 DEF UpdateAveragePrice, TypeOK, Sides, Buy, Sell
  <1>5. avgShort' \in [Pairs -> Nat]
    BY <1>1, <1>3 DEF UpdateAveragePrice, TypeOK, Sides, Buy, Sell
  <1>. QED
    BY <1>4, <1>5

\* The balances an order takes are integers.
LEMMA LockedTypes ==
  ASSUME TypeOK, NEW side \in Sides, NEW p \in Pairs,
         NEW amount \in Nat, NEW value \in Nat
  PROVE  /\ LockedAsset(side, p, amount) \in Int
         /\ LockedQuote(side, p, amount, value) \in Int
  <1>1. free[p] \in Int /\ avgShort[p] \in Int
    BY DEF TypeOK, Coins
  <1>2. LockedAsset(side, p, amount) \in Int
    BY <1>1 DEF LockedAsset, Min2, Max2
  <1>. QED
    BY <1>1, <1>2 DEF LockedQuote, LiquidShortValue

LEMMA FundsTypes ==
  ASSUME TypeOK, WalletAssumption, NEW side \in Sides, NEW p \in Pairs,
         NEW amount \in Nat, NEW value \in Nat,
         LockFunds(side, p, amount, value) \/ FillFunds(side, p, amount, value)
  PROVE  /\ free' \in [Coins -> Int] /\ lock' \in [Coins -> Int]
         /\ avgLong' \in [Pairs -> Nat] /\ avgShort' \in [Pairs -> Nat]
  <1>1. free \in [Coins -> Int] /\ lock \in [Coins -> Int] /\ p \in Coins /\ Quote \in Coins
    BY DEF TypeOK, Coins
  <1>2. /\ LockedAsset(side, p, amount) \in Int
        /\ LockedQuote(side, p, amount, value) \in Int
    BY LockedTypes
  <1>3. CASE LockFunds(side, p, amount, value)
    <2>1. UNCHANGED <<avgLong, avgShort>>
      BY <1>3 DEF LockFunds
    <2>2. free' \in [Coins -> Int] /\ lock' \in [Coins -> Int]
      BY <1>1, <1>2, <1>3 DEF LockFunds
    <2>. QED
      BY <2>1, <2>2 DEF TypeOK
  <1>4. CASE FillFunds(side, p, amount, value)
    <2>1. free' \in [Coins -> Int] /\ lock' \in [Coins -> Int]
      <3>1. amount * value \in Int
        OBVIOUS
      <3>. QED
        BY <1>1, <1>2, <1>4, <3>1 DEF FillFunds
    <2>2. PICK held \in Int : UpdateAveragePrice(side, p, amount, value, held)
      BY <1>1, <1>2, <1>4 DEF FillFunds
    <2>. QED
      BY <2>1, <2>2, AverageTypes
  <1>. QED
    BY <1>3, <1>4

\* A new entry of the order list is an order.
LEMMA OrderTypes ==
  ASSUME NEW id \in Nat, NEW p \in Pairs, NEW side \in Sides, NEW type \in Types,
         NEW status \in Statuses, NEW price \in Nat, NEW stop \in Nat,
         NEW qty \in Nat, NEW group \in Nat
  PROVE  Order(id, p, side, type, status, price, stop, qty, group) \in Orders
  BY DEF Order, Orders

LEMMA InitTypes ==
  ASSUME WalletAssumption, Init
  PROVE  TypeOK
  <1>1. free \in [Coins -> Int] /\ lock \in [Coins -> Int] /\ values \in [Coins -> Int]
    BY DEF Init, WalletAssumption
  <1>2. << >> \in Seq(Orders)
    BY EmptySeq
  <1>. QED
    BY <1>1, <1>2 DEF Init, TypeOK

\* The calls that place a pending order.
LEMMA PlaceTypes ==
  ASSUME TypeOK, WalletAssumption, NEW side \in Sides, NEW p \in Pairs, NEW size \in Nat \ {0},
         NEW price \in Nat, NEW stop \in Nat, NEW stopLimit \in Nat,
         \/ CreateOrderLimit(side, p, size, price)
         \/ CreateOrderStop(p, size, price)
         \/ CreateOrderOCO(side, p, size, price, stop, stopLimit)
  PROVE  TypeOK'
  <1>1. /\ size \in Nat \ {0} /\ price \in Nat /\ stop \in Nat /\ stopLimit \in Nat
        /\ counter \in Nat /\ orders \in Seq(Orders)
        /\ Sell \in Sides /\ New \in Statuses /\ None \in Nat
        /\ {"LIMIT", "STOP_LOSS_LIMIT", "LIMIT_MAKER", "STOP_LOSS"} \subseteq Types
    BY DEF WalletAssumption, TypeOK, Sides, Statuses, Types, None
  <1>2. PICK s \in Sides : LockFunds(s, p, size, price)
    BY <1>1 DEF CreateOrderLimit, CreateOrderStop, CreateOrderOCO
  <1>3. /\ free' \in [Coins -> Int] /\ lock' \in [Coins -> Int]
        /\ avgLong' \in [Pairs -> Nat] /\ avgShort' \in [Pairs -> Nat]
    BY <1>1, <1>2, FundsTypes
  <1>4. counter' \in Nat
    BY <1>1 DEF CreateOrderLimit, CreateOrderStop, CreateOrderOCO
  <1>5. orders' \in Seq(Orders)
    <2>1. CASE CreateOrderLimit(side, p, size, price)
      <3>1. Order(counter', p, side, "LIMIT", New, price, None, size, None) \in Orders
        BY <1>1, <1>4, OrderTypes
      <3>. QED
        BY <1>1, <2>1, <3>1, AppendProperties DEF CreateOrderLimit
    <2>2. CASE CreateOrderStop(p, size, price)
      <3>1. Order(counter', p, Sell, "STOP_LOSS_LIMIT", New, price, price, size, None) \in Orders
        BY <1>1, <1>4, OrderTypes
      <3>. QED
        BY <1>1, <2>2, <3>1, AppendProperties DEF CreateOrderStop
    <2>3. CASE CreateOrderOCO(side, p, size, price, stop, stopLimit)
      <3>. DEFINE leg1 == Order(counter + 2, p, side, "LIMIT_MAKER", New, price, None, size,
                                counter + 1)
                  leg2 == Order(counter + 3, p, side, "STOP_LOSS", New, stopLimit, stop, size,
                                counter + 1)
      <3>0. counter + 1 \in Nat /\ counter + 2 \in Nat /\ counter + 3 \in Nat
        BY <1>1
      <3>1. leg1 \in Orders
        BY <1>1, <3>0, OrderTypes
      <3>2. leg2 \in Orders
        BY <1>1, <3>0, OrderTypes
      <3>. HIDE DEF leg1, leg2
      <3>3. << leg1, leg2 >> \in Seq(Orders)
        BY <3>1, <3>2
      <3>. QED
        BY <1>1, <2>3, <3>3, ConcatProperties DEF CreateOrderOCO, leg1, leg2
    <2>. QED
      BY <2>1, <2>2, <2>3
  <1>6. UNCHANGED <<volume, market, quoted>>
    BY DEF CreateOrderLimit, CreateOrderStop, CreateOrderOCO
  <1>. QED
    BY <1>3, <1>4, <1>5, <1>6 DEF TypeOK, market

LEMMA FillMarketTypes ==
  ASSUME TypeOK, WalletAssumption, NEW side \in Sides, NEW p \in Pairs,
         NEW size \in Nat, FillMarket(side, p, size)
  PROVE  /\ free' \in [Coins -> Int] /\ lock' \in [Coins -> Int]
         /\ avgLong' \in [Pairs -> Nat] /\ avgShort' \in [Pairs -> Nat]
         /\ volume' \in [Pairs -> Nat] /\ counter' \in Nat /\ orders' \in Seq(Orders)
         /\ UNCHANGED market
  <1>1. /\ lastClose[p] \in Nat /\ counter \in Nat /\ orders \in Seq(Orders)
        /\ Filled \in Statuses /\ None \in Nat /\ "MARKET" \in Types
    BY DEF TypeOK, Statuses, Types, None
  <1>2. FillFunds(side, p, size, lastClose[p])
    BY DEF FillMarket
  <1>3. volume[p] + lastClose[p] * size \in Nat
    BY <1>1, SumOfProduct DEF TypeOK
  <1>4. counter' \in Nat
    BY <1>1 DEF FillMarket
  <1>5. Order(counter', p, side, "MARKET", Filled, lastClose[p], None, size, None) \in Orders
    BY <1>1, <1>4, OrderTypes
  <1>6. orders' \in Seq(Orders)
    BY <1>1, <1>5, AppendProperties DEF FillMarket
  <1>7. volume' \in [Pairs -> Nat]
    BY <1>3 DEF FillMarket, TypeOK
  <1>. QED
    BY <1>1, <1>2, <1>4, <1>6, <1>7, FundsTypes DEF FillMarket

LEMMA CancelTypes ==
  ASSUME TypeOK, NEW i \in DOMAIN orders, Cancel(i)
  PROVE  TypeOK'
  <1>1. orders[i] \in Orders
    BY LenProperties, ElementOfSeq DEF TypeOK
  <1>. DEFINE cost == orders[i].price * orders[i].qty
  <1>2. orders[i].pair \in Pairs /\ orders[i].qty \in Nat /\ orders[i].price \in Nat
    BY <1>1 DEF Orders
  <1>3. /\ orders[i].pair \in Coins /\ Quote \in Coins
        /\ orders[i].qty \in Int /\ orders[i].price \in Int
        /\ free \in [Coins -> Int] /\ lock \in [Coins -> Int]
    BY <1>2 DEF Coins, TypeOK
  <1>4. free[Quote] + cost \in Int /\ lock[Quote] - cost \in Int
    BY <1>3
  <1>5. free' \in [Coins -> Int] /\ lock' \in [Coins -> Int]
    BY <1>3, <1>4 DEF Cancel
  <1>6. orders' \in Seq(Orders)
    BY StatusUpdate DEF Cancel, TypeOK, Statuses
  <1>7. UNCHANGED <<avgLong, avgShort, volume, counter, market, quoted>>
    BY DEF Cancel
  <1>. QED
    BY <1>5, <1>6, <1>7 DEF TypeOK, market

\* The steps of processOrders.
LEMMA ProcessTypes ==
  ASSUME TypeOK, WalletAssumption, NEW i \in DOMAIN result,
         ProcessBuyOrder(i) \/ ProcessSellOrder(i)
  PROVE  TypeOK'
  <1>. DEFINE o == result[i]
  <1>1. /\ o \in Orders /\ result \in Seq(Orders)
        /\ Quote \in Coins /\ Buy \in Sides /\ Sell \in Sides
        /\ Filled \in Statuses
    BY LenProperties, ElementOfSeq DEF TypeOK, Coins, Sides, Statuses
  <1>2. /\ o.pair \in Pairs /\ o.pair \in Coins
        /\ free \in [Coins -> Int] /\ lock \in [Coins -> Int] /\ volume \in [Pairs -> Nat]
        /\ free[o.pair] \in Int /\ free[Quote] \in Int /\ lock[o.pair] \in Int
        /\ lock[Quote] \in Int /\ volume[o.pair] \in Nat
    BY <1>1 DEF Orders, Coins, TypeOK
  <1>3. o.qty \in Nat /\ o.price \in Nat /\ ExecutionPrice(o) \in Nat
    BY <1>1 DEF Orders, ExecutionPrice
  <1>4. CASE ProcessBuyOrder(i)
    <2>1. /\ volume[o.pair] + o.price * o.qty \in Nat
          /\ lock[Quote] - o.price * o.qty \in Int
      BY <1>2, <1>3, NatProduct
    <2>2. /\ volume' = [volume EXCEPT ![o.pair] = @ + o.price * o.qty]
          /\ free' = [free EXCEPT ![o.pair] = @ + o.qty]
          /\ lock' = [lock EXCEPT ![Quote] = @ - o.price * o.qty]
      BY <1>4 DEF ProcessBuyOrder
    <2>3. volume' \in [Pairs -> Nat] /\ free' \in [Coins -> Int] /\ lock' \in [Coins -> Int]
      <3>. DEFINE v == volume[o.pair] + o.price * o.qty
                  f == free[o.pair] + o.qty
                  l == lock[Quote] - o.price * o.qty
      <3>1. v \in Nat /\ f \in Int /\ l \in Int
        BY <1>2, <1>3, <2>1
      <3>2. /\ volume' = [volume EXCEPT ![o.pair] = v]
            /\ free' = [free EXCEPT ![o.pair] = f]
            /\ lock' = [lock EXCEPT ![Quote] = l]
        BY <2>2
      <3>. HIDE DEF v, f, l, o
      <3>. QED
        BY <1>1, <1>2, <3>1, <3>2
    <2>4. result' \in Seq(Orders)
      BY <1>1, <1>4, StatusUpdate DEF ProcessBuyOrder
    <2>5. avgLong' \in [Pairs -> Nat] /\ avgShort' \in [Pairs -> Nat]
      BY <1>1, <1>2, <1>3, <1>4, AverageTypes DEF ProcessBuyOrder
    <2>6. UNCHANGED <<lastClose, counter, orders, values, candle, quoted>>
      BY <1>4 DEF ProcessBuyOrder
    <2>. QED
      BY <2>3, <2>4, <2>5, <2>6 DEF TypeOK
  <1>5. CASE ProcessSellOrder(i)
    <2>1. /\ volume[o.pair] + ExecutionPrice(o) * o.qty \in Nat
          /\ free[Quote] + ExecutionPrice(o) * o.qty \in Int
      BY <1>2, <1>3, NatProduct
    <2>2. /\ volume' = [volume EXCEPT ![o.pair] = @ + ExecutionPrice(o) * o.qty]
          /\ lock' = [lock EXCEPT ![o.pair] = @ - o.qty]
          /\ free' = [free EXCEPT ![Quote] = @ + ExecutionPrice(o) * o.qty]
      BY <1>5 DEF ProcessSellOrder
    <2>3. volume' \in [Pairs -> Nat] /\ free' \in [Coins -> Int] /\ lock' \in [Coins -> Int]
      <3>. DEFINE v == volume[o.pair] + ExecutionPrice(o) * o.qty
                  f == free[Quote] + ExecutionPrice(o) * o.qty
                  l == lock[o.pair] - o.qty
      <3>1. v \in Nat /\ f \in Int /\ l \in Int
        BY <1>2, <1>3, <2>1
      <3>2. /\ volume' = [volume EXCEPT ![o.pair] = v]
            /\ free' = [free EXCEPT ![Quote] = f]
            /\ lock' = [lock EXCEPT ![o.pair] = l]
        BY <2>2
      <3>. HIDE DEF v, f, l, o
      <3>. QED
        BY <1>1, <1>2, <3>1, <3>2
    <2>4. result' \in Seq(Orders)
      BY <1>1, <1>5, StatusUpdate, RelatedUpdate DEF ProcessSellOrder
    <2>5. avgLong' \in [Pairs -> Nat] /\ avgShort' \in [Pairs -> Nat]
      BY <1>1, <1>2, <1>3, <1>5, AverageTypes DEF ProcessSellOrder
    <2>6. UNCHANGED <<lastClose, counter, orders, values, candle, quoted>>
      BY <1>5 DEF ProcessSellOrder
    <2>. QED
      BY <2>3, <2>4, <2>5, <2>6 DEF TypeOK
  <1>. QED
    BY <1>4, <1>5

LEMMA OnCandleTypes ==
  ASSUME TypeOK, WalletAssumption
  PROVE  /\ \A c \in Candles : OnCandleBegin(c) => TypeOK'
         /\ OnCandleEnd => TypeOK'
  <1>1. ASSUME NEW c \in Candles, OnCandleBegin(c)
        PROVE  TypeOK'
    <2>1. c.pair \in Pairs /\ c.close \in Nat
      BY DEF WalletAssumption
    <2>. QED
      BY <1>1, <2>1 DEF OnCandleBegin, TypeOK, balances
  <1>2. ASSUME OnCandleEnd
        PROVE  TypeOK'
    <2>1. \A c \in Coins : free[c] \in Int /\ lock[c] \in Int
      BY DEF TypeOK
    <2>2. \A c \in Coins \ {Quote} : avgShort[c] \in Int /\ lastClose[c] \in Int
      BY DEF TypeOK, Coins
    <2>3. \A amount, avg, price \in Int : Worth(amount, avg, price) \in Int
      BY DEF Worth
    <2>4. PortfolioValues \in [Coins -> Int]
      <3>1. ASSUME NEW c \in Coins \ {Quote}
            PROVE  Worth(free[c] + lock[c], avgShort[c], lastClose[c]) \in Int
        <4>1. free[c] + lock[c] \in Int
          BY <2>1
        <4>. QED
          BY <2>2, <2>3, <4>1
      <3>2. \A c \in Coins : free[c] + lock[c] \in Int
        BY <2>1
      <3>. QED
        BY <3>1, <3>2 DEF PortfolioValues
    <2>5. values' \in [Coins -> Int]
      BY <1>2, <2>4 DEF OnCandleEnd, TypeOK
    <2>6. << >> \in Seq(Orders)
      BY EmptySeq
    <2>. QED
      BY <1>2, <2>5, <2>6 DEF OnCandleEnd, TypeOK, balances
  <1>. QED
    BY <1>1, <1>2

LEMMA QuoteTypes ==
  ASSUME TypeOK, WalletAssumption
  PROVE  /\ \A side \in Sides, p \in Pairs, asked \in Asks :
              QuoteToQuantity(side, p, asked) => TypeOK'
         /\ CreateOrderMarketQuote => TypeOK'
  <1>1. ASSUME NEW side \in Sides, NEW p \in Pairs, NEW asked \in Asks,
               QuoteToQuantity(side, p, asked)
        PROVE  TypeOK'
    <2>1. lastClose[p] \in Nat \ {0} /\ asked \in Nat
      BY <1>1 DEF QuoteToQuantity, TypeOK, WalletAssumption
    <2>2. asked \div lastClose[p] \in Nat
      BY <2>1, NatQuotient
    <2>. QED
      BY <1>1, <2>2 DEF QuoteToQuantity, TypeOK, balances, market
  <1>2. ASSUME CreateOrderMarketQuote
        PROVE  TypeOK'
    <2>1. /\ quoted.side \in Sides /\ quoted.pair \in Pairs /\ quoted.qty \in Nat
      BY <1>2 DEF CreateOrderMarketQuote, TypeOK
    <2>2. CASE FillMarket(quoted.side, quoted.pair, quoted.qty)
      BY <1>2, <2>1, <2>2, FillMarketTypes DEF CreateOrderMarketQuote, TypeOK, market
    <2>3. CASE UNCHANGED <<balances, volume, counter, orders, market>>
      BY <1>2, <2>3 DEF CreateOrderMarketQuote, TypeOK, balances, market
    <2>. QED
      BY <1>2, <2>2, <2>3 DEF CreateOrderMarketQuote
  <1>. QED
    BY <1>1, <1>2

\* The steps of the wallet whatever sizes and prices its clients use: those of
\* Next, and those of the strategies, which compute theirs.
AnyNext ==
  \/ \E side \in Sides, p \in Pairs, size \in Nat \ {0} :
       \/ CreateOrderMarket(side, p, size)
       \/ \E limit \in Nat : \/ CreateOrderLimit(side, p, size, limit)
                            \/ CreateOrderStop(p, size, limit)
       \/ \E price, stop, stopLimit \in Nat :
            CreateOrderOCO(side, p, size, price, stop, stopLimit)
  \/ \E side \in Sides, p \in Pairs, asked \in Asks : QuoteToQuantity(side, p, asked)
  \/ CreateOrderMarketQuote
  \/ \E i \in DOMAIN orders : Cancel(i)
  \/ \E c \in Candles : OnCandleBegin(c)
  \/ OnCandleStep

LEMMA NextIsAny ==
  ASSUME WalletAssumption, [Next]_vars
  PROVE  [AnyNext]_vars
  <1>1. /\ Sizes \subseteq Nat \ {0} /\ Prices \subseteq Nat /\ Sell \in Sides
    BY DEF WalletAssumption, Sides
  <1>. QED
    BY <1>1 DEF Next, AnyNext

LEMMA NextTypes ==
  ASSUME TypeOK, WalletAssumption, [AnyNext]_vars
  PROVE  TypeOK'
  <1>1. ASSUME NEW side \in Sides, NEW p \in Pairs, NEW size \in Nat \ {0}, NEW limit \in Nat,
               CreateOrderLimit(side, p, size, limit)
        PROVE  TypeOK'
    BY <1>1, PlaceTypes
  <1>2. ASSUME NEW side \in Sides, NEW p \in Pairs, NEW size \in Nat \ {0},
               CreateOrderMarket(side, p, size)
        PROVE  TypeOK'
    <2>1. size \in Nat
      BY DEF WalletAssumption
    <2>2. FillMarket(side, p, size) /\ UNCHANGED quoted
      BY <1>2 DEF CreateOrderMarket
    <2>. QED
      BY <2>1, <2>2, FillMarketTypes DEF TypeOK, market
  <1>3. ASSUME NEW side \in Sides, NEW p \in Pairs, NEW size \in Nat \ {0},
               NEW price \in Nat, NEW stop \in Nat, NEW stopLimit \in Nat,
               CreateOrderOCO(side, p, size, price, stop, stopLimit)
        PROVE  TypeOK'
    BY <1>3, PlaceTypes
  <1>4. ASSUME NEW p \in Pairs, NEW size \in Nat \ {0}, NEW limit \in Nat,
               CreateOrderStop(p, size, limit)
        PROVE  TypeOK'
    <2>1. Sell \in Sides
      BY DEF Sides
    <2>. QED
      BY <1>4, <2>1, PlaceTypes
  <1>5. ASSUME NEW side \in Sides, NEW p \in Pairs, NEW asked \in Asks,
               QuoteToQuantity(side, p, asked)
        PROVE  TypeOK'
    BY <1>5, QuoteTypes
  <1>6. CASE CreateOrderMarketQuote
    BY <1>6, QuoteTypes
  <1>7. ASSUME NEW i \in DOMAIN orders, Cancel(i)
        PROVE  TypeOK'
    BY <1>7, CancelTypes
  <1>8. ASSUME NEW c \in Candles, OnCandleBegin(c)
        PROVE  TypeOK'
    BY <1>8, OnCandleTypes
  <1>9. CASE OnCandleStep
    BY <1>9, ProcessTypes, OnCandleTypes DEF OnCandleStep
  <1>10. CASE UNCHANGED vars
    BY <1>10 DEF vars, TypeOK
  <1>. QED
    BY <1>1, <1>2, <1>3, <1>4, <1>5, <1>6, <1>7, <1>8, <1>9, <1>10 DEF AnyNext

\* The state keeps its types whatever clients do: in particular no average
\* price, volume, order quantity or order price ever becomes negative, and a
\* division by an average's quantity is never one by zero.
THEOREM TypeCorrect == Spec => []TypeOK
  <1>1. Init => TypeOK
    BY WalletAssumption, InitTypes
  <1>2. TypeOK /\ [Next]_vars => TypeOK'
    BY WalletAssumption, NextIsAny, NextTypes
  <1>. QED
    BY <1>1, <1>2, PTL DEF Spec

-----------------------------------------------------------------------------
(* Sell groups *)

\* Identifiers and groups were handed out by the counter, an id once, a group
\* to at most two orders.
Legs(list, n) ==
  /\ \A i \in DOMAIN list : list[i].id <= n /\ list[i].group <= n
  /\ \A i, j \in DOMAIN list : i # j => list[i].id # list[j].id
  /\ \A i, j, k \in DOMAIN list :
       SameGroup(list[i], list[j]) /\ SameGroup(list[i], list[k]) /\ i # j /\ i # k => j = k

\* The other leg of an executed sale is cancelled.
Settled(list) ==
  \A i, j \in DOMAIN list :
    i # j /\ SameGroup(list[i], list[j]) /\ list[i].side = Sell /\ list[i].status = Filled
      => list[j].status = Canceled

GroupInv ==
  /\ TypeOK
  /\ Legs(orders, counter) /\ Settled(orders)
  /\ Legs(result, counter) /\ Settled(result)

LEMMA EntryTypes ==
  ASSUME NEW list \in Seq(Orders), NEW i \in DOMAIN list
  PROVE  list[i] \in Orders /\ list[i].id \in Nat /\ list[i].group \in Nat
  <1>1. list[i] \in Orders
    BY LenProperties, ElementOfSeq
  <1>. QED
    BY <1>1 DEF Orders

\* Legs looks at neither side, status, price nor quantity.
LEMMA LegsKept ==
  ASSUME NEW old \in Seq(Orders), NEW new \in Seq(Orders), NEW n \in Nat,
         Legs(old, n), DOMAIN new = DOMAIN old,
         \A i \in DOMAIN old : new[i].id = old[i].id /\ new[i].group = old[i].group
  PROVE  Legs(new, n)
  BY DEF Legs, SameGroup

LEMMA LegsMonotonic ==
  ASSUME NEW list \in Seq(Orders), NEW n \in Nat, NEW m \in Nat, n <= m, Legs(list, n)
  PROVE  Legs(list, m)
  <1>1. ASSUME NEW i \in DOMAIN list
        PROVE  list[i].id <= m /\ list[i].group <= m
    <2>1. list[i].id \in Nat /\ list[i].group \in Nat
      BY EntryTypes
    <2>2. list[i].id <= n /\ list[i].group <= n
      BY DEF Legs
    <2>. QED
      BY <2>1, <2>2
  <1>. QED
    BY <1>1 DEF Legs

\* An order appended with a fresh id and no group.
LEMMA LegsAppend ==
  ASSUME NEW list \in Seq(Orders), NEW n \in Nat, Legs(list, n), Settled(list),
         NEW o \in Orders, o.id = n + 1, o.group = None
  PROVE  Legs(Append(list, o), n + 1) /\ Settled(Append(list, o))
  <1>. DEFINE new == Append(list, o)
              len == Len(list)
  <1>1. /\ len \in Nat /\ DOMAIN list = 1 .. len /\ DOMAIN new = 1 .. len + 1
        /\ \A i \in 1 .. len : new[i] = list[i]
        /\ new[len + 1] = o
    BY AppendProperties, LenProperties
  <1>2. \A i \in 1 .. len : list[i].id \in Nat /\ list[i].group \in Nat
    BY <1>1, EntryTypes
  <1>. HIDE DEF new, len
  <1>3. \A i \in 1 .. len + 1 : i \in 1 .. len \/ i = len + 1
    BY <1>1
  <1>4. \A i, j \in 1 .. len + 1 : SameGroup(new[i], new[j]) => i \in 1 .. len /\ j \in 1 .. len
    BY <1>1, <1>3 DEF SameGroup
  <1>5. \A i \in 1 .. len : list[i].id <= n /\ list[i].group <= n
    BY <1>1 DEF Legs
  <1>6. \A i \in 1 .. len + 1 : new[i].id <= n + 1 /\ new[i].group <= n + 1
    BY <1>1, <1>2, <1>3, <1>5 DEF None
  <1>7. \A i, j \in 1 .. len + 1 : i # j => new[i].id # new[j].id
    <2>1. \A i \in 1 .. len : list[i].id # n + 1
      BY <1>2, <1>5
    <2>. QED
      BY <1>1, <1>3, <2>1 DEF Legs
  <1>8. Legs(new, n + 1)
    BY <1>1, <1>4, <1>6, <1>7 DEF Legs
  <1>9. Settled(new)
    BY <1>1, <1>4 DEF Settled
  <1>. QED
    BY <1>8, <1>9 DEF new

\* Two orders appended with fresh ids and a fresh group.
LEMMA LegsGroup ==
  ASSUME NEW list \in Seq(Orders), NEW n \in Nat, Legs(list, n), Settled(list),
         NEW o \in Orders, NEW q \in Orders, o.id = n + 2, q.id = n + 3,
         o.group = n + 1, q.group = n + 1, o.status = New, q.status = New
  PROVE  Legs(list \o <<o, q>>, n + 3) /\ Settled(list \o <<o, q>>)
  <1>. DEFINE new == list \o <<o, q>>
              len == Len(list)
  <1>0. <<o, q>> \in Seq(Orders) /\ Len(<<o, q>>) = 2 /\ <<o, q>>[1] = o /\ <<o, q>>[2] = q
    OBVIOUS
  <1>1. /\ len \in Nat /\ DOMAIN list = 1 .. len /\ DOMAIN new = 1 .. len + 2
        /\ \A i \in 1 .. len : new[i] = list[i]
        /\ new[len + 1] = o /\ new[len + 2] = q
    BY <1>0, ConcatProperties, LenProperties
  <1>2. \A i \in 1 .. len : list[i].id \in Nat /\ list[i].group \in Nat
    BY <1>1, EntryTypes
  <1>. HIDE DEF new, len
  <1>3. \A i \in 1 .. len + 2 : i \in 1 .. len \/ i = len + 1 \/ i = len + 2
    BY <1>1
  <1>4. \A i \in 1 .. len : new[i].id <= n /\ new[i].group <= n
    BY <1>1 DEF Legs
  <1>5. \A i \in 1 .. len : new[i].id \in Nat /\ new[i].group \in Nat
    BY <1>1, <1>2
  <1>6. \A i \in 1 .. len : /\ new[i].id # n + 2 /\ new[i].id # n + 3 /\ new[i].group # n + 1
                           /\ new[i].id <= n + 3 /\ new[i].group <= n + 3
    BY <1>4, <1>5
  <1>7. \A i \in {len + 1, len + 2} : new[i].group = n + 1 /\ new[i].status = New
    BY <1>1
  <1>8. \A i, j \in 1 .. len + 2 :
          SameGroup(new[i], new[j]) =>
            \/ i \in 1 .. len /\ j \in 1 .. len
            \/ i \in {len + 1, len + 2} /\ j \in {len + 1, len + 2}
    BY <1>3, <1>6, <1>7 DEF SameGroup
  <1>9. \A i \in 1 .. len + 2 : new[i].id <= n + 3 /\ new[i].group <= n + 3
    <2>1. /\ new[len + 1].id <= n + 3 /\ new[len + 1].group <= n + 3
          /\ new[len + 2].id <= n + 3 /\ new[len + 2].group <= n + 3
      BY <1>1
    <2>. QED
      BY <1>3, <1>6, <2>1
  <1>10. \A i, j \in 1 .. len + 2 : i # j => new[i].id # new[j].id
    <2>1. \A i, j \in 1 .. len : i # j => new[i].id # new[j].id
      BY <1>1 DEF Legs
    <2>2. new[len + 1].id = n + 2 /\ new[len + 2].id = n + 3 /\ n + 2 # n + 3
      BY <1>1
    <2>. QED
      BY <1>3, <1>6, <2>1, <2>2
  <1>11. \A i, j, k \in 1 .. len + 2 :
          SameGroup(new[i], new[j]) /\ SameGroup(new[i], new[k]) /\ i # j /\ i # k => j = k
    <2>1. \A i, j, k \in 1 .. len :
            SameGroup(new[i], new[j]) /\ SameGroup(new[i], new[k]) /\ i # j /\ i # k => j = k
      BY <1>1 DEF Legs
    <2>2. len + 1 \notin 1 .. len /\ len + 2 \notin 1 .. len
      BY <1>1
    <2>. QED
      BY <1>8, <2>1, <2>2
  <1>12. Legs(new, n + 3)
    BY <1>1, <1>9, <1>10, <1>11 DEF Legs
  <1>13. Settled(new)
    <2>1. \A i, j \in 1 .. len :
            i # j /\ SameGroup(new[i], new[j]) /\ new[i].side = Sell /\ new[i].status = Filled
              => new[j].status = Canceled
      BY <1>1 DEF Settled
    <2>. QED
      BY <1>1, <1>7, <1>8, <2>1 DEF Settled, New, Filled
  <1>. QED
    BY <1>12, <1>13 DEF new

\* A cancelled order, and a purchase that executes, leave the groups settled.
LEMMA StatusChange ==
  ASSUME NEW list \in Seq(Orders), NEW n \in Nat, NEW i \in DOMAIN list, NEW s \in Statuses,
         Legs(list, n), Settled(list),
         s = Canceled \/ (s = Filled /\ list[i].side = Buy /\ list[i].status = New)
  PROVE  Legs([list EXCEPT ![i].status = s], n) /\ Settled([list EXCEPT ![i].status = s])
  <1>. DEFINE new == [list EXCEPT ![i].status = s]
  <1>1. new \in Seq(Orders) /\ DOMAIN new = DOMAIN list
    BY StatusUpdate
  <1>2. \A j \in DOMAIN list : list[j] \in Orders
    BY EntryTypes
  <1>3. /\ \A j \in DOMAIN list : /\ new[j].id = list[j].id /\ new[j].group = list[j].group
                                  /\ new[j].side = list[j].side
        /\ \A j \in DOMAIN list : j # i => new[j].status = list[j].status
        /\ new[i].status = s
    BY <1>2 DEF Orders
  <1>. HIDE DEF new
  <1>4. Legs(new, n)
    BY <1>1, <1>3, LegsKept
  <1>5. Settled(new)
    BY <1>1, <1>3 DEF Settled, SameGroup, New, Filled, Canceled, Buy, Sell
  <1>. QED
    BY <1>4, <1>5 DEF new

\* An executed sale cancels the one other leg of its group.
LEMMA SaleSettles ==
  ASSUME NEW list \in Seq(Orders), NEW n \in Nat, NEW i \in DOMAIN list,
         Legs(list, n), Settled(list), list[i].status = New
  PROVE  /\ Legs([CancelRelated(list, i) EXCEPT ![i].status = Filled], n)
         /\ Settled([CancelRelated(list, i) EXCEPT ![i].status = Filled])
  <1>. DEFINE related == CancelRelated(list, i)
              new == [related EXCEPT ![i].status = Filled]
  <1>1. related \in Seq(Orders) /\ DOMAIN related = DOMAIN list
    BY RelatedUpdate
  <1>2. new \in Seq(Orders) /\ DOMAIN new = DOMAIN list
    BY <1>1, StatusUpdate DEF Statuses
  <1>3. \A j \in DOMAIN list : list[j] \in Orders /\ related[j] \in Orders
    BY <1>1, EntryTypes
  <1>4. DOMAIN list \subseteq Nat
    BY LenProperties
  <1>5. \A j \in DOMAIN list : /\ related[j].id = list[j].id /\ related[j].group = list[j].group
                               /\ related[j].side = list[j].side
                               /\ related[j].status \in {list[j].status, Canceled}
    BY <1>3 DEF CancelRelated, Orders
  <1>6. \A j \in DOMAIN list : j # i /\ SameGroup(list[i], list[j]) => related[j].status = Canceled
    <2>1. SUFFICES ASSUME NEW j \in DOMAIN list, j # i, SameGroup(list[i], list[j])
                   PROVE  related[j].status = Canceled
      OBVIOUS
    <2>2. /\ list[i].group # None /\ list[j].group = list[i].group /\ list[j].id # list[i].id
      BY <2>1 DEF SameGroup, Legs
    <2>3. \A k \in DOMAIN list :
            list[k].group = list[i].group /\ list[k].id # list[i].id => k = j
      BY <2>1, <2>2 DEF SameGroup, Legs
    <2>4. related[j] = [list[j] EXCEPT !.status = Canceled]
      BY <1>4, <2>2, <2>3 DEF CancelRelated
    <2>. QED
      BY <1>3, <2>4 DEF Orders
  <1>7. /\ \A j \in DOMAIN list : /\ new[j].id = list[j].id /\ new[j].group = list[j].group
                                  /\ new[j].side = list[j].side
        /\ \A j \in DOMAIN list : j # i => new[j].status = related[j].status
        /\ new[i].status = Filled
    BY <1>1, <1>3, <1>5 DEF Orders
  <1>. HIDE DEF new, related
  <1>8. Legs(new, n)
    BY <1>2, <1>7, LegsKept
  <1>9. Settled(new)
    <2>1. SUFFICES ASSUME NEW j \in DOMAIN list, NEW k \in DOMAIN list, j # k,
                          SameGroup(new[j], new[k]), new[j].side = Sell, new[j].status = Filled
                   PROVE  new[k].status = Canceled
      BY <1>2 DEF Settled
    <2>2. SameGroup(list[j], list[k]) /\ list[j].side = Sell
      BY <1>7, <2>1 DEF SameGroup
    <2>3. CASE j = i
      BY <1>6, <1>7, <2>1, <2>2, <2>3
    <2>4. CASE j # i
      <3>1. list[j].status = Filled
        BY <1>5, <1>7, <2>1, <2>4 DEF Filled, Canceled
      <3>2. list[k].status = Canceled
        BY <2>1, <2>2, <3>1 DEF Settled
      <3>3. k # i
        BY <3>2 DEF New, Canceled
      <3>. QED
        BY <1>5, <1>7, <3>2, <3>3
    <2>. QED
      BY <2>3, <2>4
  <1>. QED
    BY <1>8, <1>9 DEF new, related

\* The calls that add orders: the copy OnCandle works on is left alone, and
\* its identifiers stay below the counter.
LEMMA AppendedGroups ==
  ASSUME GroupInv, NEW o \in Orders, o.id = counter + 1, o.group = None,
         counter' = counter + 1, orders' = Append(orders, o), result' = result
  PROVE  /\ Legs(orders, counter)' /\ Settled(orders)'
         /\ Legs(result, counter)' /\ Settled(result)'
  <1>1. /\ orders \in Seq(Orders) /\ result \in Seq(Orders) /\ counter \in Nat
        /\ counter + 1 \in Nat /\ counter <= counter + 1
    BY DEF GroupInv, TypeOK
  <1>2. Legs(orders', counter') /\ Settled(orders')
    BY <1>1, LegsAppend DEF GroupInv
  <1>3. Legs(result', counter') /\ Settled(result')
    BY <1>1, LegsMonotonic DEF GroupInv
  <1>. QED
    BY <1>2, <1>3

LEMMA PlaceGroups ==
  ASSUME GroupInv, WalletAssumption, NEW side \in Sides, NEW p \in Pairs, NEW size \in Nat \ {0},
         NEW price \in Nat, NEW stop \in Nat, NEW stopLimit \in Nat,
         \/ CreateOrderLimit(side, p, size, price)
         \/ CreateOrderStop(p, size, price)
         \/ CreateOrderOCO(side, p, size, price, stop, stopLimit)
  PROVE  /\ Legs(orders, counter)' /\ Settled(orders)'
         /\ Legs(result, counter)' /\ Settled(result)'
  <1>1. /\ size \in Nat /\ price \in Nat /\ stop \in Nat /\ stopLimit \in Nat
        /\ orders \in Seq(Orders) /\ result \in Seq(Orders)
        /\ Sell \in Sides /\ New \in Statuses /\ None \in Nat
        /\ {"LIMIT", "STOP_LOSS_LIMIT", "LIMIT_MAKER", "STOP_LOSS"} \subseteq Types
    BY DEF WalletAssumption, GroupInv, TypeOK, Sides, Statuses, Types, None
  <1>2. /\ counter \in Nat /\ counter + 1 \in Nat /\ counter + 2 \in Nat /\ counter + 3 \in Nat
        /\ counter <= counter + 3
    BY DEF GroupInv, TypeOK
  <1>3. result' = result
    BY DEF CreateOrderLimit, CreateOrderStop, CreateOrderOCO, market
  <1>4. CASE CreateOrderLimit(side, p, size, price)
    <2>. DEFINE o == Order(counter + 1, p, side, "LIMIT", New, price, None, size, None)
    <2>1. o \in Orders /\ o.id = counter + 1 /\ o.group = None
      BY <1>1, <1>2, OrderTypes DEF Order
    <2>2. counter' = counter + 1 /\ orders' = Append(orders, o)
      BY <1>4 DEF CreateOrderLimit
    <2>. QED
      BY <1>3, <2>1, <2>2, AppendedGroups
  <1>5. CASE CreateOrderStop(p, size, price)
    <2>. DEFINE o == Order(counter + 1, p, Sell, "STOP_LOSS_LIMIT", New, price, price, size, None)
    <2>1. o \in Orders /\ o.id = counter + 1 /\ o.group = None
      BY <1>1, <1>2, OrderTypes DEF Order
    <2>2. counter' = counter + 1 /\ orders' = Append(orders, o)
      BY <1>5 DEF CreateOrderStop
    <2>. QED
      BY <1>3, <2>1, <2>2, AppendedGroups
  <1>6. CASE CreateOrderOCO(side, p, size, price, stop, stopLimit)
    <2>. DEFINE o == Order(counter + 2, p, side, "LIMIT_MAKER", New, price, None, size,
                           counter + 1)
                q == Order(counter + 3, p, side, "STOP_LOSS", New, stopLimit, stop, size,
                           counter + 1)
    <2>1. o \in Orders
      BY <1>1, <1>2, OrderTypes
    <2>2. q \in Orders
      BY <1>1, <1>2, OrderTypes
    <2>3. /\ o.id = counter + 2 /\ o.group = counter + 1 /\ o.status = New
          /\ q.id = counter + 3 /\ q.group = counter + 1 /\ q.status = New
      BY DEF Order
    <2>4. counter' = counter + 3 /\ orders' = orders \o << o, q >>
      BY <1>6 DEF CreateOrderOCO
    <2>. HIDE DEF o, q
    <2>5. Legs(orders', counter') /\ Settled(orders')
      BY <1>1, <1>2, <2>1, <2>2, <2>3, <2>4, LegsGroup DEF GroupInv
    <2>6. Legs(result', counter') /\ Settled(result')
      BY <1>1, <1>2, <1>3, <2>4, LegsMonotonic DEF GroupInv
    <2>. QED
      BY <2>5, <2>6
  <1>. QED
    BY <1>4, <1>5, <1>6

LEMMA MarketGroups ==
  ASSUME GroupInv, NEW side \in Sides, NEW p \in Pairs, NEW size \in Nat,
         FillMarket(side, p, size)
  PROVE  /\ Legs(orders, counter)' /\ Settled(orders)'
         /\ Legs(result, counter)' /\ Settled(result)'
  <1>. DEFINE o == Order(counter + 1, p, side, "MARKET", Filled, lastClose[p], None, size, None)
  <1>1. /\ lastClose[p] \in Nat /\ counter + 1 \in Nat /\ None \in Nat
        /\ Filled \in Statuses /\ "MARKET" \in Types
    BY DEF GroupInv, TypeOK, Statuses, Types, None
  <1>2. o \in Orders /\ o.id = counter + 1 /\ o.group = None
    BY <1>1, OrderTypes DEF Order
  <1>3. counter' = counter + 1 /\ orders' = Append(orders, o) /\ result' = result
    BY DEF FillMarket, market
  <1>. QED
    BY <1>2, <1>3, AppendedGroups

\* The steps of OnCandle: copying the list and writing the copy back keep what
\* holds of the one for the other.
LEMMA OnCandleGroups ==
  ASSUME GroupInv, NEW c, OnCandleBegin(c) \/ OnCandleStep
  PROVE  /\ Legs(orders, counter)' /\ Settled(orders)'
         /\ Legs(result, counter)' /\ Settled(result)'
  <1>1. result \in Seq(Orders) /\ counter \in Nat
    BY DEF GroupInv, TypeOK
  <1>2. CASE OnCandleBegin(c)
    BY <1>2 DEF OnCandleBegin, GroupInv
  <1>3. ASSUME NEW i \in DOMAIN result, ProcessBuyOrder(i)
        PROVE  /\ Legs(result', counter) /\ Settled(result')
               /\ UNCHANGED <<orders, counter>>
    <2>1. result[i].side = Buy /\ result[i].status = New
      BY <1>3 DEF ProcessBuyOrder, NextReached, Reached
    <2>2. result' = [result EXCEPT ![i].status = Filled] /\ UNCHANGED <<orders, counter>>
      BY <1>3 DEF ProcessBuyOrder
    <2>. QED
      BY <1>1, <2>1, <2>2, StatusChange DEF GroupInv, Statuses
  <1>4. ASSUME NEW i \in DOMAIN result, ProcessSellOrder(i)
        PROVE  /\ Legs(result', counter) /\ Settled(result')
               /\ UNCHANGED <<orders, counter>>
    <2>1. result[i].status = New
      BY <1>4 DEF ProcessSellOrder, NextReached, Reached
    <2>2. /\ result' = [CancelRelated(result, i) EXCEPT ![i].status = Filled]
          /\ UNCHANGED <<orders, counter>>
      BY <1>4 DEF ProcessSellOrder
    <2>. QED
      BY <1>1, <2>1, <2>2, SaleSettles DEF GroupInv
  <1>5. CASE OnCandleEnd
    <2>1. Legs(<< >>, counter) /\ Settled(<< >>)
      BY DEF Legs, Settled
    <2>. QED
      BY <1>5, <2>1 DEF OnCandleEnd, GroupInv
  <1>. QED
    BY <1>2, <1>3, <1>4, <1>5 DEF OnCandleStep, GroupInv

LEMMA GroupStep ==
  ASSUME GroupInv, WalletAssumption, [AnyNext]_vars
  PROVE  GroupInv'
  <1>. DEFINE Kept == /\ Legs(orders, counter)' /\ Settled(orders)'
                      /\ Legs(result, counter)' /\ Settled(result)'
  <1>1. TypeOK'
    BY NextTypes DEF GroupInv
  <1>2. ASSUME NEW side \in Sides, NEW p \in Pairs, NEW size \in Nat \ {0}, NEW limit \in Nat,
               CreateOrderLimit(side, p, size, limit) \/ CreateOrderStop(p, size, limit)
        PROVE  Kept
    BY <1>2, PlaceGroups
  <1>3. ASSUME NEW side \in Sides, NEW p \in Pairs, NEW size \in Nat \ {0},
               NEW price \in Nat, NEW stop \in Nat, NEW stopLimit \in Nat,
               CreateOrderOCO(side, p, size, price, stop, stopLimit)
        PROVE  Kept
    BY <1>3, PlaceGroups
  <1>4. ASSUME NEW side \in Sides, NEW p \in Pairs, NEW size \in Nat \ {0},
               CreateOrderMarket(side, p, size)
        PROVE  Kept
    <2>1. size \in Nat
      BY DEF WalletAssumption
    <2>. QED
      BY <1>4, <2>1, MarketGroups DEF CreateOrderMarket
  <1>5. ASSUME NEW side \in Sides, NEW p \in Pairs, NEW asked \in Asks,
               QuoteToQuantity(side, p, asked)
        PROVE  Kept
    BY <1>5 DEF QuoteToQuantity, market, GroupInv
  <1>6. ASSUME CreateOrderMarketQuote
        PROVE  Kept
    <2>1. /\ quoted.side \in Sides /\ quoted.pair \in Pairs /\ quoted.qty \in Nat
      BY <1>6 DEF CreateOrderMarketQuote, GroupInv, TypeOK
    <2>2. CASE FillMarket(quoted.side, quoted.pair, quoted.qty)
      BY <2>1, <2>2, MarketGroups
    <2>3. CASE UNCHANGED <<balances, volume, counter, orders, market>>
      BY <2>3 DEF market, GroupInv
    <2>. QED
      BY <1>6, <2>2, <2>3 DEF CreateOrderMarketQuote
  <1>7. ASSUME NEW i \in DOMAIN orders, Cancel(i)
        PROVE  Kept
    <2>1. /\ orders' = [orders EXCEPT ![i].status = Canceled]
          /\ UNCHANGED <<counter, result>>
      BY <1>7 DEF Cancel, market
    <2>2. orders \in Seq(Orders) /\ counter \in Nat /\ Canceled \in Statuses
      BY DEF GroupInv, TypeOK, Statuses
    <2>3. Legs(orders', counter) /\ Settled(orders')
      BY <2>1, <2>2, StatusChange DEF GroupInv
    <2>. QED
      BY <2>1, <2>3 DEF GroupInv
  <1>8. ASSUME NEW c \in Candles, OnCandleBegin(c) \/ OnCandleStep
        PROVE  Kept
    BY <1>8, OnCandleGroups
  <1>9. ASSUME OnCandleStep
        PROVE  Kept
    BY <1>9, OnCandleGroups
  <1>10. ASSUME UNCHANGED vars
         PROVE  Kept
    BY <1>10 DEF vars, GroupInv
  <1>11. Sell \in Sides
    BY DEF Sides
  <1>12. Kept
    BY <1>2, <1>3, <1>4, <1>5, <1>6, <1>7, <1>8, <1>9, <1>10, <1>11 DEF AnyNext
  <1>. QED
    BY <1>1, <1>12 DEF GroupInv

\* At most one leg of a sell OCO ever executes, in the client's list and in the
\* copy OnCandle settles, for all prices, sizes and candles and however calls
\* run between OnCandle's sections: the leg an execution cancels is the only
\* other one, because the counter gave their group to no third order, and
\* because the walk never executes a leg that is not pending any more.
THEOREM SellGroups == Spec => []SellGroupsExclusive
  <1>1. Init => GroupInv
    <2>1. Init => TypeOK
      BY WalletAssumption, InitTypes
    <2>. QED
      BY <2>1 DEF Init, GroupInv, Legs, Settled
  <1>2. GroupInv /\ [Next]_vars => GroupInv'
    BY WalletAssumption, NextIsAny, GroupStep
  <1>3. GroupInv => SellGroupsExclusive
    <2>1. ASSUME NEW list, Settled(list)
          PROVE  ExclusiveGroups(list, {Sell})
      BY <2>1 DEF Settled, ExclusiveGroups, Filled, Canceled
    <2>. QED
      BY <2>1 DEF GroupInv, SellGroupsExclusive
  <1>. QED
    BY <1>1, <1>2, <1>3, PTL DEF Spec

-----------------------------------------------------------------------------
(* Calls that wait until OnCandle is done *)

\* Every entry of a list is in the other one, at its place, and stays
\* cancelled if it was.
Continues(old, new) ==
  /\ DOMAIN old \subseteq DOMAIN new
  /\ \A i \in DOMAIN old : /\ new[i].id = old[i].id
                           /\ old[i].status = Canceled => new[i].status = Canceled

\* While OnCandle works no call is between its two sections, and its copy
\* continues the list.
CandleInv ==
  /\ GroupInv
  /\ Processing => quoted = NoQuote /\ Continues(orders, result)

LEMMA ContinuesIds ==
  ASSUME NEW old, NEW new, Continues(old, new)
  PROVE  Ids(old) \subseteq Ids(new) /\ IdsWith(old, Canceled) \subseteq IdsWith(new, Canceled)
  BY DEF Continues, Ids, IdsWith

LEMMA ContinuesTransitive ==
  ASSUME NEW a, NEW b, NEW c, Continues(a, b), Continues(b, c)
  PROVE  Continues(a, c)
  BY DEF Continues

LEMMA AppendContinues ==
  ASSUME NEW list \in Seq(Orders), NEW more \in Seq(Orders)
  PROVE  Continues(list, list \o more)
  <1>1. /\ Len(list) \in Nat /\ DOMAIN list = 1 .. Len(list)
        /\ Len(more) \in Nat /\ DOMAIN (list \o more) = 1 .. Len(list) + Len(more)
        /\ \A i \in 1 .. Len(list) : (list \o more)[i] = list[i]
    BY ConcatProperties, LenProperties
  <1>2. 1 .. Len(list) \subseteq 1 .. Len(list) + Len(more)
    BY <1>1
  <1>. QED
    BY <1>1, <1>2 DEF Continues

LEMMA StatusContinues ==
  ASSUME NEW list \in Seq(Orders), NEW i \in DOMAIN list, NEW s \in Statuses,
         s = Canceled \/ list[i].status # Canceled
  PROVE  Continues(list, [list EXCEPT ![i].status = s])
  <1>1. \A j \in DOMAIN list : list[j] \in Orders
    BY EntryTypes
  <1>. QED
    BY <1>1 DEF Continues, Orders

LEMMA SaleContinues ==
  ASSUME NEW list \in Seq(Orders), NEW i \in DOMAIN list, list[i].status = New
  PROVE  Continues(list, [CancelRelated(list, i) EXCEPT ![i].status = Filled])
  <1>. DEFINE related == CancelRelated(list, i)
  <1>1. related \in Seq(Orders) /\ DOMAIN related = DOMAIN list
    BY RelatedUpdate
  <1>2. \A j \in DOMAIN list : list[j] \in Orders
    BY EntryTypes
  <1>3. \A j \in DOMAIN list : /\ related[j].id = list[j].id
                               /\ related[j].status \in {list[j].status, Canceled}
    BY <1>2 DEF CancelRelated, Orders
  <1>4. related[i].status = New
    BY <1>2 DEF CancelRelated, Orders
  <1>5. \A j \in DOMAIN list : related[j] \in Orders
    BY <1>1, EntryTypes
  <1>. HIDE DEF related
  <1>6. /\ DOMAIN [related EXCEPT ![i].status = Filled] = DOMAIN list
        /\ \A j \in DOMAIN list :
             /\ [related EXCEPT ![i].status = Filled][j].id = related[j].id
             /\ j # i => [related EXCEPT ![i].status = Filled][j].status = related[j].status
    BY <1>1, <1>5 DEF Orders
  <1>. QED
    BY <1>3, <1>6 DEF Continues, related, New, Canceled

\* What the calls do to the list and to the copy.
LEMMA PlaceContinues ==
  ASSUME CandleInv, WalletAssumption, NEW side \in Sides, NEW p \in Pairs, NEW size \in Nat,
         NEW price \in Nat, NEW stop \in Nat, NEW stopLimit \in Nat,
         \/ CreateOrderLimit(side, p, size, price)
         \/ CreateOrderStop(p, size, price)
         \/ CreateOrderOCO(side, p, size, price, stop, stopLimit)
         \/ FillMarket(side, p, size)
  PROVE  Continues(orders, orders') /\ UNCHANGED <<candle, result>>
  <1>1. /\ orders \in Seq(Orders) /\ counter \in Nat /\ lastClose[p] \in Nat
        /\ counter + 1 \in Nat /\ counter + 2 \in Nat /\ counter + 3 \in Nat
        /\ Sell \in Sides /\ New \in Statuses /\ Filled \in Statuses /\ None \in Nat
        /\ {"LIMIT", "STOP_LOSS_LIMIT", "LIMIT_MAKER", "STOP_LOSS", "MARKET"} \subseteq Types
    BY DEF CandleInv, GroupInv, TypeOK, Sides, Statuses, Types, None
  <1>2. UNCHANGED <<candle, result>>
    BY DEF CreateOrderLimit, CreateOrderStop, CreateOrderOCO, FillMarket, market
  <1>3. ASSUME NEW o \in Orders, orders' = Append(orders, o)
        PROVE  Continues(orders, orders')
    <2>1. <<o>> \in Seq(Orders) /\ Append(orders, o) = orders \o <<o>>
      BY <1>1, AppendIsConcat
    <2>. QED
      BY <1>1, <1>3, <2>1, AppendContinues
  <1>4. CASE CreateOrderLimit(side, p, size, price)
    <2>. DEFINE o == Order(counter + 1, p, side, "LIMIT", New, price, None, size, None)
    <2>1. o \in Orders /\ orders' = Append(orders, o)
      BY <1>1, <1>4, OrderTypes DEF CreateOrderLimit
    <2>. QED
      BY <1>2, <1>3, <2>1
  <1>5. CASE CreateOrderStop(p, size, price)
    <2>. DEFINE o == Order(counter + 1, p, Sell, "STOP_LOSS_LIMIT", New, price, price, size, None)
    <2>1. o \in Orders /\ orders' = Append(orders, o)
      BY <1>1, <1>5, OrderTypes DEF CreateOrderStop
    <2>. QED
      BY <1>2, <1>3, <2>1
  <1>6. CASE FillMarket(side, p, size)
    <2>. DEFINE o == Order(counter + 1, p, side, "MARKET", Filled, lastClose[p], None, size, None)
    <2>1. o \in Orders /\ orders' = Append(orders, o)
      BY <1>1, <1>6, OrderTypes DEF FillMarket
    <2>. QED
      BY <1>2, <1>3, <2>1
  <1>7. CASE CreateOrderOCO(side, p, size, price, stop, stopLimit)
    <2>. DEFINE o == Order(counter + 2, p, side, "LIMIT_MAKER", New, price, None, size,
                           counter + 1)
                q == Order(counter + 3, p, side, "STOP_LOSS", New, stopLimit, stop, size,
                           counter + 1)
    <2>1. o \in Orders
      BY <1>1, OrderTypes
    <2>2. q \in Orders
      BY <1>1, OrderTypes
    <2>3. orders' = orders \o << o, q >>
      BY <1>7 DEF CreateOrderOCO
    <2>. HIDE DEF o, q
    <2>4. << o, q >> \in Seq(Orders)
      BY <2>1, <2>2
    <2>. QED
      BY <1>1, <1>2, <2>3, <2>4, AppendContinues
  <1>. QED
    BY <1>4, <1>5, <1>6, <1>7

\* One step of the wallet, as the list, OnCandle's copy and a call between its
\* two sections see it.
ListStep ==
  \/ /\ ~Processing /\ Continues(orders, orders')
     /\ UNCHANGED <<candle, result>>
  \/ /\ ~Processing /\ quoted = NoQuote
     /\ Processing' /\ result' = orders /\ UNCHANGED <<orders, quoted>>
  \/ /\ Processing /\ Continues(result, result')
     /\ UNCHANGED <<orders, candle, quoted>>
  \/ /\ Processing /\ ~Processing' /\ orders' = result
  \/ UNCHANGED <<orders, candle, result, quoted>>

LEMMA EveryListStep ==
  ASSUME CandleInv, WalletAssumption, Interleaved = FALSE, [AnyNext]_vars
  PROVE  ListStep
  <1>1. /\ orders \in Seq(Orders) /\ result \in Seq(Orders)
        /\ Filled \in Statuses /\ Canceled \in Statuses /\ Sell \in Sides
    BY DEF CandleInv, GroupInv, TypeOK, Statuses, Sides
  <1>2. Prices \subseteq Nat /\ Sizes \subseteq Nat
    BY DEF WalletAssumption
  <1>3. ASSUME NEW side \in Sides, NEW p \in Pairs, NEW size \in Nat \ {0}, NEW limit \in Nat,
               CreateOrderLimit(side, p, size, limit) \/ CreateOrderStop(p, size, limit)
        PROVE  ListStep
    <2>1. ~Processing
      BY <1>3 DEF CreateOrderLimit, CreateOrderStop, CallAllowed
    <2>. QED
      BY <1>2, <1>3, <2>1, PlaceContinues DEF ListStep
  <1>4. ASSUME NEW side \in Sides, NEW p \in Pairs, NEW size \in Nat \ {0},
               NEW price \in Nat, NEW stop \in Nat, NEW stopLimit \in Nat,
               CreateOrderOCO(side, p, size, price, stop, stopLimit)
        PROVE  ListStep
    <2>1. ~Processing
      BY <1>4 DEF CreateOrderOCO, CallAllowed
    <2>. QED
      BY <1>2, <1>4, <2>1, PlaceContinues DEF ListStep
  <1>5. ASSUME NEW side \in Sides, NEW p \in Pairs, NEW size \in Nat,
               FillMarket(side, p, size), ~Processing
        PROVE  ListStep
    <2>1. 0 \in Nat
      OBVIOUS
    <2>. QED
      BY <1>5, <2>1, PlaceContinues DEF ListStep
  <1>6. ASSUME NEW side \in Sides, NEW p \in Pairs, NEW size \in Nat \ {0},
               CreateOrderMarket(side, p, size)
        PROVE  ListStep
    BY <1>2, <1>5, <1>6 DEF CreateOrderMarket, CallAllowed
  <1>7. ASSUME NEW side \in Sides, NEW p \in Pairs, NEW asked \in Asks,
               QuoteToQuantity(side, p, asked)
        PROVE  ListStep
    <2>1. ~Processing /\ UNCHANGED <<orders, candle, result>>
      BY <1>7 DEF QuoteToQuantity, CallAllowed, market
    <2>2. Continues(orders, orders')
      BY <2>1 DEF Continues
    <2>. QED
      BY <2>1, <2>2 DEF ListStep
  <1>8. CASE CreateOrderMarketQuote
    <2>1. /\ quoted.side \in Sides /\ quoted.pair \in Pairs /\ quoted.qty \in Nat
          /\ ~Processing
      BY <1>8 DEF CreateOrderMarketQuote, CandleInv, GroupInv, TypeOK
    <2>2. CASE FillMarket(quoted.side, quoted.pair, quoted.qty)
      BY <1>5, <2>1, <2>2
    <2>3. CASE UNCHANGED <<balances, volume, counter, orders, market>>
      BY <2>1, <2>3 DEF ListStep, Continues, market
    <2>. QED
      BY <1>8, <2>2, <2>3 DEF CreateOrderMarketQuote
  <1>9. ASSUME NEW i \in DOMAIN orders, Cancel(i)
        PROVE  ListStep
    <2>1. /\ ~Processing /\ orders' = [orders EXCEPT ![i].status = Canceled]
          /\ UNCHANGED <<candle, result>>
      BY <1>9 DEF Cancel, CallAllowed, market
    <2>. QED
      BY <1>1, <2>1, StatusContinues DEF ListStep
  <1>10. ASSUME NEW c \in Candles, OnCandleBegin(c)
         PROVE  ListStep
    <2>1. c.pair \in Pairs /\ c # NoCandle
      BY DEF WalletAssumption, NoCandle
    <2>. QED
      BY <1>10, <2>1 DEF OnCandleBegin, ListStep, Processing
  <1>11. ASSUME NEW i \in DOMAIN result, ProcessBuyOrder(i)
         PROVE  ListStep
    <2>1. /\ Processing /\ result[i].status = New
          /\ result' = [result EXCEPT ![i].status = Filled]
          /\ UNCHANGED <<orders, candle, quoted>>
      BY <1>11 DEF ProcessBuyOrder, NextReached, Reached
    <2>2. New # Canceled
      BY DEF New, Canceled
    <2>. QED
      BY <1>1, <2>1, <2>2, StatusContinues DEF ListStep
  <1>12. ASSUME NEW i \in DOMAIN result, ProcessSellOrder(i)
         PROVE  ListStep
    <2>1. /\ Processing /\ result[i].status = New
          /\ result' = [CancelRelated(result, i) EXCEPT ![i].status = Filled]
          /\ UNCHANGED <<orders, candle, quoted>>
      BY <1>12 DEF ProcessSellOrder, NextReached, Reached
    <2>. QED
      BY <1>1, <2>1, SaleContinues DEF ListStep
  <1>13. CASE OnCandleEnd
    BY <1>13 DEF OnCandleEnd, ListStep, Processing
  <1>14. CASE UNCHANGED vars
    BY <1>14 DEF ListStep, vars
  <1>. QED
    BY <1>1, <1>3, <1>4, <1>6, <1>7, <1>8, <1>9, <1>10, <1>11, <1>12, <1>13, <1>14
    DEF AnyNext, OnCandleStep

LEMMA CandleStep ==
  ASSUME CandleInv, WalletAssumption, Interleaved = FALSE, [AnyNext]_vars
  PROVE  CandleInv'
  <1>1. GroupInv'
    BY GroupStep DEF CandleInv
  <1>2. ListStep
    BY EveryListStep
  <1>3. Processing' => (quoted = NoQuote /\ Continues(orders, result))'
    <2>1. CASE ~Processing /\ UNCHANGED <<candle, result>>
      BY <2>1 DEF Processing
    <2>2. CASE ~Processing /\ quoted = NoQuote /\ result' = orders /\ UNCHANGED <<orders, quoted>>
      BY <2>2 DEF Continues
    <2>3. CASE Processing /\ Continues(result, result') /\ UNCHANGED <<orders, candle, quoted>>
      BY <2>3, ContinuesTransitive DEF CandleInv, Processing
    <2>4. CASE ~Processing'
      BY <2>4
    <2>5. CASE UNCHANGED <<orders, candle, result, quoted>>
      BY <2>5 DEF CandleInv, Processing
    <2>. QED
      BY <1>2, <2>1, <2>2, <2>3, <2>4, <2>5 DEF ListStep
  <1>. QED
    BY <1>1, <1>3 DEF CandleInv

LEMMA InitCandle ==
  ASSUME WalletAssumption, Init
  PROVE  CandleInv
  <1>1. TypeOK
    BY InitTypes
  <1>2. GroupInv
    BY <1>1 DEF Init, GroupInv, Legs, Settled
  <1>. QED
    BY <1>2 DEF Init, CandleInv, Processing

\* When calls wait until OnCandle is done, no step forgets an order or revives
\* a cancelled one: OnCandle writes a copy back in which every order still is
\* at its place (processOrders, exchange/paper_wallet.go).  With Interleaved it
\* is false: an order placed meanwhile is not in the copy.
THEOREM NoOrderForgotten ==
  ASSUME Interleaved = FALSE
  PROVE  Spec => OrdersSurvive
  <1>1. Init => CandleInv
    BY WalletAssumption, InitCandle
  <1>2. CandleInv /\ [Next]_vars => CandleInv'
    BY WalletAssumption, NextIsAny, CandleStep
  <1>3. CandleInv /\ [Next]_vars =>
          [/\ Ids(orders) \subseteq Ids(orders')
           /\ IdsWith(orders, Canceled) \subseteq IdsWith(orders', Canceled)]_vars
    <2>1. SUFFICES ASSUME CandleInv, [Next]_vars
                   PROVE  /\ Ids(orders) \subseteq Ids(orders')
                          /\ IdsWith(orders, Canceled) \subseteq IdsWith(orders', Canceled)
      OBVIOUS
    <2>2. ListStep
      BY <2>1, WalletAssumption, NextIsAny, EveryListStep
    <2>3. Continues(orders, orders')
      BY <2>1, <2>2 DEF ListStep, CandleInv, Continues
    <2>. QED
      BY <2>3, ContinuesIds
  <1>. QED
    BY <1>1, <1>2, <1>3, PTL DEF Spec, OrdersSurvive

-----------------------------------------------------------------------------
(* Funds *)

\* A pending order's balances go from free to locked.  Without a short nothing
\* is bought back, so what is taken is what is locked.
LEMMA LockMoves ==
  ASSUME TypeOK, WalletAssumption, NEW side \in Sides, NEW p \in Pairs,
         NEW amount \in Nat, NEW value \in Nat, free[p] >= 0,
         LockFunds(side, p, amount, value)
  PROVE  \A c \in Coins : Total(c)' = Total(c)
  <1>. DEFINE asset == LockedAsset(side, p, amount)
              quote == LockedQuote(side, p, amount, value)
  <1>1. /\ free \in [Coins -> Int] /\ lock \in [Coins -> Int]
        /\ p \in Coins /\ Quote \in Coins /\ p # Quote /\ free[p] \in Int
    BY DEF TypeOK, Coins, WalletAssumption
  <1>2. asset \in Int /\ quote \in Int
    BY LockedTypes
  <1>3. side = Buy => asset = 0
    BY <1>1 DEF LockedAsset, Min2, Max2, Buy, Sell
  <1>4. /\ free' = [free EXCEPT ![p] = IF side = Sell THEN @ - asset ELSE @ + asset,
                                ![Quote] = @ - quote]
        /\ lock' = [lock EXCEPT ![p] = @ + asset, ![Quote] = @ + quote]
    BY DEF LockFunds
  <1>. HIDE DEF asset, quote
  <1>5. side = Buy \/ side = Sell
    BY DEF Sides
  <1>6. \A c \in Coins : free'[c] + lock'[c] = free[c] + lock[c]
    <2>1. free'[p] = IF side = Sell THEN free[p] - asset ELSE free[p] + asset
      BY <1>1, <1>4
    <2>2. /\ lock'[p] = lock[p] + asset
          /\ free'[Quote] = free[Quote] - quote /\ lock'[Quote] = lock[Quote] + quote
      BY <1>1, <1>4
    <2>3. \A c \in Coins \ {p, Quote} : free'[c] = free[c] /\ lock'[c] = lock[c]
      BY <1>1, <1>4
    <2>4. lock[p] \in Int /\ free[Quote] \in Int /\ lock[Quote] \in Int
      BY <1>1
    <2>5. free'[p] + lock'[p] = free[p] + lock[p]
      BY <1>1, <1>2, <1>3, <1>5, <2>1, <2>2, <2>4
    <2>6. free'[Quote] + lock'[Quote] = free[Quote] + lock[Quote]
      BY <1>2, <2>2, <2>4
    <2>. QED
      BY <2>3, <2>5, <2>6
  <1>. QED
    BY <1>6 DEF Total

\* Cancel hands back what it takes from the lock, whichever coin it is.
LEMMA CancelHandsBack ==
  ASSUME TypeOK, WalletAssumption, NEW i \in DOMAIN orders, Cancel(i)
  PROVE  \A c \in Coins : Total(c)' = Total(c)
  <1>. DEFINE o == orders[i]
              cost == o.price * o.qty
  <1>1. o \in Orders
    BY EntryTypes DEF TypeOK
  <1>2. o.pair \in Pairs /\ o.qty \in Nat /\ o.price \in Nat
    BY <1>1 DEF Orders
  <1>3. cost \in Int
    BY <1>2, NatProduct
  <1>4. /\ o.pair \in Coins /\ o.qty \in Int /\ Quote \in Coins
        /\ free \in [Coins -> Int] /\ lock \in [Coins -> Int]
    <2>. HIDE DEF o
    <2>1. o.pair \in Coins /\ o.qty \in Int /\ Quote \in Coins
      BY <1>2 DEF Coins
    <2>2. free \in [Coins -> Int] /\ lock \in [Coins -> Int]
      BY DEF TypeOK
    <2>. QED
      BY <2>1, <2>2
  <1>5. \/ /\ free' = [free EXCEPT ![o.pair] = @ + o.qty]
           /\ lock' = [lock EXCEPT ![o.pair] = @ - o.qty]
        \/ /\ free' = [free EXCEPT ![Quote] = @ + cost]
           /\ lock' = [lock EXCEPT ![Quote] = @ - cost]
        \/ UNCHANGED <<free, lock>>
    BY DEF Cancel
  <1>. HIDE DEF o, cost
  <1>. QED
    BY <1>3, <1>4, <1>5 DEF Total

\* An execution adds to the identifiers of executed orders: the order was
\* pending, and no other one has its identifier.
LEMMA MarketExecutes ==
  ASSUME CandleInv, ~Processing, NEW side \in Sides, NEW p \in Pairs, NEW size \in Nat,
         FillMarket(side, p, size)
  PROVE  ~(Executed' \subseteq Executed)
  <1>. DEFINE o == Order(counter + 1, p, side, "MARKET", Filled, lastClose[p], None, size, None)
  <1>1. orders \in Seq(Orders) /\ counter \in Nat
    BY DEF CandleInv, GroupInv, TypeOK
  <1>2. /\ orders' = Append(orders, o) /\ candle' = candle
        /\ o.id = counter + 1 /\ o.status = Filled
    BY DEF FillMarket, market, Order
  <1>3. Book = orders /\ Book' = orders'
    BY <1>2 DEF Book, Processing
  <1>. HIDE DEF o
  <1>4. Len(orders) + 1 \in DOMAIN orders' /\ orders'[Len(orders) + 1] = o
    <2>. DEFINE S == Orders \cup {o}
    <2>1. orders \in Seq(S) /\ o \in S
      BY <1>1, SeqMonotonic
    <2>. HIDE DEF S
    <2>2. /\ orders' \in Seq(S) /\ Len(orders') = Len(orders) + 1
          /\ orders'[Len(orders) + 1] = o /\ Len(orders) \in Nat
      BY <1>2, <2>1, AppendProperties, LenProperties
    <2>3. DOMAIN orders' = 1 .. Len(orders) + 1
      BY <2>2, LenProperties
    <2>. QED
      BY <2>2, <2>3
  <1>5. counter + 1 \in Executed'
    BY <1>2, <1>3, <1>4 DEF Executed, IdsWith
  <1>6. \A j \in DOMAIN orders : orders[j].id # counter + 1
    <2>1. \A j \in DOMAIN orders : orders[j].id \in Nat /\ orders[j].id <= counter
      BY <1>1, EntryTypes DEF CandleInv, GroupInv, Legs
    <2>. QED
      BY <1>1, <2>1
  <1>7. counter + 1 \notin Executed
    BY <1>3, <1>6 DEF Executed, IdsWith
  <1>. QED
    BY <1>5, <1>7

LEMMA ProcessExecutes ==
  ASSUME CandleInv, NEW i \in DOMAIN result, ProcessBuyOrder(i) \/ ProcessSellOrder(i)
  PROVE  ~(Executed' \subseteq Executed)
  <1>1. result \in Seq(Orders) /\ Legs(result, counter)
    BY DEF CandleInv, GroupInv, TypeOK
  <1>2. /\ Processing /\ candle' = candle /\ result[i].status = New
        /\ \/ result' = [result EXCEPT ![i].status = Filled]
           \/ result' = [CancelRelated(result, i) EXCEPT ![i].status = Filled]
    BY DEF ProcessBuyOrder, ProcessSellOrder, NextReached, Reached
  <1>3. Book = result /\ Book' = result'
    BY <1>2 DEF Book, Processing
  <1>4. i \in DOMAIN result' /\ result'[i].id = result[i].id /\ result'[i].status = Filled
    <2>1. \A j \in DOMAIN result : result[j] \in Orders
      BY <1>1, EntryTypes
    <2>2. /\ DOMAIN CancelRelated(result, i) = DOMAIN result
          /\ CancelRelated(result, i)[i] \in Orders
      BY <1>1, RelatedUpdate, EntryTypes
    <2>3. CancelRelated(result, i)[i].id = result[i].id
      BY <2>1 DEF CancelRelated, Orders
    <2>. QED
      BY <1>2, <2>1, <2>2, <2>3 DEF Orders
  <1>5. result[i].id \in Executed'
    BY <1>3, <1>4 DEF Executed, IdsWith
  <1>6. result[i].id \notin Executed
    BY <1>1, <1>2, <1>3 DEF Executed, IdsWith, Legs, New, Filled
  <1>. QED
    BY <1>5, <1>6

\* When calls wait until OnCandle is done, funds only ever change hands when an
\* order executes: a step that adds no executed order moves them between free
\* and locked, as long as no pair is short (validateFunds, Cancel, OnCandle).
THEOREM FundsMove ==
  ASSUME Interleaved = FALSE
  PROVE  Spec => LocksMoveFunds
  <1>1. Init => CandleInv
    BY WalletAssumption, InitCandle
  <1>2. CandleInv /\ [Next]_vars => CandleInv'
    BY WalletAssumption, NextIsAny, CandleStep
  <1>3. CandleInv /\ [Next]_vars =>
          [Executed' \subseteq Executed /\ (\A p \in Pairs : free[p] >= 0) =>
             \A c \in Coins : Total(c)' = Total(c)]_vars
    <2>1. SUFFICES ASSUME CandleInv, [Next]_vars, Executed' \subseteq Executed,
                          \A p \in Pairs : free[p] >= 0
                   PROVE  \A c \in Coins : Total(c)' = Total(c)
      OBVIOUS
    <2>. DEFINE Kept == \A c \in Coins : Total(c)' = Total(c)
    <2>2. TypeOK /\ Sell \in Sides /\ [AnyNext]_vars
      BY <2>1, WalletAssumption, NextIsAny DEF CandleInv, GroupInv, WalletAssumption, Sides
    <2>3. ASSUME UNCHANGED <<free, lock>> PROVE Kept
      BY <2>3 DEF Total
    <2>4. ASSUME NEW side \in Sides, NEW p \in Pairs, NEW size \in Nat \ {0}, NEW limit \in Nat,
                 CreateOrderLimit(side, p, size, limit) \/ CreateOrderStop(p, size, limit)
          PROVE  Kept
      BY <2>1, <2>2, <2>4, WalletAssumption, LockMoves DEF CreateOrderLimit, CreateOrderStop
    <2>5. ASSUME NEW side \in Sides, NEW p \in Pairs, NEW size \in Nat \ {0},
                 NEW price \in Nat, NEW stop \in Nat, NEW stopLimit \in Nat,
                 CreateOrderOCO(side, p, size, price, stop, stopLimit)
          PROVE  Kept
      BY <2>1, <2>2, <2>5, WalletAssumption, LockMoves DEF CreateOrderOCO
    <2>6. ASSUME NEW side \in Sides, NEW p \in Pairs, NEW size \in Nat \ {0},
                 CreateOrderMarket(side, p, size)
          PROVE  Kept
      BY <2>1, <2>2, <2>6, MarketExecutes DEF CreateOrderMarket, CallAllowed
    <2>7. ASSUME NEW side \in Sides, NEW p \in Pairs, NEW asked \in Asks,
                 QuoteToQuantity(side, p, asked)
          PROVE  Kept
      BY <2>3, <2>7 DEF QuoteToQuantity, balances
    <2>8. CASE CreateOrderMarketQuote
      <3>1. /\ quoted.side \in Sides /\ quoted.pair \in Pairs /\ quoted.qty \in Nat
            /\ ~Processing
        BY <2>1, <2>8 DEF CreateOrderMarketQuote, CandleInv, GroupInv, TypeOK
      <3>2. ~FillMarket(quoted.side, quoted.pair, quoted.qty)
        BY <2>1, <3>1, MarketExecutes
      <3>. QED
        BY <2>3, <2>8, <3>2 DEF CreateOrderMarketQuote, balances
    <2>9. ASSUME NEW i \in DOMAIN orders, Cancel(i)
          PROVE  Kept
      BY <2>2, <2>9, WalletAssumption, CancelHandsBack
    <2>10. ASSUME NEW c \in Candles, OnCandleBegin(c)
           PROVE  Kept
      BY <2>3, <2>10 DEF OnCandleBegin, balances
    <2>11. ASSUME NEW i \in DOMAIN result, ProcessBuyOrder(i) \/ ProcessSellOrder(i)
           PROVE  Kept
      BY <2>1, <2>11, ProcessExecutes
    <2>12. CASE OnCandleEnd
      BY <2>3, <2>12 DEF OnCandleEnd, balances
    <2>13. CASE UNCHANGED vars
      BY <2>3, <2>13 DEF vars
    <2>. QED
      BY <2>1, <2>2, <2>4, <2>5, <2>6, <2>7, <2>8, <2>9, <2>10, <2>11, <2>12, <2>13
      DEF AnyNext, OnCandleStep
  <1>. QED
    BY <1>1, <1>2, <1>3, PTL DEF Spec, LocksMoveFunds

-----------------------------------------------------------------------------
(* What a market order is worth *)

LEMMA QuotientBelow ==
  ASSUME NEW x \in Nat, NEW d \in Nat \ {0}
  PROVE  (x \div d) * d <= x
BY SMT

LEMMA Products ==
  ASSUME NEW a \in Int, NEW b \in Int, NEW v \in Int
  PROVE  (a - b) * v = a * v - b * v /\ (a + b) * v = a * v + b * v
BY SMT

\* The average of an extended short makes its worth no higher.
LEMMA ShortAverage ==
  ASSUME NEW n \in Nat \ {0}, NEW a \in Nat, NEW s \in Nat, NEW v \in Nat, NEW avg,
         avg = (s * n + a * v) \div (a + n)
  PROVE  avg \in Nat /\ (n + a) * avg <= n * s + a * v
<1>1. s * n + a * v \in Nat /\ a + n \in Nat \ {0}
  BY NatProduct
<1>2. avg \in Nat
  BY <1>1, NatQuotient
<1>3. avg * (a + n) <= s * n + a * v
  BY <1>1, QuotientBelow
<1>. QED  BY <1>2, <1>3

LEMMA SaleWorth ==
  ASSUME TypeOK, WalletAssumption, NEW p \in Pairs, NEW a \in Nat,
         FillFunds(Sell, p, a, lastClose[p])
  PROVE  Worth(free'[p], avgShort'[p], lastClose[p]) + free'[Quote]
           <= Worth(free[p], avgShort[p], lastClose[p]) + free[Quote]
<1> DEFINE f == free[p]
           q == free[Quote]
           v == lastClose[p]
           s == avgShort[p]
           asset == LockedAsset(Sell, p, a)
           quote == LockedQuote(Sell, p, a, v)
           t == avgShort'[p]
<1>1. f \in Int /\ q \in Int /\ v \in Nat /\ s \in Nat /\ p # Quote /\ Sell # Buy
  BY DEF TypeOK, Coins, WalletAssumption, Sell, Buy
<1>2. /\ asset = (IF f >= a THEN a ELSE IF f >= 0 THEN f ELSE 0)
      /\ quote = (a - asset) * v
  <2>1. asset = (IF f >= a THEN a ELSE IF f >= 0 THEN f ELSE 0)
    BY <1>1 DEF LockedAsset, Min2, Max2
  <2>2. asset \in Int
    BY <1>1, <2>1
  <2>3. quote = (a - asset) * v - 0
    BY <1>1 DEF LockedQuote
  <2> HIDE DEF asset, quote
  <2>. QED  BY <1>1, <2>1, <2>2, <2>3
<1>3. /\ free' = [free EXCEPT
                    ![p] = IF quote > 0 THEN f - asset - a ELSE f - asset,
                    ![Quote] = IF quote = 0 THEN q + a * v ELSE q - quote]
      /\ UpdateAveragePrice(Sell, p, a, v, f - asset)
  BY <1>1 DEF FillFunds
<1>4. /\ free'[p] = (IF quote > 0 THEN f - asset - a ELSE f - asset)
      /\ free'[Quote] = (IF quote = 0 THEN q + a * v ELSE q - quote)
  <2>1. p \in DOMAIN free /\ Quote \in DOMAIN free
    BY DEF TypeOK, Coins
  <2> HIDE DEF f, q, v, asset, quote
  <2>. QED  BY <1>1, <1>3, <2>1
<1>5. t = (IF f - asset = 0 THEN v
           ELSE IF f - asset > 0 /\ a > f - asset THEN v
           ELSE IF f - asset < 0 THEN (s * (-(f - asset)) + a * v) \div (a - (f - asset))
           ELSE s)
  <2>1. p \in DOMAIN avgShort /\ asset \in Int
    BY <1>1, <1>2 DEF TypeOK
  <2>2. avgShort' = [avgShort EXCEPT ![p] =
          CASE f - asset = 0 -> v
            [] f - asset > 0 /\ a > f - asset -> v
            [] f - asset < 0 -> (s * (-(f - asset)) + a * v) \div (a - (f - asset))
            [] OTHER -> s]
    BY <1>1, <1>3 DEF UpdateAveragePrice
  <2> HIDE DEF f, q, v, asset, quote, s
  <2>3. t = CASE f - asset = 0 -> v
              [] f - asset > 0 /\ a > f - asset -> v
              [] f - asset < 0 -> (s * (-(f - asset)) + a * v) \div (a - (f - asset))
              [] OTHER -> s
    BY <2>1, <2>2
  <2>. QED  BY <1>1, <2>1, <2>3
<1> HIDE DEF f, q, v, s, asset, quote, t
<1>6. CASE f >= a
  <2>1. asset = a /\ quote = 0 /\ free'[p] = f - a /\ free'[Quote] = q + a * v
    BY <1>1, <1>2, <1>4, <1>6
  <2>2. (f - a) * v = f * v - a * v
    BY <1>1, Products
  <2>3. /\ Worth(free'[p], t, v) = (f - a) * v /\ Worth(f, s, v) = f * v
    BY <1>1, <1>6, <2>1 DEF Worth
  <2>4. a * v \in Int /\ f * v \in Int
    BY <1>1
  <2>. QED  BY <1>1, <2>1, <2>2, <2>3, <2>4 DEF f, q, v, s, t
<1>7. CASE f >= 0 /\ f < a
  <2>1. asset = f /\ quote = (a - f) * v /\ t = v
    BY <1>1, <1>2, <1>5, <1>7
  <2>2. (a - f) * v = a * v - f * v /\ a * v \in Nat /\ f * v \in Nat
    BY <1>1, <1>7, Products, NatProduct
  <2>3. Worth(f, s, v) = f * v
    BY <1>1, <1>7 DEF Worth
  <2>4. CASE v = 0
    <3>1. quote = 0 /\ free'[p] = 0 /\ free'[Quote] = q
      BY <1>1, <1>4, <1>7, <2>1, <2>4
    <3>2. Worth(free'[p], t, v) = 0
      BY <3>1, <2>4 DEF Worth
    <3>. QED  BY <1>1, <2>2, <2>3, <3>1, <3>2 DEF f, q, v, s, t
  <2>5. CASE v > 0
    <3>1. quote > 0
      BY <1>1, <1>7, <2>1, <2>5
    <3>2. free'[p] = -a /\ free'[Quote] = q - (a - f) * v
      BY <1>1, <1>4, <1>7, <2>1, <3>1
    <3>3. Worth(free'[p], t, v) = 2 * a * v - a * v
      BY <1>1, <1>7, <2>1, <3>2 DEF Worth
    <3>. QED  BY <1>1, <2>2, <2>3, <3>2, <3>3 DEF f, q, v, s, t
  <2>. QED  BY <1>1, <2>4, <2>5
<1>8. CASE f < 0
  <2> DEFINE n == -f
  <2>1. n \in Nat \ {0} /\ asset = 0 /\ quote = a * v /\ a * v \in Nat
    BY <1>1, <1>2, <1>8, NatProduct
  <2>2. t = (s * n + a * v) \div (a + n)
    BY <1>1, <1>5, <1>8, <2>1
  <2>3. free'[Quote] = q - a * v
    BY <1>1, <1>4, <2>1
  <2>4. Worth(f, s, v) = 2 * n * s - n * v
    BY <1>1, <1>8 DEF Worth
  <2> HIDE DEF n
  <2>5. t \in Nat /\ (n + a) * t <= n * s + a * v
    BY <1>1, <2>1, <2>2, ShortAverage
  <2>6. (n + a) * t = n * t + a * t /\ n * t \in Nat /\ a * t \in Nat
    BY <1>1, <2>1, <2>5, Products, NatProduct
  <2>7. CASE a * v > 0
    <3>1. free'[p] = -(n + a)
      BY <1>1, <1>4, <2>1, <2>7 DEF n
    <3>2. Worth(free'[p], t, v) = 2 * (n + a) * t - (n + a) * v
      <4>1. -(n + a) < 0 /\ -(-(n + a)) = n + a
        BY <2>1
      <4>. QED  BY <3>1, <4>1 DEF Worth
    <3>3. (n + a) * v = n * v + a * v /\ n * v \in Nat /\ n * s \in Nat
      BY <1>1, <2>1, Products, NatProduct
    <3>4. 2 * (n + a) * t = 2 * ((n + a) * t) /\ 2 * n * s = 2 * (n * s)
      BY <1>1, <2>1, <2>5
    <3>. QED  BY <1>1, <2>1, <2>3, <2>4, <2>5, <2>6, <3>2, <3>3, <3>4 DEF f, q, v, s, t
  <2>8. CASE a * v = 0
    <3>1. free'[p] = -n
      BY <1>1, <1>4, <2>1, <2>8 DEF n
    <3>2. Worth(free'[p], t, v) = 2 * n * t - n * v
      <4>1. -n < 0 /\ -(-n) = n
        BY <2>1
      <4>. QED  BY <3>1, <4>1 DEF Worth
    <3>3. n * v \in Nat /\ n * s \in Nat
      BY <1>1, <2>1, NatProduct
    <3>4. 2 * n * t = 2 * (n * t) /\ 2 * n * s = 2 * (n * s)
      BY <1>1, <2>1, <2>5
    <3>. QED  BY <1>1, <2>1, <2>3, <2>4, <2>5, <2>6, <2>8, <3>2, <3>3, <3>4 DEF f, q, v, s, t
  <2>. QED  BY <2>1, <2>7, <2>8
<1>. QED  BY <1>1, <1>6, <1>7, <1>8

LEMMA PurchaseWorth ==
  ASSUME TypeOK, WalletAssumption, NEW p \in Pairs, NEW a \in Nat,
         FillFunds(Buy, p, a, lastClose[p]), a >= -free[p]
  PROVE  Worth(free'[p], avgShort'[p], lastClose[p]) + free'[Quote]
           = Worth(free[p], avgShort[p], lastClose[p]) + free[Quote]
<1> DEFINE f == free[p]
           q == free[Quote]
           v == lastClose[p]
           s == avgShort[p]
           asset == LockedAsset(Buy, p, a)
           quote == LockedQuote(Buy, p, a, v)
<1>1. f \in Int /\ q \in Int /\ v \in Nat /\ s \in Nat /\ p # Quote /\ Sell # Buy /\ a >= -f
  BY DEF TypeOK, Coins, WalletAssumption, Sell, Buy
<1>2. free' = [free EXCEPT ![p] = f + a, ![Quote] = q - quote]
  BY <1>1 DEF FillFunds
<1>3. free'[p] = f + a /\ free'[Quote] = q - quote
  <2>1. p \in DOMAIN free /\ Quote \in DOMAIN free
    BY DEF TypeOK, Coins
  <2> HIDE DEF f, q, quote
  <2>. QED  BY <1>1, <1>2, <2>1
<1>4. asset = (IF f < 0 THEN -f ELSE 0)
  BY <1>1 DEF LockedAsset, Min2, Max2
<1>5. quote = (a - asset) * v - (IF f < 0 THEN 2 * (-f) * s - (-f) * v ELSE 0)
  BY <1>1 DEF LockedQuote, LiquidShortValue
<1>6. Worth(free'[p], avgShort'[p], v) = (f + a) * v
  <2> HIDE DEF f, q, v
  <2>. QED  BY <1>1, <1>3 DEF Worth
<1>7. Worth(f, s, v) = (IF f < 0 THEN 2 * (-f) * s - (-f) * v ELSE f * v)
  BY DEF Worth
<1> HIDE DEF f, q, v, s, asset, quote
<1>8. (f + a) * v = f * v + a * v /\ f * v \in Int /\ a * v \in Int
  BY <1>1, Products
<1>9. CASE f >= 0
  <2>1. quote = a * v
    BY <1>1, <1>4, <1>5, <1>9
  <2>. QED  BY <1>1, <1>3, <1>6, <1>7, <1>8, <1>9, <2>1 DEF f, q, v, s
<1>10. CASE f < 0
  <2>1. quote = (a + f) * v - (2 * (-f) * s - (-f) * v)
    BY <1>1, <1>4, <1>5, <1>10
  <2>2. 2 * (-f) * s - (-f) * v \in Int /\ (a + f) * v = (f + a) * v
    BY <1>1
  <2>. QED  BY <1>1, <1>3, <1>6, <1>7, <1>8, <1>10, <2>1, <2>2 DEF f, q, v, s
<1>. QED  BY <1>1, <1>9, <1>10

\* OnCandle never has more orders in its copy than there are in the list.
ShortCopy == Processing => Len(result) <= Len(orders)

LEMMA SameLength ==
  ASSUME NEW a \in Seq(Orders), NEW b \in Seq(Orders), DOMAIN a = DOMAIN b
  PROVE  Len(a) = Len(b)
<1>1. Len(a) \in Nat /\ Len(b) \in Nat /\ 1 .. Len(a) = 1 .. Len(b)
  BY LenProperties
<1>. QED  BY <1>1

LEMMA AppendLast ==
  ASSUME NEW list \in Seq(Orders), NEW o \in Orders
  PROVE  /\ Len(Append(list, o)) = Len(list) + 1
         /\ Append(list, o)[Len(Append(list, o))] = o
BY AppendProperties, LenProperties

\* What a market order is in the list.
LEMMA MarketAppends ==
  ASSUME TypeOK, ShortCopy, NEW side \in Sides, NEW p \in Pairs, NEW size \in Nat,
         FillMarket(side, p, size)
  PROVE  /\ LastOrder'.side = side /\ LastOrder'.pair = p /\ LastOrder'.qty = size
         /\ ShortCopy'
<1> DEFINE o == Order(counter + 1, p, side, "MARKET", Filled, lastClose[p], None, size, None)
<1>1. /\ orders \in Seq(Orders) /\ counter + 1 \in Nat /\ lastClose[p] \in Nat
      /\ Filled \in Statuses /\ None \in Nat /\ "MARKET" \in Types
  BY DEF TypeOK, Statuses, Types, None
<1>2. o \in Orders
  BY <1>1, OrderTypes
<1>3. orders' = Append(orders, o) /\ UNCHANGED <<candle, result>>
  BY DEF FillMarket, market
<1>4. o.side = side /\ o.pair = p /\ o.qty = size
  BY DEF Order
<1> HIDE DEF o
<1>5. Len(orders') = Len(orders) + 1 /\ orders'[Len(orders')] = o
  BY <1>1, <1>2, <1>3, AppendLast
<1>6. ShortCopy'
  <2>1. Len(orders) \in Nat /\ Len(result) \in Nat
    BY LenProperties DEF TypeOK
  <2>. QED  BY <1>3, <1>5, <2>1 DEF ShortCopy, Processing
<1>. QED  BY <1>4, <1>5, <1>6 DEF LastOrder

\* Only a market order is appended as one.
LEMMA PendingAppends ==
  ASSUME TypeOK, ShortCopy, NEW side \in Sides, NEW p \in Pairs, NEW size \in Nat,
         NEW price \in Nat, NEW stop \in Nat, NEW stopLimit \in Nat,
         \/ CreateOrderLimit(side, p, size, price)
         \/ CreateOrderStop(p, size, price)
         \/ CreateOrderOCO(side, p, size, price, stop, stopLimit)
  PROVE  ~MarketFill /\ ShortCopy'
<1>1. /\ orders \in Seq(Orders) /\ counter + 1 \in Nat /\ counter + 2 \in Nat
      /\ counter + 3 \in Nat /\ Len(orders) \in Nat /\ Len(result) \in Nat
  BY LenProperties DEF TypeOK
<1>2. /\ Sell \in Sides /\ New \in Statuses /\ None \in Nat
      /\ {"LIMIT", "STOP_LOSS_LIMIT", "LIMIT_MAKER", "STOP_LOSS"} \subseteq Types
  BY DEF Sides, Statuses, Types, None
<1>3. UNCHANGED <<candle, result>>
  BY DEF CreateOrderLimit, CreateOrderStop, CreateOrderOCO, market
<1>4. ASSUME NEW list \in Seq(Orders), NEW o \in Orders, o.type # "MARKET",
             orders' = Append(list, o), Len(list) >= Len(orders)
      PROVE  ~MarketFill /\ ShortCopy'
  <2>1. Len(orders') = Len(list) + 1 /\ orders'[Len(orders')] = o /\ Len(list) \in Nat
    BY <1>4, AppendLast, LenProperties
  <2>2. ShortCopy'
    BY <1>1, <1>3, <1>4, <2>1 DEF ShortCopy, Processing
  <2>. QED  BY <1>4, <2>1, <2>2 DEF MarketFill, LastOrder
<1>5. CASE CreateOrderLimit(side, p, size, price)
  <2> DEFINE o == Order(counter + 1, p, side, "LIMIT", New, price, None, size, None)
  <2>1. o \in Orders /\ orders' = Append(orders, o)
    BY <1>1, <1>2, <1>5, OrderTypes DEF CreateOrderLimit
  <2>2. o.type # "MARKET"
    BY DEF Order
  <2> HIDE DEF o
  <2>. QED  BY <1>1, <1>4, <2>1, <2>2
<1>6. CASE CreateOrderStop(p, size, price)
  <2> DEFINE o == Order(counter + 1, p, Sell, "STOP_LOSS_LIMIT", New, price, price, size, None)
  <2>1. o \in Orders /\ orders' = Append(orders, o)
    BY <1>1, <1>2, <1>6, OrderTypes DEF CreateOrderStop
  <2>2. o.type # "MARKET"
    BY DEF Order
  <2> HIDE DEF o
  <2>. QED  BY <1>1, <1>4, <2>1, <2>2
<1>7. CASE CreateOrderOCO(side, p, size, price, stop, stopLimit)
  <2> DEFINE o == Order(counter + 2, p, side, "LIMIT_MAKER", New, price, None, size,
                         counter + 1)
             q == Order(counter + 3, p, side, "STOP_LOSS", New, stopLimit, stop, size,
                         counter + 1)
  <2>1. o \in Orders
    BY <1>1, <1>2, OrderTypes
  <2>2. q \in Orders
    BY <1>1, <1>2, OrderTypes
  <2>3. orders' = orders \o << o, q >> /\ q.type # "MARKET"
    BY <1>7 DEF CreateOrderOCO, Order
  <2> HIDE DEF o, q
  <2>4. orders' = Append(Append(orders, o), q)
    BY <1>1, <2>1, <2>2, <2>3
  <2>5. Append(orders, o) \in Seq(Orders) /\ Len(Append(orders, o)) >= Len(orders)
    BY <1>1, <2>1, AppendProperties
  <2>. QED  BY <1>4, <2>2, <2>3, <2>4, <2>5
<1>. QED  BY <1>5, <1>6, <1>7

LEMMA QuietAppends ==
  ASSUME TypeOK, ShortCopy, WalletAssumption,
         \/ UNCHANGED <<orders, candle, result>>
         \/ \E i \in DOMAIN orders : Cancel(i)
         \/ \E c \in Candles : OnCandleBegin(c)
         \/ OnCandleStep
  PROVE  ~MarketFill /\ ShortCopy'
<1>1. /\ orders \in Seq(Orders) /\ result \in Seq(Orders)
      /\ Len(orders) \in Nat /\ Len(result) \in Nat
  BY LenProperties DEF TypeOK
<1>2. SUFFICES Len(orders') <= Len(orders) /\ ShortCopy'
  BY <1>1 DEF MarketFill
<1>3. CASE UNCHANGED <<orders, candle, result>>
  BY <1>1, <1>3 DEF ShortCopy, Processing
<1>4. ASSUME NEW i \in DOMAIN orders, Cancel(i)
      PROVE  Len(orders') = Len(orders) /\ UNCHANGED <<candle, result>>
  <2>1. orders' = [orders EXCEPT ![i].status = Canceled] /\ UNCHANGED <<candle, result>>
    BY <1>4 DEF Cancel, market
  <2>2. [orders EXCEPT ![i].status = Canceled] \in Seq(Orders) /\ DOMAIN orders' = DOMAIN orders
    BY <1>1, <2>1, StatusUpdate DEF Statuses
  <2>. QED  BY <1>1, <2>1, <2>2, SameLength
<1>5. ASSUME NEW c \in Candles, OnCandleBegin(c)
      PROVE  Len(orders') <= Len(orders) /\ ShortCopy'
  BY <1>1, <1>5 DEF OnCandleBegin, ShortCopy
<1>6. ASSUME NEW i \in DOMAIN result, ProcessBuyOrder(i) \/ ProcessSellOrder(i)
      PROVE  Processing /\ Len(result') = Len(result) /\ UNCHANGED <<orders, candle>>
  <2>1. Processing /\ UNCHANGED <<orders, candle>>
    BY <1>6 DEF ProcessBuyOrder, ProcessSellOrder
  <2>2. result' \in Seq(Orders) /\ DOMAIN result' = DOMAIN result
    <3>1. CASE ProcessBuyOrder(i)
      BY <1>1, <3>1, StatusUpdate DEF ProcessBuyOrder, Statuses
    <3>2. CASE ProcessSellOrder(i)
      <4>1. /\ CancelRelated(result, i) \in Seq(Orders)
            /\ DOMAIN CancelRelated(result, i) = DOMAIN result
        BY <1>1, RelatedUpdate
      <4>. QED  BY <3>2, <4>1, StatusUpdate DEF ProcessSellOrder, Statuses
    <3>. QED  BY <1>6, <3>1, <3>2
  <2>. QED  BY <1>1, <2>1, <2>2, SameLength
<1>7. CASE OnCandleEnd
  BY <1>1, <1>7 DEF OnCandleEnd, ShortCopy, Processing
<1>8. CASE \E i \in DOMAIN orders : Cancel(i)
  BY <1>1, <1>4, <1>8 DEF ShortCopy, Processing
<1>9. CASE \E i \in DOMAIN result : ProcessBuyOrder(i) \/ ProcessSellOrder(i)
  BY <1>1, <1>6, <1>9 DEF ShortCopy, Processing
<1>. QED  BY <1>3, <1>5, <1>7, <1>8, <1>9 DEF OnCandleStep

LEMMA MarketMakesNone ==
  ASSUME TypeOK, ShortCopy, WalletAssumption, NEW side \in Sides, NEW q \in Pairs,
         NEW size \in Nat, FillMarket(side, q, size), ~PartialCover,
         NEW p \in Pairs, LastOrder'.pair = p, lock[p] = 0
  PROVE  WorthWith(p)' <= WorthWith(p)
<1>1. LastOrder'.side = side /\ LastOrder'.qty = size /\ q = p
  BY MarketAppends
<1>2. /\ FillFunds(side, p, size, lastClose[p]) /\ lock' = lock /\ lastClose' = lastClose
  BY <1>1 DEF FillMarket, FillFunds, market
<1>3. ~(side = Buy /\ size < -free[p])
  BY <1>1 DEF PartialCover
<1>4. p \in Coins /\ Quote \in Coins /\ avgShort[p] \in Int /\ lastClose[p] \in Int
  BY DEF TypeOK, Coins
<1>5. free[p] \in Int /\ free[Quote] \in Int /\ lock[Quote] \in Int
  BY <1>4 DEF TypeOK
<1>6. \A amount, avg, price \in Int : Worth(amount, avg, price) \in Int
  BY DEF Worth
<1> DEFINE before == Worth(free[p], avgShort[p], lastClose[p])
           after == Worth(free'[p], avgShort'[p], lastClose[p])
<1>7. after + free'[Quote] <= before + free[Quote]
  <2>1. CASE side = Sell
    BY <1>2, <2>1, SaleWorth
  <2>2. CASE side = Buy
    <3>1. size >= -free[p]
      BY <1>3, <1>5, <2>2
    <3>2. after + free'[Quote] = before + free[Quote]
      BY <1>2, <2>2, <3>1, PurchaseWorth
    <3>3. before \in Int /\ free[Quote] \in Int
      BY <1>4, <1>5, <1>6
    <3> HIDE DEF before, after
    <3>. QED  BY <3>2, <3>3
  <2>. QED  BY <2>1, <2>2 DEF Sides
<1>8. /\ before \in Int /\ free[Quote] \in Int /\ lock[Quote] \in Int /\ free[p] \in Int
      /\ after \in Int /\ free'[Quote] \in Int /\ free'[p] \in Int
  <2>1. free' \in [Coins -> Int] /\ avgShort' \in [Pairs -> Nat]
    BY FillMarketTypes
  <2>2. free'[p] \in Int /\ free'[Quote] \in Int /\ avgShort'[p] \in Int
    BY <1>4, <2>1
  <2>. QED  BY <1>4, <1>5, <1>6, <2>2
<1>9. WorthWith(p) = before + (free[Quote] + lock[Quote])
  BY <1>8 DEF WorthWith, Total
<1>10. WorthWith(p)' = after + (free'[Quote] + lock[Quote])
  BY <1>2, <1>8 DEF WorthWith, Total
<1> HIDE DEF before, after
<1>. QED  BY <1>7, <1>8, <1>9, <1>10

\* Market orders trade at the last close for all prices and quantities, so none
\* makes money at that price, but for the purchase of a part of a short
\* (validateSellFunds, validateBuyFunds and updateAveragePrice,
\* exchange/paper_wallet.go).  It holds with Interleaved, too.
THEOREM MarketMakesNoMoney == Spec => MarketFillsMakeNoMoney
<1> DEFINE NoGain == MarketFill /\ ~PartialCover =>
              \A p \in Pairs : LastOrder'.pair = p /\ lock[p] = 0 => WorthWith(p)' <= WorthWith(p)
<1>1. Init => TypeOK /\ ShortCopy
  BY WalletAssumption, InitTypes DEF Init, ShortCopy, Processing
<1>2. TypeOK /\ ShortCopy /\ [Next]_vars => (TypeOK /\ ShortCopy)' /\ [NoGain]_vars
  <2>1. SUFFICES ASSUME TypeOK, ShortCopy, [Next]_vars
                 PROVE  TypeOK' /\ ShortCopy' /\ NoGain
    OBVIOUS
  <2>2. [AnyNext]_vars
    BY <2>1, WalletAssumption, NextIsAny
  <2>3. TypeOK'
    BY <2>1, <2>2, WalletAssumption, NextTypes
  <2>4. ASSUME NEW side \in Sides, NEW q \in Pairs, NEW size \in Nat, FillMarket(side, q, size)
        PROVE  ShortCopy' /\ NoGain
    BY <2>1, <2>4, WalletAssumption, MarketAppends, MarketMakesNone
  <2>5. ASSUME NEW side \in Sides, NEW p \in Pairs, NEW size \in Nat,
               NEW price \in Nat, NEW stop \in Nat, NEW stopLimit \in Nat,
               \/ CreateOrderLimit(side, p, size, price)
               \/ CreateOrderStop(p, size, price)
               \/ CreateOrderOCO(side, p, size, price, stop, stopLimit)
        PROVE  ShortCopy' /\ NoGain
    BY <2>1, <2>5, PendingAppends
  <2>6. ASSUME \/ UNCHANGED <<orders, candle, result>>
               \/ \E i \in DOMAIN orders : Cancel(i)
               \/ \E c \in Candles : OnCandleBegin(c)
               \/ OnCandleStep
        PROVE  ShortCopy' /\ NoGain
    BY <2>1, <2>6, WalletAssumption, QuietAppends
  <2> HIDE DEF NoGain
  <2>7. CASE UNCHANGED vars
    BY <2>3, <2>6, <2>7 DEF vars
  <2>8. ASSUME NEW side \in Sides, NEW p \in Pairs, NEW asked \in Asks,
               QuoteToQuantity(side, p, asked)
        PROVE  ShortCopy' /\ NoGain
    BY <2>6, <2>8 DEF QuoteToQuantity, market
  <2>9. CASE CreateOrderMarketQuote
    <3>1. quoted.side \in Sides /\ quoted.pair \in Pairs /\ quoted.qty \in Nat
      BY <2>1, <2>9 DEF CreateOrderMarketQuote, TypeOK
    <3>2. CASE FillMarket(quoted.side, quoted.pair, quoted.qty)
      BY <2>3, <2>4, <3>1, <3>2
    <3>3. CASE UNCHANGED <<orders, market>>
      BY <2>3, <2>6, <3>3 DEF market
    <3>. QED  BY <2>9, <3>2, <3>3 DEF CreateOrderMarketQuote
  <2>10. ASSUME NEW side \in Sides, NEW p \in Pairs, NEW size \in Nat \ {0},
                CreateOrderMarket(side, p, size)
         PROVE  ShortCopy' /\ NoGain
    BY <2>4, <2>10 DEF CreateOrderMarket
  <2>11. ASSUME NEW side \in Sides, NEW p \in Pairs, NEW size \in Nat \ {0}, NEW limit \in Nat,
                CreateOrderLimit(side, p, size, limit) \/ CreateOrderStop(p, size, limit)
         PROVE  ShortCopy' /\ NoGain
    BY <2>5, <2>11
  <2>12. ASSUME NEW side \in Sides, NEW p \in Pairs, NEW size \in Nat \ {0},
                NEW price \in Nat, NEW stop \in Nat, NEW stopLimit \in Nat,
                CreateOrderOCO(side, p, size, price, stop, stopLimit)
         PROVE  ShortCopy' /\ NoGain
    BY <2>5, <2>12
  <2>. QED
    BY <2>2, <2>3, <2>6, <2>7, <2>8, <2>9, <2>10, <2>11, <2>12 DEF AnyNext
<1>. QED  BY <1>1, <1>2, PTL DEF Spec, MarketFillsMakeNoMoney

-----------------------------------------------------------------------------
(* The spot client *)

\* The new entries of a list: one order, or the two pending legs of a sale.
PlacedList(old, new) ==
  LET first == Len(old) + 1 IN
  /\ Len(new) \in {first, first + 1}
  /\ \A j \in DOMAIN old : new[j] = old[j]
  /\ \A j \in DOMAIN old, k \in first .. Len(new) : ~SameGroup(new[k], old[j])
  /\ \A k \in first .. Len(new) : new[k].qty > 0 /\ new[k].status \in {New, Filled}
  /\ Len(new) = first => new[first].group = None
  /\ Len(new) # first =>
       \A k \in {first, first + 1} :
         /\ new[k].pair = new[first].pair /\ new[k].side = Sell /\ new[k].qty = new[first].qty
         /\ new[k].group = new[first].group /\ new[k].group # None
         /\ new[k].status = New

FinalStatuses == {Filled, Canceled}

WithStatus(o, status) == [o EXCEPT !.status = status]

\* The list after entry i got a final status, which cancels its group.
ClosedList(old, i, status) ==
  [j \in DOMAIN old |->
     IF j = i THEN WithStatus(old[j], status)
     ELSE IF SameGroup(old[i], old[j]) THEN WithStatus(old[j], Canceled)
     ELSE old[j]]

\* What the client puts into the list: only sales have groups, whose legs sell
\* the same quantity and are pending together.
SpotList(list) ==
  /\ \A i \in DOMAIN list : list[i].qty > 0 /\ (list[i].group # None => list[i].side = Sell)
  /\ \A i, j \in DOMAIN list : SameGroup(list[i], list[j]) =>
       /\ list[i].pair = list[j].pair /\ list[i].qty = list[j].qty
       /\ list[i].status = New => list[j].status = New

-----------------------------------------------------------------------------
(* Sums over the order list *)

LEMMA ListTypes ==
  ASSUME NEW list \in Seq(Orders)
  PROVE  /\ Len(list) \in Nat /\ DOMAIN list = 1 .. Len(list) /\ IsFiniteSet(DOMAIN list)
         /\ \A i \in DOMAIN list :
              /\ list[i] \in Orders /\ list[i].qty \in Nat /\ list[i].pair \in Pairs
              /\ list[i].side \in Sides /\ list[i].group \in Nat
              /\ Qty(list)[i] = list[i].qty
              /\ Cost(list)[i] = OrderCost(list[i])
              /\ Qty(list)[i] \in Nat /\ Cost(list)[i] \in Nat
<1>1. Len(list) \in Nat /\ DOMAIN list = 1 .. Len(list)
  BY LenProperties
<1>2. IsFiniteSet(1 .. Len(list))
  BY <1>1, FS_Interval
<1>3. ASSUME NEW i \in DOMAIN list
      PROVE  /\ list[i] \in Orders /\ list[i].qty \in Nat /\ list[i].pair \in Pairs
             /\ list[i].side \in Sides /\ list[i].group \in Nat
             /\ Qty(list)[i] = list[i].qty
             /\ Cost(list)[i] = OrderCost(list[i])
             /\ Qty(list)[i] \in Nat /\ Cost(list)[i] \in Nat
  <2>1. list[i] \in Orders
    BY EntryTypes
  <2>2. /\ list[i].qty \in Nat /\ list[i].pair \in Pairs
        /\ list[i].side \in Sides /\ list[i].group \in Nat
        /\ ExecutionPrice(list[i]) \in Nat
    BY <2>1 DEF Orders, ExecutionPrice
  <2>3. /\ Qty(list)[i] = list[i].qty
        /\ Cost(list)[i] = OrderCost(list[i])
    BY DEF Qty, Cost
  <2>4. OrderCost(list[i]) \in Nat
    BY <2>2, NatProduct DEF OrderCost
  <2>. QED  BY <2>1, <2>2, <2>3, <2>4
<1>. QED  BY <1>1, <1>2, <1>3

\* The sets of indices the sums range over.
LEMMA IndexSets ==
  ASSUME NEW list \in Seq(Orders), NEW side, NEW pairs
  PROVE  /\ Pending(list, side, pairs) \subseteq DOMAIN list
         /\ IsFiniteSet(Pending(list, side, pairs))
         /\ Trades(list, side, pairs) \subseteq DOMAIN list
         /\ IsFiniteSet(Trades(list, side, pairs))
<1>1. Pending(list, side, pairs) \subseteq DOMAIN list /\ Trades(list, side, pairs) \subseteq DOMAIN list
  BY DEF Pending, Trades
<1>. QED  BY <1>1, ListTypes, FS_Subset

LEMMA SumTypes ==
  ASSUME NEW list \in Seq(Orders), NEW side, NEW pairs
  PROVE  /\ PendingQty(list, side, pairs) \in Nat /\ PendingCost(list, side, pairs) \in Nat
         /\ Volume(list, side, pairs) \in Nat /\ Turnover(list, side, pairs) \in Nat
<1>1. \A i \in DOMAIN list : Qty(list)[i] \in Nat /\ Cost(list)[i] \in Nat
  BY ListTypes
<1>2. PendingQty(list, side, pairs) \in Nat
  BY <1>1, IndexSets, SumNat DEF PendingQty
<1>3. PendingCost(list, side, pairs) \in Nat
  BY <1>1, IndexSets, SumNat DEF PendingCost
<1>4. Volume(list, side, pairs) \in Nat
  BY <1>1, IndexSets, SumNat DEF Volume
<1>5. Turnover(list, side, pairs) \in Nat
  BY <1>1, IndexSets, SumNat DEF Turnover
<1>. QED  BY <1>2, <1>3, <1>4, <1>5

\* A sum whose terms are kept, with one index more and with one index less.
Kept(f, g, S) == IsFiniteSet(S) /\ \A x \in S : g[x] = f[x] /\ f[x] \in Nat

LEMMA SumKept ==
  ASSUME NEW f, NEW g, NEW S, Kept(f, g, S)
  PROVE  SumFunctionOnSet(g, S) = SumFunctionOnSet(f, S) /\ SumFunctionOnSet(f, S) \in Nat
<1>1. IsFiniteSet(S) /\ \A x \in S : g[x] = f[x] /\ f[x] \in Nat
  BY DEF Kept
<1>2. SumFunctionOnSet(g, S) = SumFunctionOnSet(f, S)
  BY <1>1, SumEqual
<1>3. SumFunctionOnSet(f, S) \in Nat
  BY <1>1, SumNat
<1>. QED  BY <1>2, <1>3

Grown(f, g, S, a)  == SumFunctionOnSet(g, S \cup {a}) = SumFunctionOnSet(f, S) + g[a]
Shrunk(f, g, S, a) == SumFunctionOnSet(g, S \ {a}) = SumFunctionOnSet(f, S) - f[a]

LEMMA SumGrows ==
  ASSUME NEW f, NEW g, NEW S, NEW a, Kept(f, g, S), a \notin S, g[a] \in Nat
  PROVE  Grown(f, g, S, a)
<1>1. SumFunctionOnSet(g, S) = SumFunctionOnSet(f, S) /\ SumFunctionOnSet(f, S) \in Nat
  BY SumKept
<1>2. IsFiniteSet(S) /\ \A x \in S \cup {a} : g[x] \in Int
  BY DEF Kept
<1>3. SumFunctionOnSet(g, S \cup {a}) = g[a] + SumFunctionOnSet(g, S)
  BY <1>2, SumAdd
<1>. QED  BY <1>1, <1>3 DEF Grown

LEMMA SumShrinks ==
  ASSUME NEW f, NEW g, NEW S, NEW a \in S, Kept(f, g, S)
  PROVE  Shrunk(f, g, S, a)
<1>1. IsFiniteSet(S) /\ \A x \in S : g[x] = f[x] /\ f[x] \in Nat /\ f[x] \in Int
  BY DEF Kept
<1>2. IsFiniteSet(S \ {a})
  BY <1>1, FS_RemoveElement
<1>3. SumFunctionOnSet(g, S \ {a}) = SumFunctionOnSet(f, S \ {a})
  BY <1>1, <1>2, SumEqual
<1>4. SumFunctionOnSet(f, S \ {a}) \in Nat
  BY <1>1, <1>2, SumNat
<1>5. SumFunctionOnSet(f, S) = f[a] + SumFunctionOnSet(f, S \ {a})
  BY <1>1, SumRemove
<1>. QED  BY <1>1, <1>3, <1>4, <1>5 DEF Shrunk

-----------------------------------------------------------------------------
(* One new order *)

\* The entries a new order adds.
LEMMA PlacedEntries ==
  ASSUME NEW old \in Seq(Orders), NEW new \in Seq(Orders), PlacedList(old, new)
  PROVE  \E a \in DOMAIN new :
           /\ a = Len(old) + 1 /\ a \notin DOMAIN old /\ DOMAIN old \subseteq DOMAIN new
           /\ \A j \in 1 .. a - 1 : j \in DOMAIN old
           /\ \A j \in DOMAIN old : \A k \in 1 .. j - 1 : k \in DOMAIN old
           /\ \A j \in DOMAIN old : new[j] = old[j]
           /\ \A j \in DOMAIN old, k \in DOMAIN new \ DOMAIN old : ~SameGroup(new[k], new[j])
           /\ \A k \in DOMAIN new \ DOMAIN old :
                /\ new[k].qty > 0 /\ new[k].status \in {New, Filled}
                /\ new[k].group # None => new[k].side = Sell /\ new[k].status = New
                /\ k # a => /\ a \in 1 .. k - 1 /\ SameGroup(new[k], new[a])
                            /\ new[k].status = New /\ new[k].side = Sell /\ new[a].side = Sell
                            /\ new[a].status = New
                            /\ new[k].pair = new[a].pair /\ new[k].qty = new[a].qty
<1> DEFINE len == Len(old)
           a == len + 1
           b == len + 2
           last == Len(new)
<1>1. len \in Nat /\ DOMAIN old = 1 .. len /\ DOMAIN new = 1 .. last /\ last \in Nat
  BY ListTypes
<1>2. last = a \/ last = b
  <2>1. last \in {a, a + 1}
    BY DEF PlacedList
  <2>2. a + 1 = b
    BY <1>1
  <2> HIDE DEF a, b, last
  <2>. QED  BY <2>1, <2>2
<1>4. /\ \A j \in DOMAIN old : new[j] = old[j]
      /\ \A j \in DOMAIN old, k \in a .. last : ~SameGroup(new[k], old[j])
      /\ \A k \in a .. last : new[k].qty > 0 /\ new[k].status \in {New, Filled}
      /\ last = a => new[a].group = None
      /\ last # a => \A k \in {a, b} :
           /\ new[k].pair = new[a].pair /\ new[k].side = Sell /\ new[k].qty = new[a].qty
           /\ new[k].group = new[a].group /\ new[k].group # None
           /\ new[k].status = New
  <2>1. b = a + 1
    BY <1>1
  <2> HIDE DEF b
  <2>. QED  BY <2>1 DEF PlacedList
<1>5. a = Len(old) + 1 /\ a = len + 1 /\ b = len + 2
  OBVIOUS
<1> HIDE DEF a, b, last, len
<1>3. /\ a \in DOMAIN new /\ a \notin DOMAIN old /\ DOMAIN old \subseteq DOMAIN new
      /\ \A j \in 1 .. a - 1 : j \in DOMAIN old
      /\ \A j \in DOMAIN old : \A k \in 1 .. j - 1 : k \in DOMAIN old
      /\ \A k \in DOMAIN new \ DOMAIN old : k \in a .. last /\ (k = a \/ (k = b /\ last # a))
      /\ a \in 1 .. b - 1
  <2>1. /\ a \in 1 .. last /\ a \notin 1 .. len /\ 1 .. len \subseteq 1 .. last
        /\ \A j \in 1 .. a - 1 : j \in 1 .. len
        /\ \A j \in 1 .. len : \A k \in 1 .. j - 1 : k \in 1 .. len
        /\ \A k \in (1 .. last) \ (1 .. len) : k \in a .. last /\ (k = a \/ (k = b /\ last # a))
        /\ a \in 1 .. b - 1
    BY <1>1, <1>2, <1>5
  <2>. QED  BY <1>1, <2>1
<1>6. \A j \in DOMAIN old, k \in DOMAIN new \ DOMAIN old : ~SameGroup(new[k], new[j])
  BY <1>3, <1>4
<1>7. ASSUME NEW k \in DOMAIN new \ DOMAIN old
      PROVE  /\ new[k].qty > 0 /\ new[k].status \in {New, Filled}
             /\ new[k].group # None => new[k].side = Sell /\ new[k].status = New
             /\ k # a => /\ a \in 1 .. k - 1 /\ SameGroup(new[k], new[a])
                         /\ new[k].status = New /\ new[k].side = Sell /\ new[a].side = Sell
                         /\ new[a].status = New
                         /\ new[k].pair = new[a].pair /\ new[k].qty = new[a].qty
  BY <1>3, <1>4 DEF SameGroup
<1>. QED  BY <1>3, <1>4, <1>5, <1>6, <1>7

LEMMA PlacedPending ==
  ASSUME NEW old \in Seq(Orders), NEW new \in Seq(Orders), PlacedList(old, new),
         NEW side, NEW pairs, NEW a, a = Len(old) + 1
  PROVE  Pending(new, side, pairs) =
           IF new[a].pair \in pairs /\ new[a].side = side /\ new[a].status = New
           THEN Pending(old, side, pairs) \cup {a} ELSE Pending(old, side, pairs)
<1> DEFINE added == new[a].pair \in pairs /\ new[a].side = side /\ new[a].status = New
<1>1. /\ a \in DOMAIN new /\ a \notin DOMAIN old /\ DOMAIN old \subseteq DOMAIN new
      /\ \A j \in 1 .. a - 1 : j \in DOMAIN old
      /\ \A j \in DOMAIN old : \A k \in 1 .. j - 1 : k \in DOMAIN old
      /\ \A j \in DOMAIN old : new[j] = old[j]
      /\ \A j \in DOMAIN old, k \in DOMAIN new \ DOMAIN old : ~SameGroup(new[k], new[j])
      /\ \A k \in DOMAIN new \ DOMAIN old :
           k # a => a \in 1 .. k - 1 /\ SameGroup(new[k], new[a])
  BY PlacedEntries
<1>2. ASSUME NEW k \in DOMAIN old
      PROVE  k \in Pending(new, side, pairs) <=> k \in Pending(old, side, pairs)
  BY <1>1 DEF Pending
<1>3. a \in Pending(new, side, pairs) <=> added
  BY <1>1 DEF Pending
<1>4. ASSUME NEW k \in DOMAIN new \ DOMAIN old, k # a
      PROVE  k \notin Pending(new, side, pairs)
  BY <1>1, <1>4 DEF Pending
<1>5. Pending(new, side, pairs) \subseteq DOMAIN new /\ Pending(old, side, pairs) \subseteq DOMAIN old
  BY DEF Pending
<1> HIDE DEF added
<1>6. Pending(new, side, pairs) =
        IF added THEN Pending(old, side, pairs) \cup {a} ELSE Pending(old, side, pairs)
  <2>1. \A k : k \in Pending(new, side, pairs) <=> k \in Pending(old, side, pairs) \/ (added /\ k = a)
    BY <1>1, <1>2, <1>3, <1>4, <1>5
  <2>. QED  BY <2>1
<1>. QED  BY <1>6 DEF added

LEMMA PlacedTrades ==
  ASSUME NEW old \in Seq(Orders), NEW new \in Seq(Orders), PlacedList(old, new),
         NEW side, NEW pairs, NEW a, a = Len(old) + 1
  PROVE  Trades(new, side, pairs) =
           IF new[a].pair \in pairs /\ new[a].side = side /\ new[a].status = Filled
           THEN Trades(old, side, pairs) \cup {a} ELSE Trades(old, side, pairs)
<1> DEFINE added == new[a].pair \in pairs /\ new[a].side = side /\ new[a].status = Filled
<1>1. /\ a \in DOMAIN new /\ a \notin DOMAIN old /\ DOMAIN old \subseteq DOMAIN new
      /\ \A j \in DOMAIN old : new[j] = old[j]
      /\ \A k \in DOMAIN new \ DOMAIN old : k # a => new[k].status = New
  BY PlacedEntries
<1>2. \A k \in DOMAIN old : k \in Trades(new, side, pairs) <=> k \in Trades(old, side, pairs)
  BY <1>1 DEF Trades
<1>3. a \in Trades(new, side, pairs) <=> added
  BY <1>1 DEF Trades
<1>4. \A k \in DOMAIN new \ DOMAIN old : k # a => k \notin Trades(new, side, pairs)
  BY <1>1 DEF Trades, New, Filled
<1>5. Trades(new, side, pairs) \subseteq DOMAIN new /\ Trades(old, side, pairs) \subseteq DOMAIN old
  BY DEF Trades
<1> HIDE DEF added
<1>6. \A k : k \in Trades(new, side, pairs) <=> k \in Trades(old, side, pairs) \/ (added /\ k = a)
  BY <1>1, <1>2, <1>3, <1>4, <1>5
<1>7. Trades(new, side, pairs) =
        IF added THEN Trades(old, side, pairs) \cup {a} ELSE Trades(old, side, pairs)
  BY <1>6
<1>. QED  BY <1>7 DEF added

-----------------------------------------------------------------------------
(* An order that reaches its final status *)

LEMMA StatusOnly ==
  ASSUME NEW o \in Orders, NEW s \in Statuses
  PROVE  LET q == WithStatus(o, s) IN
         /\ q \in Orders /\ q.status = s
         /\ q.id = o.id /\ q.group = o.group /\ q.pair = o.pair /\ q.side = o.side
         /\ q.qty = o.qty /\ OrderCost(q) = OrderCost(o)
<1> DEFINE q == WithStatus(o, s)
<1>1. /\ q \in Orders /\ q.status = s
      /\ q.id = o.id /\ q.group = o.group /\ q.pair = o.pair /\ q.side = o.side
      /\ q.qty = o.qty /\ q.price = o.price /\ q.stop = o.stop /\ q.type = o.type
  BY DEF Orders, WithStatus
<1> HIDE DEF q
<1>2. OrderCost(q) = OrderCost(o)
  BY <1>1 DEF OrderCost, ExecutionPrice, IsStopOrder
<1>. QED  BY <1>1, <1>2 DEF q

LEMMA ClosedTypes ==
  ASSUME NEW old \in Seq(Orders), NEW i \in DOMAIN old, NEW status \in FinalStatuses,
         NEW new, new = ClosedList(old, i, status)
  PROVE  /\ new \in Seq(Orders) /\ DOMAIN new = DOMAIN old /\ new[i].status = status
         /\ \A j \in DOMAIN old :
              /\ new[j].id = old[j].id /\ new[j].group = old[j].group
              /\ new[j].pair = old[j].pair /\ new[j].side = old[j].side
              /\ new[j].qty = old[j].qty
              /\ OrderCost(new[j]) = OrderCost(old[j])
              /\ j # i /\ SameGroup(old[i], old[j]) => new[j].status = Canceled
              /\ j # i /\ ~SameGroup(old[i], old[j]) => new[j] = old[j]
<1>1. Len(old) \in Nat /\ DOMAIN old = 1 .. Len(old) /\ \A j \in DOMAIN old : old[j] \in Orders
  BY ListTypes
<1>2. status \in Statuses /\ Canceled \in Statuses
  BY DEF FinalStatuses, Statuses
<1>3. /\ DOMAIN new = DOMAIN old /\ new = [j \in DOMAIN old |-> new[j]]
      /\ new[i] = WithStatus(old[i], status)
      /\ \A j \in DOMAIN old : j # i /\ SameGroup(old[i], old[j]) =>
           new[j] = WithStatus(old[j], Canceled)
      /\ \A j \in DOMAIN old : j # i /\ ~SameGroup(old[i], old[j]) => new[j] = old[j]
  BY DEF ClosedList
<1>4. ASSUME NEW j \in DOMAIN old
      PROVE  /\ new[j] \in Orders
             /\ new[j].id = old[j].id /\ new[j].group = old[j].group
             /\ new[j].pair = old[j].pair /\ new[j].side = old[j].side
             /\ new[j].qty = old[j].qty
             /\ OrderCost(new[j]) = OrderCost(old[j])
             /\ j = i => new[j].status = status
             /\ j # i /\ SameGroup(old[i], old[j]) => new[j].status = Canceled
  <2>1. CASE j = i
    BY <1>1, <1>2, <1>3, <2>1, StatusOnly
  <2>2. CASE j # i /\ SameGroup(old[i], old[j])
    BY <1>1, <1>2, <1>3, <2>2, StatusOnly
  <2>3. CASE j # i /\ ~SameGroup(old[i], old[j])
    BY <1>1, <1>3, <2>3
  <2>. QED  BY <2>1, <2>2, <2>3
<1>5. new \in Seq(Orders)
  <2>1. new \in [1 .. Len(old) -> Orders]
    BY <1>1, <1>3, <1>4
  <2>. QED  BY <1>1, <2>1, SeqDef
<1>. QED  BY <1>3, <1>4, <1>5

\* The pending index of the order that is closed: the first leg of its group.
LEMMA ClosedPending ==
  ASSUME NEW old \in Seq(Orders), NEW n, Legs(old, n), SpotList(old),
         NEW i \in DOMAIN old, old[i].status = New, NEW status \in FinalStatuses,
         NEW new, new = ClosedList(old, i, status)
  PROVE  \E first \in DOMAIN old :
           /\ old[first].pair = old[i].pair /\ old[first].qty = old[i].qty
           /\ old[first].side = old[i].side
           /\ old[i].side = Buy => first = i
           /\ \A side, pairs :
                LET match == old[i].pair \in pairs /\ old[i].side = side IN
                /\ match => first \in Pending(old, side, pairs)
                /\ Pending(new, side, pairs) =
                     IF match THEN Pending(old, side, pairs) \ {first}
                              ELSE Pending(old, side, pairs)
<1>1. /\ DOMAIN old \subseteq Nat /\ DOMAIN old = 1 .. Len(old) /\ Len(old) \in Nat
      /\ \A j \in DOMAIN old : old[j].side \in Sides
  BY ListTypes
<1>2. /\ DOMAIN new = DOMAIN old /\ new[i].status # New
      /\ \A j \in DOMAIN old :
           /\ new[j].pair = old[j].pair /\ new[j].side = old[j].side
           /\ new[j].group = old[j].group
           /\ j # i /\ SameGroup(old[i], old[j]) => new[j].status # New
           /\ j # i /\ ~SameGroup(old[i], old[j]) => new[j].status = old[j].status
  <2>1. status # New /\ Canceled # New
    BY DEF FinalStatuses, New, Filled, Canceled
  <2>. QED  BY <2>1, ClosedTypes
<1>3. PICK first \in DOMAIN old :
        /\ first = i \/ SameGroup(old[i], old[first])
        /\ \A j \in 1 .. first - 1 : ~SameGroup(old[first], old[j])
        /\ \A j \in DOMAIN old : j # first /\ (j = i \/ SameGroup(old[i], old[j])) =>
             first \in 1 .. j - 1 /\ SameGroup(old[j], old[first])
  <2>1. CASE \E j \in 1 .. i - 1 : SameGroup(old[i], old[j])
    <3>1. PICK first \in 1 .. i - 1 : SameGroup(old[i], old[first])
      BY <2>1
    <3>2. first \in DOMAIN old /\ first # i /\ first < i
      BY <1>1, <3>1
    <3>3. \A j \in DOMAIN old : j # i /\ SameGroup(old[i], old[j]) => j = first
      BY <3>1, <3>2 DEF Legs
    <3>4. \A j \in 1 .. first - 1 : ~SameGroup(old[first], old[j])
      <4>1. SUFFICES ASSUME NEW j \in 1 .. first - 1, SameGroup(old[first], old[j]) PROVE FALSE
        OBVIOUS
      <4>2. j \in DOMAIN old /\ j # i /\ j # first
        BY <1>1, <3>2, <4>1
      <4>. QED  BY <3>1, <3>3, <4>1, <4>2 DEF SameGroup
    <3>5. SameGroup(old[i], old[first])
      BY <3>1
    <3>. QED  BY <3>1, <3>2, <3>3, <3>4, <3>5
  <2>2. CASE \A j \in 1 .. i - 1 : ~SameGroup(old[i], old[j])
    <3>1. \A j \in DOMAIN old : j # i => j \in 1 .. i - 1 \/ i \in 1 .. j - 1
      BY <1>1
    <3>. QED  BY <2>2, <3>1 DEF SameGroup
  <2>. QED  BY <2>1, <2>2
<1>4. /\ old[first].pair = old[i].pair /\ old[first].qty = old[i].qty
      /\ old[first].status = New
  BY <1>3 DEF SpotList
<1>5. first # i => old[first].side = Sell /\ old[i].side = Sell
  BY <1>3 DEF SpotList, SameGroup
<1>6. old[first].side = old[i].side /\ (old[i].side = Buy => first = i)
  BY <1>5 DEF Buy, Sell
<1>7. ASSUME NEW side, NEW pairs
      PROVE  LET match == old[i].pair \in pairs /\ old[i].side = side IN
             /\ match => first \in Pending(old, side, pairs)
             /\ Pending(new, side, pairs) =
                  IF match THEN Pending(old, side, pairs) \ {first}
                           ELSE Pending(old, side, pairs)
  <2> DEFINE match == old[i].pair \in pairs /\ old[i].side = side
  <2>1. match <=> first \in Pending(old, side, pairs)
    BY <1>3, <1>4, <1>6 DEF Pending
  <2>2. ASSUME NEW k \in DOMAIN old
        PROVE  k \in Pending(new, side, pairs) <=> k \in Pending(old, side, pairs) /\ k # first
    <3>1. \A j \in 1 .. k - 1 : j \in DOMAIN old
      BY <1>1
    <3>2. CASE k = i \/ SameGroup(old[i], old[k])
      <4>1. new[k].status # New
        BY <1>2, <3>2
      <4>2. k # first => k \notin Pending(old, side, pairs)
        BY <1>3, <3>2 DEF Pending
      <4>. QED  BY <4>1, <4>2 DEF Pending
    <3>3. CASE k # i /\ ~SameGroup(old[i], old[k])
      <4>1. k # first
        BY <1>3, <3>3
      <4>2. k \in Pending(new, side, pairs) <=> k \in Pending(old, side, pairs)
        BY <1>2, <3>1, <3>3 DEF Pending, SameGroup
      <4>. QED  BY <4>1, <4>2
    <3>. QED  BY <3>2, <3>3
  <2>3. Pending(new, side, pairs) \subseteq DOMAIN old /\ Pending(old, side, pairs) \subseteq DOMAIN old
    BY <1>2 DEF Pending
  <2>. QED  BY <2>1, <2>2, <2>3
<1>. QED  BY <1>3, <1>4, <1>6, <1>7

LEMMA ClosedTrades ==
  ASSUME NEW old \in Seq(Orders), SpotList(old),
         NEW i \in DOMAIN old, old[i].status = New, NEW status \in FinalStatuses,
         NEW new, new = ClosedList(old, i, status), NEW side, NEW pairs
  PROVE  /\ i \notin Trades(old, side, pairs)
         /\ Trades(new, side, pairs) =
              IF old[i].pair \in pairs /\ old[i].side = side /\ status = Filled
              THEN Trades(old, side, pairs) \cup {i}
              ELSE Trades(old, side, pairs)
<1>1. /\ DOMAIN new = DOMAIN old /\ new[i].status = status
      /\ \A j \in DOMAIN old :
           /\ new[j].pair = old[j].pair /\ new[j].side = old[j].side
           /\ j # i /\ SameGroup(old[i], old[j]) => new[j].status # Filled
           /\ j # i /\ ~SameGroup(old[i], old[j]) => new[j].status = old[j].status
  <2>1. Canceled # Filled
    BY DEF Filled, Canceled
  <2>. QED  BY <2>1, ClosedTypes
<1>2. \A j \in DOMAIN old : SameGroup(old[i], old[j]) => old[j].status # Filled
  BY DEF SpotList, New, Filled
<1>3. i \notin Trades(old, side, pairs)
  BY DEF Trades, New, Filled
<1>4. ASSUME NEW k \in DOMAIN old, k # i
      PROVE  k \in Trades(new, side, pairs) <=> k \in Trades(old, side, pairs)
  BY <1>1, <1>2, <1>4 DEF Trades
<1>5. i \in Trades(new, side, pairs) <=>
        old[i].pair \in pairs /\ old[i].side = side /\ status = Filled
  BY <1>1 DEF Trades
<1>6. Trades(new, side, pairs) \subseteq DOMAIN old /\ Trades(old, side, pairs) \subseteq DOMAIN old
  BY <1>1 DEF Trades
<1>7. Trades(new, side, pairs) =
        IF old[i].pair \in pairs /\ old[i].side = side /\ status = Filled
        THEN Trades(old, side, pairs) \cup {i}
        ELSE Trades(old, side, pairs)
  <2> DEFINE added == old[i].pair \in pairs /\ old[i].side = side /\ status = Filled
  <2>1. i \in Trades(new, side, pairs) <=> added
    BY <1>5
  <2> HIDE DEF added
  <2>2. \A k : k \in Trades(new, side, pairs) <=> k \in Trades(old, side, pairs) \/ (added /\ k = i)
    BY <1>3, <1>4, <1>6, <2>1
  <2>3. Trades(new, side, pairs) =
          IF added THEN Trades(old, side, pairs) \cup {i} ELSE Trades(old, side, pairs)
    BY <2>2
  <2>. QED  BY <2>3 DEF added
<1>. QED  BY <1>3, <1>7

-----------------------------------------------------------------------------
(* What both do to the sums *)

\* A quantity that is no longer pending, or is from now on.
Delta(x, before, status) == (IF status = New THEN x ELSE 0) - (IF before THEN x ELSE 0)

\* The sums of a list in which order o, pending before or not, got a status.
Accounts(old, new, o, before, status) ==
  \A side, pairs :
    LET match == o.pair \in pairs /\ o.side = side
        cost  == OrderCost(o)
    IN  /\ PendingQty(new, side, pairs) =
             PendingQty(old, side, pairs) + (IF match THEN Delta(o.qty, before, status) ELSE 0)
        /\ side = Buy => PendingCost(new, side, pairs) =
             PendingCost(old, side, pairs) + (IF match THEN Delta(cost, before, status) ELSE 0)
        /\ Volume(new, side, pairs) =
             Volume(old, side, pairs) + (IF match /\ status = Filled THEN o.qty ELSE 0)
        /\ Turnover(new, side, pairs) =
             Turnover(old, side, pairs) + (IF match /\ status = Filled THEN cost ELSE 0)

LEMMA PlacedAccounts ==
  ASSUME NEW old \in Seq(Orders), NEW new \in Seq(Orders), PlacedList(old, new),
         NEW a, a = Len(old) + 1
  PROVE  Accounts(old, new, new[a], FALSE, new[a].status)
<1> DEFINE o == new[a]
           cost == OrderCost(o)
<1>1. /\ a \in DOMAIN new /\ a \notin DOMAIN old /\ DOMAIN old \subseteq DOMAIN new
      /\ \A j \in DOMAIN old : new[j] = old[j]
  BY PlacedEntries
<1>2. \A j \in DOMAIN old : /\ Qty(new)[j] = Qty(old)[j] /\ Cost(new)[j] = Cost(old)[j]
                            /\ Qty(old)[j] \in Nat /\ Cost(old)[j] \in Nat
  <2>1. \A j \in DOMAIN new : /\ Qty(new)[j] = new[j].qty
                              /\ Cost(new)[j] = OrderCost(new[j])
    BY ListTypes
  <2>2. \A j \in DOMAIN old : /\ Qty(old)[j] = old[j].qty
                              /\ Cost(old)[j] = OrderCost(old[j])
                              /\ Qty(old)[j] \in Nat /\ Cost(old)[j] \in Nat
    BY ListTypes
  <2>3. ASSUME NEW j \in DOMAIN old
        PROVE  Qty(new)[j] = Qty(old)[j] /\ Cost(new)[j] = Cost(old)[j]
    <3>1. j \in DOMAIN new /\ new[j] = old[j]
      BY <1>1
    <3>. QED  BY <2>1, <2>2, <3>1
  <2>. QED  BY <2>2, <2>3
<1>3. Qty(new)[a] = o.qty /\ Cost(new)[a] = cost /\ o.qty \in Nat /\ cost \in Nat
  BY <1>1, ListTypes
<1> HIDE DEF o, cost
<1>4. ASSUME NEW side, NEW pairs
      PROVE  LET match == o.pair \in pairs /\ o.side = side IN
             /\ PendingQty(new, side, pairs) =
                  PendingQty(old, side, pairs) + (IF match /\ o.status = New THEN o.qty ELSE 0)
             /\ PendingCost(new, side, pairs) =
                  PendingCost(old, side, pairs) + (IF match /\ o.status = New THEN cost ELSE 0)
             /\ Volume(new, side, pairs) =
                  Volume(old, side, pairs) + (IF match /\ o.status = Filled THEN o.qty ELSE 0)
             /\ Turnover(new, side, pairs) =
                  Turnover(old, side, pairs) + (IF match /\ o.status = Filled THEN cost ELSE 0)
  <2> DEFINE match == o.pair \in pairs /\ o.side = side
             placed == match /\ o.status = New
             filled == match /\ o.status = Filled
             S == Pending(old, side, pairs)
             T == Trades(old, side, pairs)
  <2>1. /\ S \subseteq DOMAIN old /\ IsFiniteSet(S) /\ a \notin S
        /\ T \subseteq DOMAIN old /\ IsFiniteSet(T) /\ a \notin T
    BY <1>1, IndexSets
  <2>2. Pending(new, side, pairs) = IF placed THEN S \cup {a} ELSE S
    BY PlacedPending DEF o
  <2>3. Trades(new, side, pairs) = IF filled THEN T \cup {a} ELSE T
    BY PlacedTrades DEF o
  <2> HIDE DEF placed, filled, S, T
  <2>4. /\ Kept(Qty(old), Qty(new), S) /\ Kept(Cost(old), Cost(new), S)
        /\ Kept(Qty(old), Qty(new), T) /\ Kept(Cost(old), Cost(new), T)
    BY <1>2, <2>1 DEF Kept
  <2>5. Qty(new)[a] \in Nat /\ Cost(new)[a] \in Nat
    BY <1>3
  <2>6. /\ Grown(Qty(old), Qty(new), S, a) /\ Grown(Cost(old), Cost(new), S, a)
        /\ Grown(Qty(old), Qty(new), T, a) /\ Grown(Cost(old), Cost(new), T, a)
    BY <2>1, <2>4, <2>5, SumGrows
  <2>8. /\ SumFunctionOnSet(Qty(new), S) = SumFunctionOnSet(Qty(old), S)
        /\ SumFunctionOnSet(Cost(new), S) = SumFunctionOnSet(Cost(old), S)
        /\ SumFunctionOnSet(Qty(new), T) = SumFunctionOnSet(Qty(old), T)
        /\ SumFunctionOnSet(Cost(new), T) = SumFunctionOnSet(Cost(old), T)
        /\ SumFunctionOnSet(Qty(old), S) \in Nat /\ SumFunctionOnSet(Cost(old), S) \in Nat
        /\ SumFunctionOnSet(Qty(old), T) \in Nat /\ SumFunctionOnSet(Cost(old), T) \in Nat
    BY <2>4, SumKept
  <2>9. /\ PendingQty(new, side, pairs) = PendingQty(old, side, pairs) + (IF placed THEN o.qty ELSE 0)
        /\ PendingCost(new, side, pairs) = PendingCost(old, side, pairs) + (IF placed THEN cost ELSE 0)
        /\ Volume(new, side, pairs) = Volume(old, side, pairs) + (IF filled THEN o.qty ELSE 0)
        /\ Turnover(new, side, pairs) = Turnover(old, side, pairs) + (IF filled THEN cost ELSE 0)
    BY <1>3, <2>2, <2>3, <2>6, <2>8
       DEF PendingQty, PendingCost, Volume, Turnover, S, T, Grown
  <2>. QED  BY <2>9 DEF placed, filled
<1>5. \A x \in Nat : Delta(x, FALSE, o.status) = IF o.status = New THEN x ELSE 0
  BY DEF Delta
<1>6. cost = OrderCost(o)
  BY DEF cost
<1>7. ASSUME NEW side, NEW pairs
      PROVE  LET match == o.pair \in pairs /\ o.side = side IN
             /\ PendingQty(new, side, pairs) =
                  PendingQty(old, side, pairs) + (IF match THEN Delta(o.qty, FALSE, o.status) ELSE 0)
             /\ PendingCost(new, side, pairs) =
                  PendingCost(old, side, pairs) + (IF match THEN Delta(cost, FALSE, o.status) ELSE 0)
  <2>1. CASE o.status = New
    <3>1. Delta(o.qty, FALSE, o.status) = o.qty /\ Delta(cost, FALSE, o.status) = cost
      BY <1>3, <1>5, <2>1
    <3>. QED  BY <1>4, <2>1, <3>1
  <2>2. CASE o.status # New
    <3>1. Delta(o.qty, FALSE, o.status) = 0 /\ Delta(cost, FALSE, o.status) = 0
      BY <1>3, <1>5, <2>2
    <3>. QED  BY <1>4, <2>2, <3>1
  <2>. QED  BY <2>1, <2>2
<1>8. Accounts(old, new, o, FALSE, o.status)
  <2> SUFFICES ASSUME NEW side, NEW pairs
               PROVE  LET match == o.pair \in pairs /\ o.side = side IN
                      /\ PendingQty(new, side, pairs) = PendingQty(old, side, pairs)
                           + (IF match THEN Delta(o.qty, FALSE, o.status) ELSE 0)
                      /\ side = Buy => PendingCost(new, side, pairs) = PendingCost(old, side, pairs)
                           + (IF match THEN Delta(cost, FALSE, o.status) ELSE 0)
                      /\ Volume(new, side, pairs) = Volume(old, side, pairs)
                           + (IF match /\ o.status = Filled THEN o.qty ELSE 0)
                      /\ Turnover(new, side, pairs) = Turnover(old, side, pairs)
                           + (IF match /\ o.status = Filled THEN cost ELSE 0)
    BY Zenon DEF Accounts, cost
  <2>. QED  BY <1>4, <1>7, ZenonT(40)
<1>. QED  BY <1>8 DEF o

LEMMA ClosedAccounts ==
  ASSUME NEW old \in Seq(Orders), NEW n, Legs(old, n), SpotList(old),
         NEW i \in DOMAIN old, old[i].status = New, NEW status \in FinalStatuses,
         NEW new, new = ClosedList(old, i, status)
  PROVE  Accounts(old, new, old[i], TRUE, status)
<1> DEFINE o == old[i]
           cost == OrderCost(o)
<1>1. new \in Seq(Orders) /\ DOMAIN new = DOMAIN old
  BY ClosedTypes
<1>2. \A j \in DOMAIN old : /\ Qty(new)[j] = Qty(old)[j] /\ Cost(new)[j] = Cost(old)[j]
                            /\ Qty(old)[j] \in Nat /\ Cost(old)[j] \in Nat
  <2>1. \A j \in DOMAIN old : new[j].qty = old[j].qty /\ OrderCost(new[j]) = OrderCost(old[j])
    BY ClosedTypes
  <2>2. \A j \in DOMAIN old : Qty(new)[j] = new[j].qty /\ Cost(new)[j] = OrderCost(new[j])
    BY <1>1, ListTypes
  <2>3. \A j \in DOMAIN old : /\ Qty(old)[j] = old[j].qty /\ Cost(old)[j] = OrderCost(old[j])
                              /\ Qty(old)[j] \in Nat /\ Cost(old)[j] \in Nat
    BY ListTypes
  <2>. QED  BY <2>1, <2>2, <2>3
<1>3. Qty(old)[i] = o.qty /\ Cost(old)[i] = cost /\ o.qty \in Nat /\ cost \in Nat
  BY ListTypes
<1>4. PICK first \in DOMAIN old :
        /\ old[first].qty = o.qty
        /\ o.side = Buy => first = i
        /\ \A side, pairs :
             LET match == o.pair \in pairs /\ o.side = side IN
             /\ match => first \in Pending(old, side, pairs)
             /\ Pending(new, side, pairs) = IF match THEN Pending(old, side, pairs) \ {first}
                                                     ELSE Pending(old, side, pairs)
  BY ClosedPending
<1>5. Qty(old)[first] = o.qty /\ (o.side = Buy => Cost(old)[first] = cost)
  BY <1>3, <1>4, ListTypes
<1> HIDE DEF o, cost
<1>6. ASSUME NEW side, NEW pairs
      PROVE  LET match == o.pair \in pairs /\ o.side = side IN
             /\ PendingQty(new, side, pairs) =
                  PendingQty(old, side, pairs) - (IF match THEN o.qty ELSE 0)
             /\ side = Buy => PendingCost(new, side, pairs) =
                  PendingCost(old, side, pairs) - (IF match THEN cost ELSE 0)
             /\ Volume(new, side, pairs) =
                  Volume(old, side, pairs) + (IF match /\ status = Filled THEN o.qty ELSE 0)
             /\ Turnover(new, side, pairs) =
                  Turnover(old, side, pairs) + (IF match /\ status = Filled THEN cost ELSE 0)
  <2> DEFINE match == o.pair \in pairs /\ o.side = side
             filled == match /\ status = Filled
             S == Pending(old, side, pairs)
             T == Trades(old, side, pairs)
  <2>1. /\ S \subseteq DOMAIN old /\ IsFiniteSet(S)
        /\ T \subseteq DOMAIN old /\ IsFiniteSet(T) /\ i \notin T
    BY IndexSets, ClosedTrades
  <2>2. (match => first \in S) /\ Pending(new, side, pairs) = IF match THEN S \ {first} ELSE S
    BY <1>4
  <2>3. Trades(new, side, pairs) = IF filled THEN T \cup {i} ELSE T
    BY ClosedTrades DEF o
  <2>4. match /\ side = Buy => o.side = Buy
    OBVIOUS
  <2> HIDE DEF match, filled, S, T
  <2>5. /\ Kept(Qty(old), Qty(new), S) /\ Kept(Cost(old), Cost(new), S)
        /\ Kept(Qty(old), Qty(new), T) /\ Kept(Cost(old), Cost(new), T)
    BY <1>2, <2>1 DEF Kept
  <2>6. Qty(new)[i] = o.qty /\ Cost(new)[i] = cost /\ Qty(new)[i] \in Nat /\ Cost(new)[i] \in Nat
    BY <1>2, <1>3
  <2>7. match => Shrunk(Qty(old), Qty(new), S, first) /\ Shrunk(Cost(old), Cost(new), S, first)
    BY <2>2, <2>5, SumShrinks
  <2>8. Grown(Qty(old), Qty(new), T, i) /\ Grown(Cost(old), Cost(new), T, i)
    BY <2>1, <2>5, <2>6, SumGrows
  <2>10. /\ SumFunctionOnSet(Qty(new), S) = SumFunctionOnSet(Qty(old), S)
         /\ SumFunctionOnSet(Cost(new), S) = SumFunctionOnSet(Cost(old), S)
         /\ SumFunctionOnSet(Qty(new), T) = SumFunctionOnSet(Qty(old), T)
         /\ SumFunctionOnSet(Cost(new), T) = SumFunctionOnSet(Cost(old), T)
         /\ SumFunctionOnSet(Qty(old), S) \in Nat /\ SumFunctionOnSet(Cost(old), S) \in Nat
         /\ SumFunctionOnSet(Qty(old), T) \in Nat /\ SumFunctionOnSet(Cost(old), T) \in Nat
    BY <2>5, SumKept
  <2>9. /\ PendingQty(new, side, pairs) = PendingQty(old, side, pairs) - (IF match THEN o.qty ELSE 0)
        /\ side = Buy => PendingCost(new, side, pairs) =
                           PendingCost(old, side, pairs) - (IF match THEN cost ELSE 0)
        /\ Volume(new, side, pairs) = Volume(old, side, pairs) + (IF filled THEN o.qty ELSE 0)
        /\ Turnover(new, side, pairs) = Turnover(old, side, pairs) + (IF filled THEN cost ELSE 0)
    BY <1>5, <2>2, <2>3, <2>4, <2>6, <2>7, <2>8, <2>10
       DEF PendingQty, PendingCost, Volume, Turnover, S, T, Grown, Shrunk
  <2>. QED  BY <2>9 DEF match, filled
<1>7. Delta(o.qty, TRUE, status) = -o.qty /\ Delta(cost, TRUE, status) = -cost
  BY <1>3 DEF Delta, FinalStatuses, New, Filled, Canceled
<1>8. \A side, pairs : /\ PendingQty(old, side, pairs) \in Nat
                       /\ PendingCost(old, side, pairs) \in Nat
  BY SumTypes
<1>9. cost = OrderCost(o)
  BY DEF cost
<1>10. ASSUME NEW side, NEW pairs
       PROVE  LET match == o.pair \in pairs /\ o.side = side IN
              /\ PendingQty(new, side, pairs) =
                   PendingQty(old, side, pairs) + (IF match THEN Delta(o.qty, TRUE, status) ELSE 0)
              /\ side = Buy => PendingCost(new, side, pairs) =
                   PendingCost(old, side, pairs) + (IF match THEN Delta(cost, TRUE, status) ELSE 0)
  <2> DEFINE dq == Delta(o.qty, TRUE, status)
             dc == Delta(cost, TRUE, status)
             pq == PendingQty(old, side, pairs)
             pc == PendingCost(old, side, pairs)
  <2>1. dq = -o.qty /\ dc = -cost /\ pq \in Nat /\ pc \in Nat
    BY <1>7, <1>8
  <2>2. LET match == o.pair \in pairs /\ o.side = side IN
        /\ PendingQty(new, side, pairs) = pq - (IF match THEN o.qty ELSE 0)
        /\ side = Buy => PendingCost(new, side, pairs) = pc - (IF match THEN cost ELSE 0)
    BY <1>6
  <2> HIDE DEF dq, dc, pq, pc
  <2>3. LET match == o.pair \in pairs /\ o.side = side IN
        /\ PendingQty(new, side, pairs) = pq + (IF match THEN dq ELSE 0)
        /\ side = Buy => PendingCost(new, side, pairs) = pc + (IF match THEN dc ELSE 0)
    BY <1>3, <2>1, <2>2
  <2>. QED  BY <2>3 DEF dq, dc, pq, pc
<1>11. Accounts(old, new, o, TRUE, status)
  <2> SUFFICES ASSUME NEW side, NEW pairs
               PROVE  LET match == o.pair \in pairs /\ o.side = side IN
                      /\ PendingQty(new, side, pairs) = PendingQty(old, side, pairs)
                           + (IF match THEN Delta(o.qty, TRUE, status) ELSE 0)
                      /\ side = Buy => PendingCost(new, side, pairs) = PendingCost(old, side, pairs)
                           + (IF match THEN Delta(cost, TRUE, status) ELSE 0)
                      /\ Volume(new, side, pairs) = Volume(old, side, pairs)
                           + (IF match /\ status = Filled THEN o.qty ELSE 0)
                      /\ Turnover(new, side, pairs) = Turnover(old, side, pairs)
                           + (IF match /\ status = Filled THEN cost ELSE 0)
    BY Zenon DEF Accounts, cost
  <2> DEFINE match == o.pair \in pairs /\ o.side = side
             dq == Delta(o.qty, TRUE, status)
             dc == Delta(cost, TRUE, status)
  <2>1. /\ PendingQty(new, side, pairs) = PendingQty(old, side, pairs) + (IF match THEN dq ELSE 0)
        /\ side = Buy => PendingCost(new, side, pairs) =
                           PendingCost(old, side, pairs) + (IF match THEN dc ELSE 0)
    BY <1>10
  <2>2. /\ Volume(new, side, pairs) =
             Volume(old, side, pairs) + (IF match /\ status = Filled THEN o.qty ELSE 0)
        /\ Turnover(new, side, pairs) =
             Turnover(old, side, pairs) + (IF match /\ status = Filled THEN cost ELSE 0)
    BY <1>6
  <2>. QED  BY <2>1, <2>2, Zenon
<1>. QED  BY <1>11 DEF o

-----------------------------------------------------------------------------
(* The balances move by the same amounts *)

\* What happens to the balances when order o, pending before or not, gets a
\* status: pending sales lock their quantity, pending purchases their cost, and
\* an execution exchanges the one for the other.
Moves(o, before, status) ==
  LET cost == OrderCost(o) IN
  /\ \A p \in Pairs :
       /\ lock'[p] = lock[p] + (IF o.side = Sell /\ o.pair = p THEN Delta(o.qty, before, status) ELSE 0)
       /\ Total(p)' = Total(p) + (IF status = Filled /\ o.pair = p
                                 THEN IF o.side = Buy THEN o.qty ELSE -o.qty ELSE 0)
       /\ volume'[p] = volume[p] + (IF status = Filled /\ o.pair = p THEN cost ELSE 0)
  /\ lock'[Quote] = lock[Quote] + (IF o.side = Buy THEN Delta(cost, before, status) ELSE 0)
  /\ Total(Quote)' = Total(Quote) + (IF status = Filled
                                    THEN IF o.side = Sell THEN cost ELSE -cost ELSE 0)

\* The steps of the wallet, as its order list and its balances see them.
SpotStep ==
  \/ /\ UNCHANGED <<Book, lock, volume>>
     /\ \A c \in Coins : Total(c)' = Total(c)
  \/ /\ PlacedList(Book, Book')
     /\ \E a \in DOMAIN Book' : a = Len(Book) + 1 /\ Moves(Book'[a], FALSE, Book'[a].status)
  \/ \E i \in DOMAIN Book, status \in FinalStatuses :
       /\ Book[i].status = New /\ (status = Canceled => Book[i].group = None)
       /\ Book' = ClosedList(Book, i, status)
       /\ Moves(Book[i], TRUE, status)

LEMMA OrderTerms ==
  ASSUME NEW o \in Orders
  PROVE  /\ o.qty \in Nat /\ OrderCost(o) \in Nat /\ o.pair \in Pairs
         /\ o.side = Buy \/ o.side = Sell
<1>1. o.qty \in Nat /\ ExecutionPrice(o) \in Nat /\ o.pair \in Pairs /\ o.side \in Sides
  BY DEF Orders, ExecutionPrice
<1>. QED  BY <1>1, NatProduct DEF OrderCost, Sides

\* Locks and balances that agree with the old list agree with the new one.
LEMMA BooksKept ==
  ASSUME TypeOK, WalletAssumption, LocksBackOrders, BooksBalance,
         Book \in Seq(Orders), Book' \in Seq(Orders),
         NEW o \in Orders, NEW before \in BOOLEAN, NEW status,
         Accounts(Book, Book', o, before, status), Moves(o, before, status)
  PROVE  LocksBackOrders' /\ BooksBalance'
<1> DEFINE cost == OrderCost(o)
           qty == o.qty
           dq == Delta(qty, before, status)
           dc == Delta(cost, before, status)
           filled == status = Filled
<1>1. qty \in Int /\ cost \in Int /\ dq \in Int /\ dc \in Int
  BY OrderTerms DEF Delta
<1>2. o.pair \in Pairs /\ (o.side = Buy \/ o.side = Sell) /\ Buy # Sell
  BY OrderTerms DEF Buy, Sell
<1>3. ASSUME NEW side, NEW pairs
      PROVE  LET match == o.pair \in pairs /\ o.side = side IN
             /\ PendingQty(Book', side, pairs) = PendingQty(Book, side, pairs) + (IF match THEN dq ELSE 0)
             /\ side = Buy => PendingCost(Book', side, pairs) =
                  PendingCost(Book, side, pairs) + (IF match THEN dc ELSE 0)
             /\ Volume(Book', side, pairs) =
                  Volume(Book, side, pairs) + (IF match /\ filled THEN qty ELSE 0)
             /\ Turnover(Book', side, pairs) =
                  Turnover(Book, side, pairs) + (IF match /\ filled THEN cost ELSE 0)
  BY Zenon DEF Accounts
<1>4. ASSUME NEW p \in Pairs
      PROVE  /\ lock'[p] = lock[p] + (IF o.side = Sell /\ o.pair = p THEN dq ELSE 0)
             /\ Total(p)' = Total(p) + (IF filled /\ o.pair = p
                                       THEN IF o.side = Buy THEN qty ELSE -qty ELSE 0)
             /\ volume'[p] = volume[p] + (IF filled /\ o.pair = p THEN cost ELSE 0)
  BY Zenon DEF Moves
<1>5. /\ lock'[Quote] = lock[Quote] + (IF o.side = Buy THEN dc ELSE 0)
      /\ Total(Quote)' = Total(Quote) + (IF filled THEN IF o.side = Sell THEN cost ELSE -cost ELSE 0)
  BY Zenon DEF Moves
<1> HIDE DEF cost, qty, dq, dc, filled
<1>6. \A side, pairs : /\ PendingQty(Book, side, pairs) \in Int /\ PendingCost(Book, side, pairs) \in Int
                       /\ Volume(Book, side, pairs) \in Int /\ Turnover(Book, side, pairs) \in Int
  BY SumTypes
<1>7. ASSUME NEW p \in Pairs PROVE lock'[p] = PendingQty(Book', Sell, {p})
  <2>1. lock[p] = PendingQty(Book, Sell, {p})
    BY DEF LocksBackOrders
  <2>2. PendingQty(Book', Sell, {p}) =
          PendingQty(Book, Sell, {p}) + (IF o.pair \in {p} /\ o.side = Sell THEN dq ELSE 0)
    BY <1>3
  <2>. QED  BY <1>4, <2>1, <2>2
<1>8. lock'[Quote] = PendingCost(Book', Buy, Pairs)
  <2>1. lock[Quote] = PendingCost(Book, Buy, Pairs)
    BY DEF LocksBackOrders
  <2>2. PendingCost(Book', Buy, Pairs) =
          PendingCost(Book, Buy, Pairs) + (IF o.pair \in Pairs /\ o.side = Buy THEN dc ELSE 0)
    BY <1>3
  <2>. QED  BY <1>2, <1>5, <2>1, <2>2
<1>9. InitialAsset \in Int /\ InitialQuote \in Int
  BY DEF WalletAssumption
<1>10. ASSUME NEW p \in Pairs
       PROVE  /\ Total(p)' = InitialAsset + Volume(Book', Buy, {p}) - Volume(Book', Sell, {p})
              /\ volume'[p] = Turnover(Book', Buy, {p}) + Turnover(Book', Sell, {p})
  <2>1. /\ Total(p) = InitialAsset + Volume(Book, Buy, {p}) - Volume(Book, Sell, {p})
        /\ volume[p] = Turnover(Book, Buy, {p}) + Turnover(Book, Sell, {p})
    BY DEF BooksBalance
  <2>2. \A side : /\ Volume(Book', side, {p}) = Volume(Book, side, {p})
                       + (IF (o.pair = p /\ o.side = side) /\ filled THEN qty ELSE 0)
                  /\ Turnover(Book', side, {p}) = Turnover(Book, side, {p})
                       + (IF (o.pair = p /\ o.side = side) /\ filled THEN cost ELSE 0)
    BY <1>3
  <2> DEFINE vb == Volume(Book, Buy, {p})
             vs == Volume(Book, Sell, {p})
             tb == Turnover(Book, Buy, {p})
             ts == Turnover(Book, Sell, {p})
  <2>3. vb \in Int /\ vs \in Int /\ tb \in Int /\ ts \in Int
    BY <1>6
  <2>4. /\ Volume(Book', Buy, {p}) = vb + (IF (o.pair = p /\ o.side = Buy) /\ filled THEN qty ELSE 0)
        /\ Volume(Book', Sell, {p}) = vs + (IF (o.pair = p /\ o.side = Sell) /\ filled THEN qty ELSE 0)
        /\ Turnover(Book', Buy, {p}) = tb + (IF (o.pair = p /\ o.side = Buy) /\ filled THEN cost ELSE 0)
        /\ Turnover(Book', Sell, {p}) = ts + (IF (o.pair = p /\ o.side = Sell) /\ filled THEN cost ELSE 0)
    BY <2>2
  <2>5. Total(p) = InitialAsset + vb - vs /\ volume[p] = tb + ts
    BY <2>1
  <2> HIDE DEF vb, vs, tb, ts
  <2>6. /\ Total(p)' = Total(p) + (IF filled /\ o.pair = p
                                   THEN IF o.side = Buy THEN qty ELSE -qty ELSE 0)
        /\ volume'[p] = volume[p] + (IF filled /\ o.pair = p THEN cost ELSE 0)
    BY <1>4
  <2>7. CASE ~filled \/ o.pair # p
    BY <1>9, <2>3, <2>4, <2>5, <2>6, <2>7
  <2>8. CASE filled /\ o.pair = p /\ o.side = Buy
    <3>1. /\ Volume(Book', Buy, {p}) = vb + qty /\ Volume(Book', Sell, {p}) = vs + 0
          /\ Turnover(Book', Buy, {p}) = tb + cost /\ Turnover(Book', Sell, {p}) = ts + 0
      BY <1>2, <2>4, <2>8
    <3>2. Total(p)' = Total(p) + qty /\ volume'[p] = volume[p] + cost
      BY <2>6, <2>8
    <3>. QED  BY <1>1, <1>9, <2>3, <2>5, <3>1, <3>2
  <2>9. CASE filled /\ o.pair = p /\ o.side = Sell
    <3>1. /\ Volume(Book', Sell, {p}) = vs + qty /\ Volume(Book', Buy, {p}) = vb + 0
          /\ Turnover(Book', Sell, {p}) = ts + cost /\ Turnover(Book', Buy, {p}) = tb + 0
      BY <1>2, <2>4, <2>9
    <3>2. Total(p)' = Total(p) + (-qty) /\ volume'[p] = volume[p] + cost
      BY <1>2, <2>6, <2>9
    <3>. QED  BY <1>1, <1>9, <2>3, <2>5, <3>1, <3>2, SMTT(30)
  <2>. QED  BY <1>2, <2>7, <2>8, <2>9
<1>11. Total(Quote)' = InitialQuote + Turnover(Book', Sell, Pairs) - Turnover(Book', Buy, Pairs)
  <2> DEFINE tb == Turnover(Book, Buy, Pairs)
             ts == Turnover(Book, Sell, Pairs)
  <2>1. Total(Quote) = InitialQuote + ts - tb
    BY DEF BooksBalance
  <2>2. /\ Turnover(Book', Buy, Pairs) = tb + (IF (o.pair \in Pairs /\ o.side = Buy) /\ filled THEN cost ELSE 0)
        /\ Turnover(Book', Sell, Pairs) = ts + (IF (o.pair \in Pairs /\ o.side = Sell) /\ filled THEN cost ELSE 0)
    BY <1>3
  <2>3. tb \in Int /\ ts \in Int
    BY <1>6
  <2> HIDE DEF tb, ts
  <2>. QED  BY <1>1, <1>2, <1>5, <1>9, <2>1, <2>2, <2>3, SMTT(30)
<1>12. LocksBackOrders'
  BY <1>7, <1>8 DEF LocksBackOrders
<1>13. BooksBalance'
  BY <1>10, <1>11 DEF BooksBalance
<1>. QED  BY <1>12, <1>13

-----------------------------------------------------------------------------
(* The list stays one of the client's and implements the order book *)

LEMMA PlacedSpot ==
  ASSUME NEW old \in Seq(Orders), NEW new \in Seq(Orders), PlacedList(old, new), SpotList(old)
  PROVE  SpotList(new)
<1>1. PICK a \in DOMAIN new :
        /\ a \notin DOMAIN old /\ DOMAIN old \subseteq DOMAIN new
        /\ \A j \in DOMAIN old : new[j] = old[j]
        /\ \A j \in DOMAIN old, k \in DOMAIN new \ DOMAIN old : ~SameGroup(new[k], new[j])
        /\ \A k \in DOMAIN new \ DOMAIN old :
             /\ new[k].qty > 0
             /\ new[k].group # None => new[k].side = Sell /\ new[k].status = New
             /\ k # a => new[k].pair = new[a].pair /\ new[k].qty = new[a].qty
  BY PlacedEntries
<1>2. ASSUME NEW k \in DOMAIN new
      PROVE  new[k].qty > 0 /\ (new[k].group # None => new[k].side = Sell)
  BY <1>1 DEF SpotList
<1>3. ASSUME NEW j \in DOMAIN new, NEW k \in DOMAIN new, SameGroup(new[j], new[k])
      PROVE  /\ new[j].pair = new[k].pair /\ new[j].qty = new[k].qty
             /\ new[j].status = New => new[k].status = New
  <2>1. CASE j \in DOMAIN old /\ k \in DOMAIN old
    BY <1>1, <1>3, <2>1 DEF SpotList
  <2>2. CASE j \notin DOMAIN old /\ k \notin DOMAIN old
    BY <1>1, <1>3, <2>2 DEF SameGroup
  <2>3. (j \in DOMAIN old) <=> (k \in DOMAIN old)
    BY <1>1, <1>3 DEF SameGroup
  <2>. QED  BY <2>1, <2>2, <2>3
<1>. QED  BY <1>2, <1>3 DEF SpotList

LEMMA ClosedSpot ==
  ASSUME NEW old \in Seq(Orders), SpotList(old), NEW i \in DOMAIN old, NEW status \in FinalStatuses,
         NEW new, new = ClosedList(old, i, status)
  PROVE  SpotList(new)
<1>1. /\ DOMAIN new = DOMAIN old /\ new[i].status # New
      /\ \A j \in DOMAIN old :
           /\ new[j].group = old[j].group /\ new[j].pair = old[j].pair
           /\ new[j].side = old[j].side /\ new[j].qty = old[j].qty
           /\ j # i /\ SameGroup(old[i], old[j]) => new[j].status # New
           /\ j # i /\ ~SameGroup(old[i], old[j]) => new[j].status = old[j].status
  <2>1. status # New /\ Canceled # New
    BY DEF FinalStatuses, New, Filled, Canceled
  <2>. QED  BY <2>1, ClosedTypes
<1>2. ASSUME NEW j \in DOMAIN old, NEW k \in DOMAIN old, SameGroup(new[j], new[k])
      PROVE  /\ new[j].pair = new[k].pair /\ new[j].qty = new[k].qty
             /\ new[j].status = New => new[k].status = New
  <2>1. SameGroup(old[j], old[k])
    BY <1>1, <1>2 DEF SameGroup
  <2>2. new[j].pair = new[k].pair /\ new[j].qty = new[k].qty
    BY <1>1, <2>1 DEF SpotList
  <2>3. ASSUME new[j].status = New PROVE new[k].status = New
    <3>1. j # i /\ ~SameGroup(old[i], old[j])
      BY <1>1, <2>3
    <3>2. k # i /\ ~SameGroup(old[i], old[k])
      BY <2>1, <3>1 DEF SameGroup
    <3>3. old[j].status = New
      BY <1>1, <2>3, <3>1
    <3>. QED  BY <1>1, <2>1, <3>2, <3>3 DEF SpotList
  <2>. QED  BY <2>2, <2>3
<1>3. ASSUME NEW k \in DOMAIN old
      PROVE  new[k].qty > 0 /\ (new[k].group # None => new[k].side = Sell)
  BY <1>1 DEF SpotList
<1>. QED  BY <1>1, <1>2, <1>3 DEF SpotList

\* One of the order book's steps, or none.
LEMMA BookStep ==
  ASSUME SpotStep, SpotList(Book), NEW n, Legs(Book', n),
         Book \in Seq(Orders), Book' \in Seq(Orders)
  PROVE  [OB!Next]_Book
<1>1. CASE UNCHANGED Book
  BY <1>1
<1>2. CASE PlacedList(Book, Book')
  <2>1. PICK a \in DOMAIN Book' :
          /\ a = Len(Book) + 1 /\ DOMAIN Book \subseteq DOMAIN Book'
          /\ \A j \in DOMAIN Book : Book'[j] = Book[j]
          /\ \A j \in DOMAIN Book, k \in DOMAIN Book' \ DOMAIN Book : ~SameGroup(Book'[k], Book'[j])
          /\ \A k \in DOMAIN Book' \ DOMAIN Book :
               /\ Book'[k].status \in {New, Filled}
               /\ Book'[k].group # None => Book'[k].status = New
    BY <1>2, PlacedEntries
  <2>2. /\ Len(Book) \in Nat /\ DOMAIN Book = 1 .. Len(Book)
        /\ Len(Book') \in Nat /\ DOMAIN Book' = 1 .. Len(Book')
    BY ListTypes
  <2>3. ASSUME NEW k \in Len(Book) + 1 .. Len(Book')
        PROVE  OB!Placed(k)
    <3>1. k \in DOMAIN Book' \ DOMAIN Book /\ \A j \in 1 .. k - 1 : j \in DOMAIN Book' /\ j # k
      BY <2>2
    <3>2. \A j \in 1 .. k - 1 : Book'[j].id # Book'[k].id
      BY <3>1 DEF Legs
    <3>3. \A j \in DOMAIN Book : ~OB!SameGroup(Book'[k], Book[j])
      BY <2>1, <3>1 DEF SameGroup, OB!SameGroup, None, OB!None
    <3>4. Book'[k].status = OB!New \/ (Book'[k].status = OB!Filled /\ Book'[k].group = OB!None)
      <4>1. Book'[k].status \in {New, Filled} /\ (Book'[k].group # None => Book'[k].status = New)
        BY <2>1, <3>1
      <4>. QED  BY <4>1 DEF New, Filled, None, OB!New, OB!Filled, OB!None
    <3>. QED  BY <3>2, <3>3, <3>4 DEF OB!Placed
  <2>4. Len(Book') > Len(Book)
    BY <2>1, <2>2
  <2>5. OB!Place
    BY <2>1, <2>3, <2>4 DEF OB!Place
  <2>. QED  BY <2>5 DEF OB!Next
<1>3. ASSUME NEW i \in DOMAIN Book, NEW status \in FinalStatuses,
             Book[i].status = New, status = Canceled => Book[i].group = None,
             Book' = ClosedList(Book, i, status)
      PROVE  OB!Next
  <2>1. OB!Peers(i) = {j \in DOMAIN Book : j # i /\ SameGroup(Book[i], Book[j])}
    BY DEF OB!Peers, OB!SameGroup, SameGroup, None, OB!None
  <2>2. CASE status = Filled
    <3>1. \A j \in OB!Peers(i) : Book[j].status = New
      BY <1>3, <2>1 DEF SpotList
    <3>2. Book' = [j \in DOMAIN Book |->
                     IF j = i THEN [Book[j] EXCEPT !.status = Filled]
                     ELSE IF j \in OB!Peers(i) THEN [Book[j] EXCEPT !.status = Canceled]
                     ELSE Book[j]]
      BY <1>3, <2>1, <2>2 DEF ClosedList, WithStatus
    <3>3. New = OB!New /\ Filled = OB!Filled /\ Canceled = OB!Canceled
      BY DEF New, Filled, Canceled, OB!New, OB!Filled, OB!Canceled
    <3>4. OB!Fill(i)
      BY <1>3, <3>1, <3>2, <3>3 DEF OB!Fill
    <3>. QED  BY <3>4 DEF OB!Next
  <2>3. CASE status = Canceled
    <3>1. OB!Peers(i) = {}
      BY <1>3, <2>1, <2>3 DEF SameGroup
    <3>2. Book' = [Book EXCEPT ![i] = WithStatus(Book[i], Canceled)]
      <4>1. \A j \in DOMAIN Book : ~SameGroup(Book[i], Book[j])
        BY <1>3, <2>3 DEF SameGroup
      <4>2. Book = [j \in DOMAIN Book |-> Book[j]]
        BY ListTypes
      <4>. QED  BY <1>3, <2>3, <4>1, <4>2 DEF ClosedList
    <3>3. Book' = [Book EXCEPT ![i].status = Canceled]
      BY <3>2 DEF WithStatus
    <3>4. New = OB!New /\ Canceled = OB!Canceled
      BY DEF New, Canceled, OB!New, OB!Canceled
    <3>5. OB!Cancel(i)
      BY <1>3, <3>1, <3>3, <3>4 DEF OB!Cancel
    <3>. QED  BY <3>5 DEF OB!Next
  <2>. QED  BY <2>2, <2>3 DEF FinalStatuses
<1>. QED  BY <1>1, <1>2, <1>3 DEF SpotStep
-----------------------------------------------------------------------------
(* The balances of the client's orders *)

Solvent == \A c \in Coins : free[c] >= 0

\* A sale of free assets locks its quantity, a purchase its cost.
LEMMA SpotLocks ==
  ASSUME TypeOK, WalletAssumption, Solvent,
         NEW side \in Sides, NEW p \in Pairs, NEW amount \in Nat, NEW value \in Nat,
         NEW cost, cost = amount * value,
         side = Sell => amount <= free[p], LockFunds(side, p, amount, value)
  PROVE  /\ \A c \in Coins :
              lock'[c] = lock[c] + (IF side = Sell /\ c = p THEN amount ELSE 0)
                                 + (IF side = Buy /\ c = Quote THEN cost ELSE 0)
         /\ Solvent'
<1>1. /\ free \in [Coins -> Int] /\ lock \in [Coins -> Int] /\ avgShort \in [Pairs -> Nat]
      /\ p \in Coins /\ Quote \in Coins /\ p # Quote
  BY DEF TypeOK, Coins, WalletAssumption
<1>2. free[p] \in Int /\ free[p] >= 0 /\ free[Quote] \in Int /\ free[Quote] >= 0
  BY <1>1 DEF Solvent
<1>3. cost \in Nat
  BY NatProduct
<1>4. LockedAsset(side, p, amount) = IF side = Sell THEN amount ELSE 0
  BY <1>2 DEF LockedAsset, Min2, Max2
<1>5. LockedQuote(side, p, amount, value) = IF side = Sell THEN 0 ELSE cost
  <2>1. CASE side = Sell
    <3>1. LockedAsset(side, p, amount) = amount /\ side # Buy
      BY <1>4, <2>1 DEF Buy, Sell
    <3>2. (amount - amount) * value - 0 = 0
      OBVIOUS
    <3>. QED  BY <2>1, <3>1, <3>2 DEF LockedQuote
  <2>2. CASE side # Sell
    <3>1. LockedAsset(side, p, amount) = 0 /\ ~(free[p] < 0)
      BY <1>2, <1>4, <2>2
    <3>2. (amount - 0) * value - 0 = cost
      BY <1>3
    <3>. QED  BY <2>2, <3>1, <3>2 DEF LockedQuote
  <2>. QED  BY <2>1, <2>2
<1>6. side = Buy => free[Quote] >= cost
  BY <1>2 DEF LockFunds, FundsSuffice, Buy, Sell
<1>7. (side = Buy \/ side = Sell) /\ Buy # Sell
  BY DEF Sides, Buy, Sell
<1> DEFINE asset == LockedAsset(side, p, amount)
           quote == LockedQuote(side, p, amount, value)
<1>8. /\ free' = [free EXCEPT ![p] = IF side = Sell THEN @ - asset ELSE @ + asset,
                              ![Quote] = @ - quote]
      /\ lock' = [lock EXCEPT ![p] = @ + asset, ![Quote] = @ + quote]
  BY DEF LockFunds
<1>9. asset = (IF side = Sell THEN amount ELSE 0) /\ quote = (IF side = Sell THEN 0 ELSE cost)
  BY <1>4, <1>5
<1> HIDE DEF asset, quote
<1>10. ASSUME NEW c \in Coins
       PROVE  lock'[c] = lock[c] + (IF side = Sell /\ c = p THEN amount ELSE 0)
                                 + (IF side = Buy /\ c = Quote THEN cost ELSE 0)
  <2>1. lock'[c] = IF c = Quote THEN lock[c] + quote ELSE IF c = p THEN lock[c] + asset ELSE lock[c]
    BY <1>1, <1>8
  <2>. QED  BY <1>1, <1>3, <1>7, <1>9, <2>1
<1>11. ASSUME NEW c \in Coins PROVE free'[c] >= 0
  <2>1. CASE c = p
    BY <1>1, <1>2, <1>7, <1>8, <1>9, <2>1
  <2>2. CASE c = Quote
    BY <1>1, <1>2, <1>3, <1>6, <1>7, <1>8, <1>9, <2>2
  <2>3. CASE c # p /\ c # Quote
    BY <1>1, <1>8, <2>3 DEF Solvent
  <2>. QED  BY <2>1, <2>2, <2>3
<1>. QED  BY <1>10, <1>11 DEF Solvent

\* A pending order moves its funds into the lock.
LEMMA PlacedMoves ==
  ASSUME TypeOK, WalletAssumption, Solvent, NEW o \in Orders, NEW value \in Nat,
         o.status = New, o.side = Sell => o.qty <= free[o.pair], o.side = Buy => OrderCost(o) = o.qty * value,
         LockFunds(o.side, o.pair, o.qty, value), volume' = volume
  PROVE  Moves(o, FALSE, New) /\ Solvent'
<1> DEFINE side == o.side
           p == o.pair
           qty == o.qty
           cost == OrderCost(o)
           paid == qty * value
<1>1. /\ side \in Sides /\ p \in Pairs /\ qty \in Nat /\ cost \in Nat /\ paid \in Nat
      /\ (side = Buy \/ side = Sell) /\ Buy # Sell
  BY OrderTerms, NatProduct DEF Sides, Buy, Sell
<1>2. side = Buy => cost = paid
  OBVIOUS
<1>3. \A c \in Coins : Total(c)' = Total(c)
  BY <1>1, LockMoves DEF Solvent, Coins
<1>4. /\ \A c \in Coins :
           lock'[c] = lock[c] + (IF side = Sell /\ c = p THEN qty ELSE 0)
                              + (IF side = Buy /\ c = Quote THEN paid ELSE 0)
      /\ Solvent'
  BY <1>1, SpotLocks
<1>5. Delta(qty, FALSE, New) = qty /\ Delta(cost, FALSE, New) = cost /\ New # Filled
  BY <1>1 DEF Delta, New, Filled
<1>6. lock \in [Coins -> Int] /\ Quote \in Coins /\ Pairs \subseteq Coins /\ Quote \notin Pairs
  BY DEF TypeOK, Coins, WalletAssumption
<1>7. volume \in [Pairs -> Nat] /\ \A c \in Coins : Total(c) \in Int
  BY DEF TypeOK, Total
<1> HIDE DEF side, p, qty, cost, paid
<1>8. ASSUME NEW c \in Pairs
      PROVE  lock'[c] = lock[c] + (IF side = Sell /\ p = c THEN qty ELSE 0)
  BY <1>1, <1>4, <1>6
<1>9. lock'[Quote] = lock[Quote] + (IF side = Buy THEN cost ELSE 0)
  BY <1>1, <1>2, <1>4, <1>6
<1>10. \A c \in Pairs : volume'[c] = volume[c] + 0 /\ Total(c)' = Total(c) + 0
  BY <1>3, <1>6, <1>7
<1>11. Total(Quote)' = Total(Quote) + 0
  BY <1>3, <1>6, <1>7
<1>12. Moves(o, FALSE, New)
  BY <1>5, <1>8, <1>9, <1>10, <1>11, Zenon DEF Moves, side, p, qty, cost
<1>. QED  BY <1>4, <1>12

\* A market order exchanges the asset for its cost at once and locks nothing.
LEMMA MarketMoves ==
  ASSUME TypeOK, WalletAssumption, Solvent,
         NEW side \in Sides, NEW p \in Pairs, NEW size \in Nat,
         side = Sell => size <= free[p], FillMarket(side, p, size),
         NEW o \in Orders, o.side = side, o.pair = p, o.qty = size,
         OrderCost(o) = lastClose[p] * size
  PROVE  Moves(o, FALSE, Filled) /\ Solvent'
<1> DEFINE value == lastClose[p]
           cost == OrderCost(o)
           asset == LockedAsset(side, p, size)
           quote == LockedQuote(side, p, size, value)
<1>1. /\ free \in [Coins -> Int] /\ lock \in [Coins -> Int] /\ volume \in [Pairs -> Nat]
      /\ value \in Nat /\ avgShort \in [Pairs -> Nat]
  BY DEF TypeOK
<1>2. p \in Coins /\ Quote \in Coins /\ p # Quote /\ Pairs \subseteq Coins /\ Quote \notin Pairs
  BY DEF Coins, WalletAssumption
<1>3. free[p] \in Int /\ free[p] >= 0 /\ free[Quote] \in Int /\ free[Quote] >= 0
  BY <1>1, <1>2 DEF Solvent
<1>4. cost \in Nat /\ cost = value * size /\ cost = size * value
  BY <1>1, OrderTerms
<1>5. (side = Buy \/ side = Sell) /\ Buy # Sell
  BY DEF Sides, Buy, Sell
<1>6. asset = IF side = Sell THEN size ELSE 0
  BY <1>3 DEF LockedAsset, Min2, Max2
<1>7. quote = IF side = Sell THEN 0 ELSE cost
  <2>1. CASE side = Sell
    <3>1. LockedAsset(side, p, size) = size /\ side # Buy
      BY <1>5, <1>6, <2>1
    <3>2. (size - size) * value - 0 = 0
      BY <1>1
    <3>. QED  BY <2>1, <3>1, <3>2 DEF LockedQuote
  <2>2. CASE side # Sell
    <3>1. LockedAsset(side, p, size) = 0 /\ ~(free[p] < 0)
      BY <1>3, <1>6, <2>2
    <3>2. (size - 0) * value - 0 = cost
      BY <1>1, <1>4
    <3>. QED  BY <2>2, <3>1, <3>2 DEF LockedQuote
  <2>. QED  BY <2>1, <2>2
<1>8. side = Buy => free[Quote] >= cost
  BY <1>3, <1>4 DEF FillMarket, FillFunds, FundsSuffice, Buy, Sell
<1>9. /\ free' = [free EXCEPT
           ![p] = CASE side = Buy -> @ + size
                    [] side = Sell /\ quote > 0 -> @ - asset - size
                    [] OTHER -> @ - asset,
           ![Quote] = IF side = Sell /\ quote = 0 THEN @ + size * value ELSE @ - quote]
      /\ lock' = lock
      /\ volume' = [volume EXCEPT ![p] = @ + cost]
  BY <1>4 DEF FillMarket, FillFunds
<1> HIDE DEF value, cost, asset, quote
<1>10. /\ free'[p] = IF side = Buy THEN free[p] + size ELSE free[p] - size
       /\ free'[Quote] = IF side = Sell THEN free[Quote] + cost ELSE free[Quote] - cost
       /\ \A c \in Coins : c # p /\ c # Quote => free'[c] = free[c]
  <2>1. CASE side = Buy
    BY <1>1, <1>2, <1>3, <1>4, <1>5, <1>7, <1>9, <2>1
  <2>2. CASE side = Sell
    <3>1. ~(quote > 0) /\ side # Buy /\ quote = 0 /\ asset = size
      BY <1>5, <1>6, <1>7, <2>2
    <3>. QED  BY <1>1, <1>2, <1>3, <1>4, <1>9, <2>2, <3>1
  <2>. QED  BY <1>5, <2>1, <2>2
<1>11. Solvent'
  <2>1. ASSUME NEW c \in Coins PROVE free'[c] >= 0
    <3>1. CASE c = p
      BY <1>3, <1>5, <1>10, <3>1
    <3>2. CASE c = Quote
      BY <1>3, <1>4, <1>5, <1>8, <1>10, <3>2
    <3>3. CASE c # p /\ c # Quote
      BY <1>10, <3>3 DEF Solvent
    <3>. QED  BY <3>1, <3>2, <3>3
  <2>. QED  BY <2>1 DEF Solvent
<1>12. Delta(size, FALSE, Filled) = 0 /\ Delta(cost, FALSE, Filled) = 0
  BY DEF Delta, New, Filled
<1>13. ASSUME NEW c \in Pairs
       PROVE  /\ lock'[c] = lock[c] + 0
              /\ Total(c)' = Total(c) + (IF p = c THEN IF side = Buy THEN size ELSE -size ELSE 0)
              /\ volume'[c] = volume[c] + (IF p = c THEN cost ELSE 0)
  <2>1. free[c] \in Int /\ lock[c] \in Int /\ volume[c] \in Int /\ c \in Coins /\ c # Quote
    BY <1>1, <1>2
  <2>2. volume'[c] = volume[c] + (IF p = c THEN cost ELSE 0)
    BY <1>1, <1>4, <1>9, <2>1
  <2>3. free'[c] + lock'[c] = (free[c] + lock[c]) + (IF p = c THEN IF side = Buy THEN size ELSE -size ELSE 0)
    <3>1. free'[c] = IF p = c THEN IF side = Buy THEN free[c] + size ELSE free[c] - size ELSE free[c]
      BY <1>10, <2>1
    <3>2. lock'[c] = lock[c]
      BY <1>9
    <3>. QED  BY <2>1, <3>1, <3>2
  <2>. QED  BY <1>9, <2>1, <2>2, <2>3 DEF Total
<1>14. /\ lock'[Quote] = lock[Quote] + 0
       /\ Total(Quote)' = Total(Quote) + (IF side = Sell THEN cost ELSE -cost)
  <2>1. free[Quote] \in Int /\ lock[Quote] \in Int
    BY <1>1, <1>2
  <2>2. free'[Quote] + lock'[Quote] = (free[Quote] + lock[Quote]) + (IF side = Sell THEN cost ELSE -cost)
    BY <1>4, <1>9, <1>10, <2>1
  <2>. QED  BY <1>9, <2>1, <2>2 DEF Total
<1>15. Moves(o, FALSE, Filled)
  <2>1. \A c \in Pairs :
          /\ lock'[c] = lock[c] + (IF o.side = Sell /\ o.pair = c THEN Delta(o.qty, FALSE, Filled) ELSE 0)
          /\ Total(c)' = Total(c) + (IF Filled = Filled /\ o.pair = c
                                    THEN IF o.side = Buy THEN o.qty ELSE -o.qty ELSE 0)
          /\ volume'[c] = volume[c] + (IF Filled = Filled /\ o.pair = c THEN cost ELSE 0)
    BY <1>12, <1>13
  <2>2. /\ lock'[Quote] = lock[Quote] + (IF o.side = Buy THEN Delta(cost, FALSE, Filled) ELSE 0)
        /\ Total(Quote)' = Total(Quote) + (IF Filled = Filled
                                          THEN IF o.side = Sell THEN cost ELSE -cost ELSE 0)
    <3>1. lock'[Quote] = lock[Quote] + (IF o.side = Buy THEN Delta(cost, FALSE, Filled) ELSE 0)
      BY <1>12, <1>14
    <3>. QED  BY <1>14, <3>1, Zenon
  <2>. QED  BY <2>1, <2>2, Zenon DEF Moves, cost
<1>. QED  BY <1>11, <1>15

\* A pending sale of a pair keeps an amount of it locked.
LEMMA SaleIsLocked ==
  ASSUME LocksBackOrders, Book \in Seq(Orders), SpotList(Book), NEW i \in DOMAIN Book,
         Book[i].status = New, Book[i].group = None, Book[i].side = Sell
  PROVE  lock[Book[i].pair] > 0
<1> DEFINE p == Book[i].pair
           S == Pending(Book, Sell, {p})
<1>1. p \in Pairs /\ lock[p] = PendingQty(Book, Sell, {p})
  BY ListTypes DEF LocksBackOrders
<1>2. i \in S
  BY DEF Pending, SameGroup
<1>3. IsFiniteSet(S) /\ \A x \in S : Qty(Book)[x] \in Nat
  BY IndexSets, ListTypes
<1>4. Qty(Book)[i] = Book[i].qty /\ Book[i].qty \in Nat /\ Book[i].qty > 0
  BY ListTypes DEF SpotList
<1> HIDE DEF S
<1>5. SumFunctionOnSet(Qty(Book), S) >= Qty(Book)[i] /\ SumFunctionOnSet(Qty(Book), S) \in Nat
  BY <1>2, <1>3, SumBounds, SumNat
<1>6. lock[p] = SumFunctionOnSet(Qty(Book), S)
  BY <1>1 DEF PendingQty, S
<1>. QED  BY <1>4, <1>5, <1>6

\* Cancel hands back what the pending order locked.
LEMMA CancelMoves ==
  ASSUME TypeOK, WalletAssumption, Solvent, LocksBackOrders, Book = orders, SpotList(orders),
         NEW i \in DOMAIN orders, orders[i].status = New, orders[i].group = None,
         orders[i].side = Buy => lock[orders[i].pair] = 0, Cancel(i)
  PROVE  Moves(orders[i], TRUE, Canceled) /\ Solvent'
<1> DEFINE o == orders[i]
           side == o.side
           p == o.pair
           qty == o.qty
           cost == OrderCost(o)
<1>1. orders \in Seq(Orders) /\ o \in Orders
  BY EntryTypes DEF TypeOK
<1>2. /\ p \in Pairs /\ qty \in Nat /\ cost \in Nat /\ (side = Buy \/ side = Sell) /\ Buy # Sell
      /\ side = Buy => cost = o.price * qty
  <2>1. p \in Pairs /\ qty \in Nat /\ cost \in Nat /\ (side = Buy \/ side = Sell)
    BY <1>1, OrderTerms
  <2>2. Buy # Sell
    BY DEF Buy, Sell
  <2>. QED  BY <2>1, <2>2 DEF OrderCost, ExecutionPrice
<1>3. side = Sell => lock[p] > 0
  BY <1>1, SaleIsLocked
<1>4. \A c \in Coins : Total(c)' = Total(c)
  BY CancelHandsBack
<1>5. /\ free \in [Coins -> Int] /\ lock \in [Coins -> Int] /\ volume \in [Pairs -> Nat]
      /\ \A c \in Coins : Total(c) \in Int
  BY DEF TypeOK, Total
<1>6. p \in Coins /\ Quote \in Coins /\ p # Quote /\ Pairs \subseteq Coins /\ Quote \notin Pairs
  BY <1>2 DEF Coins, WalletAssumption
<1>7. \/ /\ side = Sell
         /\ free' = [free EXCEPT ![p] = @ + qty] /\ lock' = [lock EXCEPT ![p] = @ - qty]
      \/ /\ side = Buy
         /\ free' = [free EXCEPT ![Quote] = @ + cost] /\ lock' = [lock EXCEPT ![Quote] = @ - cost]
  <2>1. \/ /\ lock[p] > 0 /\ side = Sell
           /\ free' = [free EXCEPT ![p] = @ + qty] /\ lock' = [lock EXCEPT ![p] = @ - qty]
        \/ /\ lock[p] = 0
           /\ free' = [free EXCEPT ![Quote] = @ + o.price * qty]
           /\ lock' = [lock EXCEPT ![Quote] = @ - o.price * qty]
        \/ lock[p] < 0 \/ (lock[p] > 0 /\ side = Buy)
    BY DEF Cancel
  <2>2. CASE side = Sell
    <3>1. lock[p] \in Int
      BY <1>5, <1>6
    <3>. QED  BY <1>2, <1>3, <2>1, <2>2, <3>1
  <2>3. CASE side = Buy
    <3>1. lock[p] = 0 /\ cost = o.price * qty /\ side # Sell
      BY <1>2, <2>3
    <3> HIDE DEF o, side, p, qty, cost
    <3>. QED  BY <2>1, <2>3, <3>1
  <2>. QED  BY <1>2, <2>2, <2>3
<1>8. volume' = volume
  BY DEF Cancel
<1>9. Delta(qty, TRUE, Canceled) = -qty /\ Delta(cost, TRUE, Canceled) = -cost /\ Canceled # Filled
  <2>1. New # Canceled /\ Canceled # Filled
    BY DEF New, Filled, Canceled
  <2>. QED  BY <1>2, <2>1 DEF Delta
<1> HIDE DEF o, side, p, qty, cost
<1>10. Solvent'
  <2>1. ASSUME NEW c \in Coins PROVE free'[c] >= 0
    <3>1. free[c] \in Int /\ free[c] >= 0
      BY <1>5 DEF Solvent
    <3>. QED  BY <1>2, <1>5, <1>6, <1>7, <3>1
  <2>. QED  BY <2>1 DEF Solvent
<1>11. ASSUME NEW c \in Pairs
       PROVE  lock'[c] = lock[c] + (IF side = Sell /\ p = c THEN -qty ELSE 0)
  <2>1. lock[c] \in Int /\ c \in Coins /\ c # Quote
    BY <1>5, <1>6
  <2>2. lock'[c] = IF side = Sell /\ p = c THEN lock[c] - qty ELSE lock[c]
    BY <1>2, <1>5, <1>6, <1>7, <2>1
  <2>. QED  BY <1>2, <2>1, <2>2
<1>12. lock'[Quote] = lock[Quote] + (IF side = Buy THEN -cost ELSE 0)
  <2>1. lock[Quote] \in Int
    BY <1>5, <1>6
  <2>2. lock'[Quote] = IF side = Buy THEN lock[Quote] - cost ELSE lock[Quote]
    BY <1>2, <1>5, <1>6, <1>7
  <2>. QED  BY <1>2, <2>1, <2>2
<1>13. \A c \in Pairs : volume'[c] = volume[c] + 0 /\ Total(c)' = Total(c) + 0
  BY <1>4, <1>5, <1>6, <1>8
<1>14. Total(Quote)' = Total(Quote) + 0
  BY <1>4, <1>5, <1>6
<1>15. Moves(o, TRUE, Canceled)
  BY <1>9, <1>11, <1>12, <1>13, <1>14, Zenon DEF Moves, side, p, qty, cost
<1>. QED  BY <1>10, <1>15 DEF o

\* An execution takes the lock of the pending order and hands out its price.
LEMMA ExecutionMoves ==
  ASSUME TypeOK, WalletAssumption, Solvent, NEW i \in DOMAIN result,
         ProcessBuyOrder(i) \/ ProcessSellOrder(i)
  PROVE  Moves(result[i], TRUE, Filled) /\ Solvent'
<1> DEFINE o == result[i]
           side == o.side
           p == o.pair
           qty == o.qty
           cost == OrderCost(o)
<1>1. o \in Orders
  BY EntryTypes DEF TypeOK
<1>2. p \in Pairs /\ qty \in Nat /\ cost \in Nat /\ (side = Buy \/ side = Sell) /\ Buy # Sell
  BY <1>1, OrderTerms DEF Buy, Sell
<1>3. /\ free \in [Coins -> Int] /\ lock \in [Coins -> Int] /\ volume \in [Pairs -> Nat]
      /\ p \in Coins /\ Quote \in Coins /\ p # Quote /\ Pairs \subseteq Coins /\ Quote \notin Pairs
  BY <1>2 DEF TypeOK, Coins, WalletAssumption
<1>4. /\ volume' = [volume EXCEPT ![p] = @ + cost]
      /\ \/ /\ side = Buy
            /\ free' = [free EXCEPT ![p] = @ + qty] /\ lock' = [lock EXCEPT ![Quote] = @ - cost]
         \/ /\ side = Sell
            /\ free' = [free EXCEPT ![Quote] = @ + cost] /\ lock' = [lock EXCEPT ![p] = @ - qty]
  BY <1>2 DEF ProcessBuyOrder, ProcessSellOrder, OrderCost, ExecutionPrice
<1>5. Delta(qty, TRUE, Filled) = -qty /\ Delta(cost, TRUE, Filled) = -cost
  <2>1. New # Filled
    BY DEF New, Filled
  <2>. QED  BY <1>2, <2>1 DEF Delta
<1> HIDE DEF o, side, p, qty, cost
<1>6. Solvent'
  <2>1. ASSUME NEW c \in Coins PROVE free'[c] >= 0
    <3>1. free[c] \in Int /\ free[c] >= 0
      BY <1>3 DEF Solvent
    <3>. QED  BY <1>2, <1>3, <1>4, <3>1
  <2>. QED  BY <2>1 DEF Solvent
<1>7. ASSUME NEW c \in Pairs
      PROVE  /\ lock'[c] = lock[c] + (IF side = Sell /\ p = c THEN -qty ELSE 0)
             /\ Total(c)' = Total(c) + (IF p = c THEN IF side = Buy THEN qty ELSE -qty ELSE 0)
             /\ volume'[c] = volume[c] + (IF p = c THEN cost ELSE 0)
  <2>1. free[c] \in Int /\ lock[c] \in Int /\ volume[c] \in Int /\ c \in Coins /\ c # Quote
    BY <1>3
  <2>2. /\ lock'[c] = IF side = Sell /\ p = c THEN lock[c] - qty ELSE lock[c]
        /\ free'[c] = IF side = Buy /\ p = c THEN free[c] + qty ELSE free[c]
        /\ volume'[c] = IF p = c THEN volume[c] + cost ELSE volume[c]
    BY <1>2, <1>3, <1>4, <2>1
  <2>. QED  BY <1>2, <2>1, <2>2 DEF Total
<1>8. /\ lock'[Quote] = lock[Quote] + (IF side = Buy THEN -cost ELSE 0)
      /\ Total(Quote)' = Total(Quote) + (IF side = Sell THEN cost ELSE -cost)
  <2>1. free[Quote] \in Int /\ lock[Quote] \in Int
    BY <1>3
  <2>2. /\ lock'[Quote] = IF side = Buy THEN lock[Quote] - cost ELSE lock[Quote]
        /\ free'[Quote] = IF side = Sell THEN free[Quote] + cost ELSE free[Quote]
    BY <1>2, <1>3, <1>4
  <2>. QED  BY <1>2, <2>1, <2>2 DEF Total
<1>9. Moves(o, TRUE, Filled)
  BY <1>5, <1>7, <1>8, Zenon DEF Moves, side, p, qty, cost
<1>. QED  BY <1>6, <1>9 DEF o

-----------------------------------------------------------------------------
(* The client's orders in the list *)

\* The list with the entries of a new order, of which o is the first.
PlacedOrder(old, new, o) ==
  PlacedList(old, new) /\ \E a \in DOMAIN new : a = Len(old) + 1 /\ new[a] = o

\* One new order without a group.
LEMMA AppendPlaced ==
  ASSUME NEW list \in Seq(Orders), NEW o \in Orders,
         o.group = None, o.qty > 0, o.status \in {New, Filled}, NEW new, new = Append(list, o)
  PROVE  PlacedOrder(list, new, o)
<1> DEFINE a == Len(list) + 1
<1>1. /\ Len(list) \in Nat /\ DOMAIN list = 1 .. Len(list)
      /\ Len(new) = a /\ DOMAIN new = 1 .. a /\ new[a] = o
      /\ \A j \in 1 .. Len(list) : new[j] = list[j]
  BY AppendProperties, LenProperties
<1>2. a = Len(list) + 1 /\ a \in 1 .. a /\ a .. a = {a}
  BY <1>1
<1>3. \A j \in DOMAIN list : ~SameGroup(o, list[j])
  BY DEF SameGroup
<1> HIDE DEF a
<1>4. PlacedList(list, new)
  BY <1>1, <1>2, <1>3 DEF PlacedList
<1>. QED  BY <1>1, <1>2, <1>4 DEF PlacedOrder

\* Two legs of a sale with a new group.
LEMMA GroupPlaced ==
  ASSUME NEW list \in Seq(Orders), NEW n \in Nat, Legs(list, n),
         NEW o \in Orders, NEW q \in Orders, o.group = n + 1, q.group = n + 1,
         o.side = Sell, q.side = Sell, o.pair = q.pair, o.qty = q.qty, o.qty > 0,
         o.status = New, q.status = New, NEW new, new = list \o << o, q >>
  PROVE  PlacedOrder(list, new, o)
<1> DEFINE a == Len(list) + 1
           b == a + 1
<1>1. << o, q >> \in Seq(Orders) /\ Len(<< o, q >>) = 2 /\ << o, q >>[1] = o /\ << o, q >>[2] = q
  OBVIOUS
<1>2. /\ Len(list) \in Nat /\ DOMAIN list = 1 .. Len(list)
      /\ Len(new) = b /\ DOMAIN new = 1 .. b /\ new[a] = o /\ new[b] = q
      /\ \A j \in 1 .. Len(list) : new[j] = list[j]
  BY <1>1, ConcatProperties, LenProperties
<1>3. /\ a = Len(list) + 1 /\ b = a + 1 /\ a \in 1 .. b /\ b # a
      /\ \A k \in a .. b : k = a \/ k = b
  BY <1>2
<1>4. \A j \in DOMAIN list : list[j].group # n + 1
  <2>1. \A j \in DOMAIN list : list[j].group \in Nat /\ list[j].group <= n
    BY EntryTypes DEF Legs
  <2>. QED  BY <2>1
<1>5. \A j \in DOMAIN list : ~SameGroup(o, list[j]) /\ ~SameGroup(q, list[j])
  BY <1>4 DEF SameGroup
<1>6. o.group # None /\ q.group # None
  BY DEF None
<1> HIDE DEF a, b
<1>7. PlacedList(list, new)
  <2>1. Len(new) \in {a, a + 1} /\ Len(new) # a
    BY <1>2, <1>3
  <2>2. \A j \in DOMAIN list, k \in a .. Len(new) : ~SameGroup(new[k], list[j])
    BY <1>2, <1>3, <1>5
  <2>3. \A k \in a .. Len(new) : new[k].qty > 0 /\ new[k].status \in {New, Filled}
    BY <1>2, <1>3
  <2>4. \A k \in {a, a + 1} :
          /\ new[k].pair = new[a].pair /\ new[k].side = Sell /\ new[k].qty = new[a].qty
          /\ new[k].group = new[a].group /\ new[k].group # None
          /\ new[k].status = New
    BY <1>2, <1>3, <1>6
  <2>. QED  BY <1>2, <1>3, <2>1, <2>2, <2>3, <2>4 DEF PlacedList
<1>. QED  BY <1>2, <1>3, <1>7 DEF PlacedOrder

\* An order without a group gets its status alone.
LEMMA SingleClosed ==
  ASSUME NEW list \in Seq(Orders), NEW i \in DOMAIN list, list[i].group = None, NEW status
  PROVE  [list EXCEPT ![i].status = status] = ClosedList(list, i, status)
<1>1. list = [j \in DOMAIN list |-> list[j]]
  BY ListTypes
<1>2. \A j \in DOMAIN list : ~SameGroup(list[i], list[j])
  BY DEF SameGroup
<1>3. [list EXCEPT ![i].status = status] = [list EXCEPT ![i] = WithStatus(list[i], status)]
  BY DEF WithStatus
<1>. QED  BY <1>1, <1>2, <1>3 DEF ClosedList

\* A sale that executes cancels the other leg: the group has no third one.
LEMMA SaleClosed ==
  ASSUME NEW list \in Seq(Orders), NEW n, Legs(list, n), NEW i \in DOMAIN list
  PROVE  [CancelRelated(list, i) EXCEPT ![i].status = Filled] = ClosedList(list, i, Filled)
<1> DEFINE related == {j \in DOMAIN list : /\ list[i].group # None
                                           /\ list[j].group = list[i].group
                                           /\ list[j].id # list[i].id}
           after == CancelRelated(list, i)
<1>1. \A j \in DOMAIN list : j \in related <=> j # i /\ SameGroup(list[i], list[j])
  BY DEF Legs, SameGroup
<1>2. \A j, k \in related : j = k
  BY <1>1 DEF Legs
<1>3. related \subseteq Nat
  BY ListTypes
<1>4. \A j \in related : \A k \in related : j <= k
  BY <1>2, <1>3
<1>5. after = [j \in DOMAIN list |->
                 IF j \in related /\ \A k \in related : j <= k
                 THEN [list[j] EXCEPT !.status = Canceled] ELSE list[j]]
  BY DEF CancelRelated
<1> HIDE DEF related, after
<1>6. after = [j \in DOMAIN list |->
                 IF j # i /\ SameGroup(list[i], list[j]) THEN WithStatus(list[j], Canceled) ELSE list[j]]
  BY <1>1, <1>4, <1>5 DEF WithStatus
<1>7. [after EXCEPT ![i].status = Filled] = [after EXCEPT ![i] = WithStatus(after[i], Filled)]
  BY DEF WithStatus
<1>8. after[i] = list[i] /\ DOMAIN after = DOMAIN list
  BY <1>6
<1>9. [after EXCEPT ![i] = WithStatus(after[i], Filled)] = ClosedList(list, i, Filled)
  BY <1>6, <1>8 DEF ClosedList
<1>. QED  BY <1>7, <1>9 DEF after

-----------------------------------------------------------------------------
(* Every step of the wallet is one of the three *)

\* A quantity between the two sections of CreateOrderMarketQuote can be sold.
QuoteCovered ==
  quoted # NoQuote => /\ quoted.qty > 0
                      /\ quoted.side = Sell => quoted.qty <= free[quoted.pair]

SpotInv ==
  /\ CandleInv
  /\ SpotList(Book) /\ QuoteCovered /\ Solvent
  /\ LocksBackOrders /\ BooksBalance

\* What a step has to show.
SpotOutcome == SpotStep /\ Solvent' /\ QuoteCovered'

LEMMA SpotTypes ==
  ASSUME SpotInv
  PROVE  /\ TypeOK /\ Solvent /\ LocksBackOrders /\ BooksBalance /\ QuoteCovered
         /\ Book \in Seq(Orders) /\ SpotList(Book) /\ Legs(Book, counter)
         /\ counter \in Nat
<1>1. GroupInv /\ TypeOK
  BY DEF SpotInv, CandleInv, GroupInv
<1>2. Book \in Seq(Orders) /\ Legs(Book, counter) /\ counter \in Nat
  BY <1>1 DEF GroupInv, TypeOK, Book
<1>. QED  BY <1>1, <1>2 DEF SpotInv

LEMMA PendingStep ==
  ASSUME SpotInv, WalletAssumption, ~Processing, quoted = NoQuote,
         NEW o \in Orders, o.status = New, NEW value \in Nat,
         o.side = Sell => o.qty <= free[o.pair], o.side = Buy => OrderCost(o) = o.qty * value,
         LockFunds(o.side, o.pair, o.qty, value),
         PlacedOrder(orders, orders', o),
         UNCHANGED <<volume, market, quoted>>
  PROVE  SpotOutcome
<1>1. Book = orders /\ Book' = orders'
  BY DEF Book, Processing, market
<1>2. Moves(o, FALSE, New) /\ Solvent'
  BY SpotTypes, PlacedMoves
<1>3. \E a \in DOMAIN Book' : a = Len(Book) + 1 /\ Moves(Book'[a], FALSE, Book'[a].status)
  BY <1>1, <1>2 DEF PlacedOrder
<1>4. SpotStep
  BY <1>1, <1>3 DEF SpotStep, PlacedOrder
<1>5. QuoteCovered'
  BY DEF QuoteCovered
<1>. QED  BY <1>2, <1>4, <1>5 DEF SpotOutcome

LEMMA PlaceStep ==
  ASSUME SpotInv, WalletAssumption, Interleaved = FALSE,
         NEW side \in Sides, NEW p \in Pairs, NEW size \in Nat \ {0},
         NEW price \in Nat, NEW stop \in Nat, NEW stopLimit \in Nat,
         side = Sell => size <= free[p],
         \/ CreateOrderLimit(side, p, size, price)
         \/ side = Sell /\ CreateOrderStop(p, size, price)
         \/ side = Sell /\ CreateOrderOCO(side, p, size, price, stop, stopLimit)
  PROVE  SpotOutcome
<1>1. /\ size \in Nat /\ size > 0 /\ price \in Nat /\ stop \in Nat /\ stopLimit \in Nat
      /\ orders \in Seq(Orders)
      /\ Sell \in Sides /\ New \in Statuses /\ None \in Nat /\ Sell # Buy
      /\ {"LIMIT", "STOP_LOSS_LIMIT", "LIMIT_MAKER", "STOP_LOSS"} \subseteq Types
  BY SpotTypes DEF WalletAssumption, TypeOK, Sides, Statuses, Types, None, Buy, Sell
<1>2. /\ counter \in Nat /\ counter + 1 \in Nat /\ counter + 2 \in Nat /\ counter + 3 \in Nat
  BY SpotTypes
<1>3. /\ ~Processing /\ quoted = NoQuote /\ UNCHANGED <<volume, market, quoted>>
      /\ LockFunds(side, p, size, price)
  BY DEF CreateOrderLimit, CreateOrderStop, CreateOrderOCO, CallAllowed
<1>4. Legs(orders, counter)
  BY <1>3, SpotTypes DEF Book
<1>5. CASE CreateOrderLimit(side, p, size, price)
  <2> DEFINE o == Order(counter + 1, p, side, "LIMIT", New, price, None, size, None)
  <2>1. o \in Orders
    BY <1>1, <1>2, OrderTypes
  <2>2. /\ o.side = side /\ o.pair = p /\ o.qty = size /\ o.status = New /\ o.group = None
        /\ o.type = "LIMIT" /\ o.price = price
    BY DEF Order
  <2>3. orders' = Append(orders, o)
    BY <1>5 DEF CreateOrderLimit
  <2> HIDE DEF o
  <2>4. OrderCost(o) = o.qty * price
    BY <1>1, <2>2 DEF OrderCost, ExecutionPrice, IsStopOrder
  <2>5. PlacedOrder(orders, orders', o)
    BY <1>1, <2>1, <2>2, <2>3, AppendPlaced
  <2>. QED  BY <1>1, <1>3, <2>1, <2>2, <2>4, <2>5, PendingStep
<1>6. CASE side = Sell /\ CreateOrderStop(p, size, price)
  <2> DEFINE o == Order(counter + 1, p, Sell, "STOP_LOSS_LIMIT", New, price, price, size, None)
  <2>1. o \in Orders
    BY <1>1, <1>2, OrderTypes
  <2>2. o.side = Sell /\ o.pair = p /\ o.qty = size /\ o.status = New /\ o.group = None
    BY DEF Order
  <2>3. orders' = Append(orders, o)
    BY <1>6 DEF CreateOrderStop
  <2> HIDE DEF o
  <2>5. PlacedOrder(orders, orders', o)
    BY <1>1, <2>1, <2>2, <2>3, AppendPlaced
  <2>. QED  BY <1>1, <1>3, <1>6, <2>1, <2>2, <2>5, PendingStep
<1>7. CASE side = Sell /\ CreateOrderOCO(side, p, size, price, stop, stopLimit)
  <2> DEFINE o == Order(counter + 2, p, side, "LIMIT_MAKER", New, price, None, size, counter + 1)
             q == Order(counter + 3, p, side, "STOP_LOSS", New, stopLimit, stop, size, counter + 1)
  <2>1. o \in Orders
    BY <1>1, <1>2, OrderTypes
  <2>2. q \in Orders
    BY <1>1, <1>2, OrderTypes
  <2>3. /\ o.side = Sell /\ o.pair = p /\ o.qty = size /\ o.status = New /\ o.group = counter + 1
        /\ q.side = Sell /\ q.pair = p /\ q.qty = size /\ q.status = New /\ q.group = counter + 1
    BY <1>7 DEF Order
  <2>4. orders' = orders \o << o, q >>
    BY <1>7 DEF CreateOrderOCO
  <2> HIDE DEF o, q
  <2>5. PlacedOrder(orders, orders', o)
    BY <1>1, <1>2, <1>4, <2>1, <2>2, <2>3, <2>4, GroupPlaced
  <2>. QED  BY <1>1, <1>3, <1>7, <2>1, <2>3, <2>5, PendingStep
<1>. QED  BY <1>5, <1>6, <1>7

LEMMA MarketStep ==
  ASSUME SpotInv, WalletAssumption, ~Processing,
         NEW side \in Sides, NEW p \in Pairs, NEW size \in Nat, size > 0,
         side = Sell => size <= free[p], FillMarket(side, p, size), quoted' = NoQuote
  PROVE  SpotOutcome
<1> DEFINE o == Order(counter + 1, p, side, "MARKET", Filled, lastClose[p], None, size, None)
<1>1. /\ lastClose[p] \in Nat /\ counter + 1 \in Nat /\ None \in Nat /\ orders \in Seq(Orders)
      /\ Filled \in Statuses /\ "MARKET" \in Types
  BY SpotTypes DEF TypeOK, Statuses, Types, None
<1>2. o \in Orders
  BY <1>1, OrderTypes
<1>3. /\ o.side = side /\ o.pair = p /\ o.qty = size /\ o.status = Filled /\ o.group = None
      /\ o.type = "MARKET" /\ o.price = lastClose[p]
  BY DEF Order
<1>4. orders' = Append(orders, o) /\ UNCHANGED market
  BY DEF FillMarket
<1> HIDE DEF o
<1>5. OrderCost(o) = lastClose[p] * size
  BY <1>3 DEF OrderCost, ExecutionPrice, IsStopOrder
<1>6. PlacedOrder(orders, orders', o)
  BY <1>1, <1>2, <1>3, <1>4, AppendPlaced
<1>7. Book = orders /\ Book' = orders'
  BY <1>4 DEF Book, Processing, market
<1>8. Moves(o, FALSE, Filled) /\ Solvent'
  BY <1>2, <1>3, <1>5, SpotTypes, MarketMoves
<1>9. \E a \in DOMAIN Book' : a = Len(Book) + 1 /\ Moves(Book'[a], FALSE, Book'[a].status)
  BY <1>3, <1>6, <1>7, <1>8 DEF PlacedOrder
<1>10. SpotStep
  BY <1>6, <1>7, <1>9 DEF SpotStep, PlacedOrder
<1>11. QuoteCovered'
  BY DEF QuoteCovered
<1>. QED  BY <1>8, <1>10, <1>11 DEF SpotOutcome

\* A step that leaves the list and the balances alone.
LEMMA QuietStep ==
  ASSUME SpotInv, Book' = Book, UNCHANGED <<free, lock, volume>>, QuoteCovered'
  PROVE  SpotOutcome
<1>1. SpotStep
  BY DEF SpotStep, Total
<1>2. Solvent'
  BY SpotTypes DEF Solvent
<1>. QED  BY <1>1, <1>2 DEF SpotOutcome

LEMMA CancelStep ==
  ASSUME SpotInv, WalletAssumption, Interleaved = FALSE, NEW i \in DOMAIN orders,
         orders[i].status = New, orders[i].group = None,
         orders[i].side = Buy => lock[orders[i].pair] = 0, Cancel(i)
  PROVE  SpotOutcome
<1>1. /\ ~Processing /\ quoted = NoQuote /\ UNCHANGED <<market, quoted>>
      /\ orders' = [orders EXCEPT ![i].status = Canceled]
  BY DEF Cancel, CallAllowed
<1>2. Book = orders /\ Book' = orders'
  BY <1>1 DEF Book, Processing, market
<1>3. orders \in Seq(Orders) /\ SpotList(orders)
  BY <1>2, SpotTypes
<1>4. orders' = ClosedList(orders, i, Canceled)
  BY <1>1, <1>3, SingleClosed
<1>5. Moves(orders[i], TRUE, Canceled) /\ Solvent'
  BY <1>2, <1>3, SpotTypes, CancelMoves
<1>6. SpotStep
  BY <1>2, <1>4, <1>5 DEF SpotStep, FinalStatuses
<1>7. QuoteCovered'
  BY <1>1 DEF QuoteCovered
<1>. QED  BY <1>5, <1>6, <1>7 DEF SpotOutcome

LEMMA ExecutionStep ==
  ASSUME SpotInv, WalletAssumption, NEW i \in DOMAIN result,
         ProcessBuyOrder(i) \/ ProcessSellOrder(i)
  PROVE  SpotOutcome
<1>1. /\ Processing /\ UNCHANGED <<candle, quoted>> /\ result[i].status = New
      /\ \/ result[i].side = Buy /\ result' = [result EXCEPT ![i].status = Filled]
         \/ result' = [CancelRelated(result, i) EXCEPT ![i].status = Filled]
  BY DEF ProcessBuyOrder, ProcessSellOrder, NextReached, Reached
<1>2. Book = result /\ Book' = result' /\ quoted = NoQuote
  BY <1>1 DEF Book, Processing, SpotInv, CandleInv
<1>3. result \in Seq(Orders) /\ SpotList(result) /\ Legs(result, counter)
  BY <1>2, SpotTypes
<1>4. result' = ClosedList(result, i, Filled)
  <2>1. CASE result[i].side = Buy /\ result' = [result EXCEPT ![i].status = Filled]
    <3>1. result[i].group = None
      BY <1>3, <2>1 DEF SpotList, Buy, Sell
    <3>. QED  BY <1>3, <2>1, <3>1, SingleClosed
  <2>2. CASE result' = [CancelRelated(result, i) EXCEPT ![i].status = Filled]
    BY <1>3, <2>2, SaleClosed
  <2>. QED  BY <1>1, <2>1, <2>2
<1>5. Moves(result[i], TRUE, Filled) /\ Solvent'
  BY SpotTypes, ExecutionMoves
<1>6. Filled \in FinalStatuses /\ Filled # Canceled
  BY DEF FinalStatuses, Filled, Canceled
<1>7. SpotStep
  BY <1>1, <1>2, <1>4, <1>5, <1>6 DEF SpotStep
<1>8. QuoteCovered'
  BY <1>1, <1>2 DEF QuoteCovered
<1>. QED  BY <1>5, <1>7, <1>8 DEF SpotOutcome

LEMMA QuoteStep ==
  ASSUME SpotInv, WalletAssumption, Interleaved = FALSE
  PROVE  /\ \A side \in Sides, p \in Pairs, asked \in Asks :
              /\ QuoteToQuantity(side, p, asked)
              /\ side = Sell => quoted'.qty <= free[p]
              => SpotOutcome
         /\ CreateOrderMarketQuote => SpotOutcome
<1>1. ASSUME NEW side \in Sides, NEW p \in Pairs, NEW asked \in Asks,
             QuoteToQuantity(side, p, asked), side = Sell => quoted'.qty <= free[p]
      PROVE  SpotOutcome
  <2>1. lastClose[p] \in Nat /\ asked \in Nat /\ lastClose[p] > 0 /\ asked >= lastClose[p]
    BY <1>1, SpotTypes DEF QuoteToQuantity, TypeOK, WalletAssumption
  <2>2. /\ quoted'.side = side /\ quoted'.pair = p /\ quoted'.qty = asked \div lastClose[p]
        /\ UNCHANGED <<balances, volume, orders, market>>
    BY <1>1 DEF QuoteToQuantity
  <2>3. asked \div lastClose[p] > 0
    BY <2>1
  <2>4. UNCHANGED <<free, lock, volume>> /\ Book' = Book
    BY <2>2 DEF balances, market, Book, Processing
  <2>5. QuoteCovered'
    BY <1>1, <2>2, <2>3, <2>4 DEF QuoteCovered
  <2>. QED  BY <2>4, <2>5, QuietStep
<1>2. ASSUME CreateOrderMarketQuote
      PROVE  SpotOutcome
  <2>1. /\ quoted.side \in Sides /\ quoted.pair \in Pairs /\ quoted.qty \in Nat
        /\ quoted' = NoQuote /\ ~Processing
    BY <1>2, SpotTypes DEF CreateOrderMarketQuote, TypeOK, SpotInv, CandleInv
  <2>2. quoted.qty > 0 /\ (quoted.side = Sell => quoted.qty <= free[quoted.pair])
    BY <1>2, SpotTypes DEF CreateOrderMarketQuote, QuoteCovered
  <2>3. CASE FillMarket(quoted.side, quoted.pair, quoted.qty)
    BY <2>1, <2>2, <2>3, MarketStep
  <2>4. CASE UNCHANGED <<balances, volume, counter, orders, market>>
    <3>1. UNCHANGED <<free, lock, volume>> /\ Book' = Book
      BY <2>4 DEF balances, market, Book, Processing
    <3>2. QuoteCovered'
      BY <2>1 DEF QuoteCovered
    <3>. QED  BY <3>1, <3>2, QuietStep
  <2>. QED  BY <1>2, <2>3, <2>4 DEF CreateOrderMarketQuote
<1>. QED  BY <1>1, <1>2

LEMMA CandleBounds ==
  ASSUME SpotInv, WalletAssumption
  PROVE  /\ \A c \in Candles : OnCandleBegin(c) => SpotOutcome
         /\ OnCandleEnd => SpotOutcome
<1>1. ASSUME NEW c \in Candles, OnCandleBegin(c)
      PROVE  SpotOutcome
  <2>1. c # NoCandle
    BY DEF WalletAssumption, NoCandle
  <2>2. Book' = Book /\ UNCHANGED <<free, lock, volume, quoted>>
    BY <1>1, <2>1 DEF OnCandleBegin, balances, Book, Processing
  <2>3. QuoteCovered'
    BY <2>2, SpotTypes DEF QuoteCovered
  <2>. QED  BY <2>2, <2>3, QuietStep
<1>2. ASSUME OnCandleEnd
      PROVE  SpotOutcome
  <2>1. Book' = Book /\ UNCHANGED <<free, lock, volume, quoted>>
    BY <1>2 DEF OnCandleEnd, balances, Book, Processing
  <2>2. QuoteCovered'
    BY <2>1, SpotTypes DEF QuoteCovered
  <2>. QED  BY <2>1, <2>2, QuietStep
<1>. QED  BY <1>1, <1>2

\* What a spot client may call, whatever sizes and prices it uses: the calls of
\* SpotNext, and those of the strategies that never sell what they do not have.
SpotCall ==
  \/ \E side \in Sides, p \in Pairs, size \in Nat \ {0} :
       /\ side = Sell => size <= free[p]
       /\ \/ CreateOrderMarket(side, p, size)
          \/ \E price, stop, stopLimit \in Nat :
               \/ CreateOrderLimit(side, p, size, price)
               \/ side = Sell /\ CreateOrderStop(p, size, price)
               \/ side = Sell /\ CreateOrderOCO(Sell, p, size, price, stop, stopLimit)
  \/ \E side \in Sides, p \in Pairs, asked \in Asks :
       /\ QuoteToQuantity(side, p, asked)
       /\ side = Sell => quoted'.qty <= free[p]
  \/ CreateOrderMarketQuote
  \/ Canceling

AnySpotNext ==
  \/ SpotCall
  \/ \E c \in Candles : OnCandleBegin(c)
  \/ OnCandleStep

LEMMA EverySpotStep ==
  ASSUME SpotInv, WalletAssumption, Interleaved = FALSE, [AnySpotNext]_vars
  PROVE  SpotOutcome
<1>1. ASSUME NEW side \in Sides, NEW p \in Pairs, NEW size \in Nat \ {0},
             side = Sell => size <= free[p], NEW price \in Nat, NEW stop \in Nat, NEW stopLimit \in Nat,
             \/ CreateOrderLimit(side, p, size, price)
             \/ side = Sell /\ CreateOrderStop(p, size, price)
             \/ side = Sell /\ CreateOrderOCO(Sell, p, size, price, stop, stopLimit)
      PROVE  SpotOutcome
  BY <1>1, PlaceStep
<1>2. ASSUME NEW side \in Sides, NEW p \in Pairs, NEW size \in Nat \ {0},
             side = Sell => size <= free[p], CreateOrderMarket(side, p, size)
      PROVE  SpotOutcome
  <2>1. size \in Nat /\ size > 0 /\ ~Processing /\ quoted' = NoQuote /\ FillMarket(side, p, size)
    BY <1>2 DEF CreateOrderMarket, CallAllowed
  <2>. QED  BY <1>2, <2>1, MarketStep
<1>3. ASSUME NEW side \in Sides, NEW p \in Pairs, NEW asked \in Asks,
             QuoteToQuantity(side, p, asked), side = Sell => quoted'.qty <= free[p]
      PROVE  SpotOutcome
  BY <1>3, QuoteStep
<1>4. CASE Canceling
  BY <1>4, CancelStep DEF Canceling
<1>5. CASE CreateOrderMarketQuote
  BY <1>5, QuoteStep
<1>6. CASE (\E c \in Candles : OnCandleBegin(c)) \/ OnCandleStep
  BY <1>6, CandleBounds, ExecutionStep DEF OnCandleStep
<1>7. CASE UNCHANGED vars
  <2>1. Book' = Book /\ UNCHANGED <<free, lock, volume, quoted>>
    BY <1>7 DEF vars, Book, Processing
  <2>2. QuoteCovered'
    BY <2>1, SpotTypes DEF QuoteCovered
  <2>. QED  BY <2>1, <2>2, QuietStep
<1>8. CASE SpotCall
  BY <1>1, <1>2, <1>3, <1>4, <1>5, <1>8 DEF SpotCall
<1>. QED  BY <1>6, <1>7, <1>8 DEF AnySpotNext

\* The client's steps are among them, and all of them are steps of the wallet.
LEMMA SpotIsAny ==
  ASSUME WalletAssumption, [SpotNext]_vars
  PROVE  [AnySpotNext]_vars
<1>1. /\ Buy \in Sides /\ Sell \in Sides /\ Buy # Sell
      /\ Sizes \subseteq Nat \ {0} /\ Prices \subseteq Nat /\ 0 \in Nat
  BY DEF WalletAssumption, Sides, Buy, Sell
<1>2. CASE Buying
  <2>1. ASSUME NEW p \in Pairs, NEW size \in Sizes, NEW limit \in Prices,
               CreateOrderLimit(Buy, p, size, limit)
        PROVE  SpotCall
    BY <1>1, <2>1 DEF SpotCall
  <2>2. ASSUME NEW p \in Pairs, NEW size \in Sizes, CreateOrderMarket(Buy, p, size)
        PROVE  SpotCall
    BY <1>1, <2>2 DEF SpotCall
  <2>3. ASSUME NEW p \in Pairs, NEW asked \in Asks, QuoteToQuantity(Buy, p, asked)
        PROVE  SpotCall
    BY <1>1, <2>3 DEF SpotCall
  <2>. QED  BY <1>2, <2>1, <2>2, <2>3 DEF Buying, AnySpotNext
<1>3. CASE Selling
  <2>1. ASSUME NEW p \in Pairs, NEW size \in Sizes, size <= free[p], NEW limit \in Prices,
               CreateOrderLimit(Sell, p, size, limit) \/ CreateOrderStop(p, size, limit)
        PROVE  SpotCall
    BY <1>1, <2>1 DEF SpotCall
  <2>2. ASSUME NEW p \in Pairs, NEW size \in Sizes, size <= free[p],
               CreateOrderMarket(Sell, p, size)
        PROVE  SpotCall
    BY <1>1, <2>2 DEF SpotCall
  <2>3. ASSUME NEW p \in Pairs, NEW size \in Sizes, size <= free[p],
               NEW price \in Prices, NEW stop \in Prices, NEW stopLimit \in Prices,
               CreateOrderOCO(Sell, p, size, price, stop, stopLimit)
        PROVE  SpotCall
    BY <1>1, <2>3 DEF SpotCall
  <2>4. ASSUME NEW p \in Pairs, NEW asked \in Asks, QuoteToQuantity(Sell, p, asked),
               quoted'.qty <= free[p]
        PROVE  SpotCall
    BY <1>1, <2>4 DEF SpotCall
  <2>. QED  BY <1>3, <2>1, <2>2, <2>3, <2>4 DEF Selling, AnySpotNext
<1>4. CASE Canceling \/ CreateOrderMarketQuote
  BY <1>4 DEF SpotCall, AnySpotNext
<1>5. CASE (\E c \in Candles : OnCandleBegin(c)) \/ OnCandleStep \/ UNCHANGED vars
  BY <1>5 DEF AnySpotNext
<1>. QED  BY <1>2, <1>3, <1>4, <1>5 DEF SpotNext

LEMMA SpotIsWallet ==
  ASSUME [AnySpotNext]_vars
  PROVE  [AnyNext]_vars
<1>1. CASE SpotCall
  <2>1. Sell \in Sides
    BY DEF Sides
  <2>. QED  BY <1>1, <2>1 DEF SpotCall, Canceling, AnyNext
<1>. QED  BY <1>1 DEF AnySpotNext, AnyNext

\* The books balance before and after a step of any of the three kinds.
LEMMA SpotInvStep ==
  ASSUME SpotInv, WalletAssumption, Interleaved = FALSE, [AnySpotNext]_vars
  PROVE  SpotInv' /\ [OB!Next]_Book
<1>1. CandleInv'
  BY SpotIsWallet, CandleStep DEF SpotInv
<1>2. /\ TypeOK /\ LocksBackOrders /\ BooksBalance
      /\ Book \in Seq(Orders) /\ SpotList(Book) /\ Legs(Book, counter)
  BY SpotTypes
<1>3. Book' \in Seq(Orders) /\ Legs(Book', counter')
  BY <1>1 DEF CandleInv, GroupInv, TypeOK, Book
<1>4. SpotStep /\ Solvent' /\ QuoteCovered'
  BY EverySpotStep DEF SpotOutcome
<1>5. SpotList(Book') /\ LocksBackOrders' /\ BooksBalance'
  <2>1. CASE UNCHANGED <<Book, lock, volume>> /\ \A c \in Coins : Total(c)' = Total(c)
    <3>1. Pairs \subseteq Coins /\ Quote \in Coins
      BY DEF Coins
    <3>2. LocksBackOrders'
      BY <1>2, <2>1 DEF LocksBackOrders
    <3>3. BooksBalance'
      BY <1>2, <2>1, <3>1 DEF BooksBalance
    <3>. QED  BY <1>2, <2>1, <3>2, <3>3
  <2>2. CASE /\ PlacedList(Book, Book')
             /\ \E a \in DOMAIN Book' :
                  a = Len(Book) + 1 /\ Moves(Book'[a], FALSE, Book'[a].status)
    <3>1. PICK a \in DOMAIN Book' :
            a = Len(Book) + 1 /\ Moves(Book'[a], FALSE, Book'[a].status)
      BY <2>2
    <3>2. Accounts(Book, Book', Book'[a], FALSE, Book'[a].status)
      BY <1>2, <1>3, <2>2, <3>1, PlacedAccounts
    <3>3. Book'[a] \in Orders
      BY <1>3, EntryTypes
    <3>4. LocksBackOrders' /\ BooksBalance'
      BY <1>2, <1>3, <3>1, <3>2, <3>3, BooksKept
    <3>. QED  BY <1>2, <1>3, <2>2, <3>4, PlacedSpot
  <2>3. ASSUME NEW i \in DOMAIN Book, NEW status \in FinalStatuses,
               Book[i].status = New, Book' = ClosedList(Book, i, status),
               Moves(Book[i], TRUE, status)
        PROVE  SpotList(Book') /\ LocksBackOrders' /\ BooksBalance'
    <3>1. Accounts(Book, Book', Book[i], TRUE, status)
      BY <1>2, <2>3, ClosedAccounts
    <3>2. Book[i] \in Orders
      BY <1>2, EntryTypes
    <3>3. LocksBackOrders' /\ BooksBalance'
      BY <1>2, <1>3, <2>3, <3>1, <3>2, BooksKept
    <3>. QED  BY <1>2, <2>3, <3>3, ClosedSpot
  <2>. QED  BY <1>4, <2>1, <2>2, <2>3 DEF SpotStep
<1>6. [OB!Next]_Book
  BY <1>2, <1>3, <1>4, BookStep
<1>. QED  BY <1>1, <1>4, <1>5, <1>6 DEF SpotInv

LEMMA InitSpot ==
  ASSUME WalletAssumption, Init
  PROVE  SpotInv /\ OB!Init
<1>1. CandleInv
  BY InitCandle
<1>2. Book = << >> /\ quoted = NoQuote
  BY DEF Init, Book, Processing
<1>3. /\ free = [c \in Coins |-> IF c = Quote THEN InitialQuote ELSE InitialAsset]
      /\ lock = [c \in Coins |-> 0] /\ volume = [p \in Pairs |-> 0]
      /\ InitialQuote \in Nat /\ InitialAsset \in Nat
      /\ Pairs \subseteq Coins /\ Quote \in Coins /\ Quote \notin Pairs
  BY DEF Init, WalletAssumption, Coins
<1>4. \A side, pairs : Pending(Book, side, pairs) = {} /\ Trades(Book, side, pairs) = {}
  BY <1>2 DEF Pending, Trades
<1>5. \A side, pairs : /\ PendingQty(Book, side, pairs) = 0 /\ PendingCost(Book, side, pairs) = 0
                       /\ Volume(Book, side, pairs) = 0 /\ Turnover(Book, side, pairs) = 0
  BY <1>4, SumEmpty DEF PendingQty, PendingCost, Volume, Turnover
<1>6. LocksBackOrders
  BY <1>3, <1>5 DEF LocksBackOrders
<1>7. BooksBalance
  <2>1. \A p \in Pairs : Total(p) = InitialAsset /\ volume[p] = 0
    BY <1>3 DEF Total
  <2>2. Total(Quote) = InitialQuote
    BY <1>3 DEF Total
  <2>3. InitialAsset + 0 - 0 = InitialAsset /\ InitialQuote + 0 - 0 = InitialQuote
    BY <1>3
  <2>. QED  BY <1>5, <2>1, <2>2, <2>3 DEF BooksBalance
<1>8. Solvent
  BY <1>3 DEF Solvent
<1>9. SpotList(Book) /\ QuoteCovered
  BY <1>2 DEF SpotList, QuoteCovered
<1>10. OB!Init
  BY <1>2 DEF OB!Init
<1>. QED  BY <1>1, <1>6, <1>7, <1>8, <1>9, <1>10 DEF SpotInv

\* No balance, free or locked, is below zero: a lock is a sum over orders.
LEMMA SpotSolvent ==
  ASSUME SpotInv
  PROVE  NoOverdraft
<1>1. SUFFICES ASSUME NEW c \in Coins PROVE  free[c] >= 0 /\ lock[c] >= 0
  BY DEF NoOverdraft
<1>2. Book \in Seq(Orders) /\ Solvent /\ LocksBackOrders
  BY SpotTypes
<1>3. CASE c \in Pairs
  <2>1. lock[c] = PendingQty(Book, Sell, {c}) /\ PendingQty(Book, Sell, {c}) \in Nat
    BY <1>2, <1>3, SumTypes DEF LocksBackOrders
  <2>. QED  BY <1>2, <2>1 DEF Solvent
<1>4. CASE c = Quote
  <2>1. lock[c] = PendingCost(Book, Buy, Pairs) /\ PendingCost(Book, Buy, Pairs) \in Nat
    BY <1>2, <1>4, SumTypes DEF LocksBackOrders
  <2>. QED  BY <1>2, <2>1 DEF Solvent
<1>. QED  BY <1>3, <1>4 DEF Coins

-----------------------------------------------------------------------------
(* The theorems *)

\* The balances, the list and a call between its sections agree in every state
\* a spot client reaches: the strengthening the next three theorems share.
THEOREM SpotInvariant == SpotSpec => []SpotInv
<1>1. Init => SpotInv
  BY WalletAssumption, InitSpot
<1>2. SpotInv /\ [SpotNext]_vars => SpotInv'
  BY WalletAssumption, SpotAssumption, SpotIsAny, SpotInvStep
<1>. QED  BY <1>1, <1>2, PTL DEF SpotSpec

\* What is locked is exactly what the pending orders will take, for every list
\* of orders, prices and candles: an order that executes or is cancelled takes
\* its amount from the lock once, and the legs of an OCO share one
\* (processBuyOrder, processSellOrder, cancelRelatedOrdersLocked and Cancel,
\* exchange/paper_wallet.go).
THEOREM LocksMatch == SpotSpec => []LocksBackOrders
<1>1. SpotInv => LocksBackOrders
  BY DEF SpotInv
<1>. QED  BY <1>1, SpotInvariant, PTL

\* The balances are the initial ones plus the executed orders, and the volume
\* is their turnover: no order executes twice and none without its counterpart.
THEOREM BooksMatch == SpotSpec => []BooksBalance
<1>1. SpotInv => BooksBalance
  BY DEF SpotInv
<1>. QED  BY <1>1, SpotInvariant, PTL

\* A client that sells what it has free never owes anything, at no step of
\* OnCandle: neither a free balance nor a lock falls below zero.
THEOREM NeverOverdrawn == SpotSpec => []NoOverdraft
<1>1. SpotInv => NoOverdraft
  BY SpotSolvent
<1>. QED  BY <1>1, SpotInvariant, PTL

\* The order list implements an exchange's order book: entries are only added,
\* each is final once executed or cancelled, and the leg that executes cancels
\* the others in the same step, though OnCandle works on a copy of the list
\* (processOrders) and writes it back later.
THEOREM ImplementsOrderBook == SpotSpec => OrderBookRefined
<1>1. Init => OB!Init
  BY WalletAssumption, InitSpot
<1>2. SpotInv /\ [SpotNext]_vars => [OB!Next]_Book
  BY WalletAssumption, SpotAssumption, SpotIsAny, SpotInvStep
<1>. QED  BY <1>1, <1>2, SpotInvariant, PTL DEF SpotSpec, OrderBookRefined, OB!Spec
=============================================================================
