---------------------------- MODULE TradingProofs ---------------------------
(***************************************************************************)
(* Proofs about the strategies in a backtest, for every exchange history,  *)
(* every signal and every size they compute.                               *)
(*                                                                         *)
(* The strategies that only go long are spot clients: each of their calls  *)
(* is one that PaperWalletSpotProofs allows, because of what the strategy  *)
(* knows of its own orders.  After what a call does to the order list and  *)
(* to the amounts of a pair comes one section for each kind of strategy:   *)
(* what it knows, and that its steps keep it.  The trend master and the    *)
(* scheduler may go short; theirs rest on the types alone.                 *)
(***************************************************************************)
EXTENDS Trading, PaperWalletSpotProofs

-----------------------------------------------------------------------------
(* The list after one call *)

\* The pending orders of a pair.
Waits(list, p) == {i \in DOMAIN list : list[i].pair = p /\ list[i].status = New}

\* A list with one more order.
Added(old, new, o) ==
  /\ DOMAIN old \subseteq DOMAIN new /\ DOMAIN new = DOMAIN old \cup {Len(old) + 1}
  /\ Len(new) = Len(old) + 1 /\ Len(old) + 1 \notin DOMAIN old
  /\ new[Len(old) + 1] = o
  /\ \A j \in DOMAIN old : new[j] = old[j]

\* A list in which order i got a status.
Changed(old, new, i, status) ==
  /\ DOMAIN new = DOMAIN old /\ Len(new) = Len(old)
  /\ new[i].id = old[i].id /\ new[i].group = old[i].group /\ new[i].status = status
  /\ \A j \in DOMAIN old : j # i => new[j] = old[j]

LEMMA AppendAdds ==
  ASSUME NEW list \in Seq(Orders), NEW o \in Orders
  PROVE  Added(list, Append(list, o), o)
<1> DEFINE new == Append(list, o)
           n == Len(list)
<1>1. /\ n \in Nat /\ DOMAIN list = 1 .. n /\ Len(new) = n + 1
      /\ new[n + 1] = o /\ \A j \in 1 .. n : new[j] = list[j]
      /\ new \in Seq(Orders)
  BY AppendProperties, LenProperties
<1>2. DOMAIN new = 1 .. n + 1
  BY <1>1, LenProperties
<1> HIDE DEF new, n
<1>3. 1 .. n + 1 = (1 .. n) \cup {n + 1} /\ n + 1 \notin 1 .. n
  BY <1>1
<1>. QED  BY <1>1, <1>2, <1>3 DEF Added, new, n

LEMMA CloseChanges ==
  ASSUME NEW list \in Seq(Orders), NEW i \in DOMAIN list, list[i].group = None,
         NEW status \in FinalStatuses
  PROVE  Changed(list, ClosedList(list, i, status), i, status)
<1> DEFINE new == ClosedList(list, i, status)
<1>1. /\ new \in Seq(Orders) /\ DOMAIN new = DOMAIN list /\ new[i].status = status
      /\ new[i].id = list[i].id /\ new[i].group = list[i].group
      /\ \A j \in DOMAIN list : j # i /\ ~SameGroup(list[i], list[j]) => new[j] = list[j]
  BY ClosedTypes
<1>2. \A j \in DOMAIN list : ~SameGroup(list[i], list[j])
  BY DEF SameGroup
<1>3. Len(new) = Len(list)
  <2>1. Len(new) \in Nat /\ Len(list) \in Nat /\ 1 .. Len(new) = 1 .. Len(list)
    BY <1>1, ListTypes
  <2>. QED  BY <2>1
<1> HIDE DEF new
<1>. QED  BY <1>1, <1>2, <1>3 DEF Changed, new

\* What a strategy's call did to the amounts of the pairs.
OnlyMoved(p, amount) ==
  \A q \in Pairs : Total(q)' = Total(q) + (IF q = p THEN amount ELSE 0)

LEMMA MarketEffect ==
  ASSUME SpotInv, WalletAssumption, ~Processing,
         NEW side \in Sides, NEW p \in Pairs, NEW size \in Nat \ {0},
         side = Sell => size <= free[p], CreateOrderMarket(side, p, size)
  PROVE  /\ AnySpotNext /\ ~Processing' /\ counter' = counter + 1
         /\ \E o \in Orders : /\ Added(Book, Book', o) /\ o.id = counter + 1
                              /\ o.pair = p /\ o.group = None /\ o.status = Filled
         /\ OnlyMoved(p, IF side = Buy THEN size ELSE -size)
<1> DEFINE o == Order(counter + 1, p, side, "MARKET", Filled, lastClose[p], None, size, None)
<1>1. /\ lastClose[p] \in Nat /\ counter + 1 \in Nat /\ None \in Nat /\ orders \in Seq(Orders)
      /\ Filled \in Statuses /\ "MARKET" \in Types /\ size \in Nat
  BY SpotTypes DEF TypeOK, Statuses, Types, None
<1>2. o \in Orders
  BY <1>1, OrderTypes
<1>3. /\ o.side = side /\ o.pair = p /\ o.qty = size /\ o.status = Filled /\ o.group = None
      /\ o.type = "MARKET" /\ o.price = lastClose[p] /\ o.id = counter + 1
  BY DEF Order
<1>4. /\ orders' = Append(orders, o) /\ UNCHANGED market /\ counter' = counter + 1
      /\ FillMarket(side, p, size)
  BY DEF CreateOrderMarket, FillMarket
<1> HIDE DEF o
<1>5. OrderCost(o) = lastClose[p] * size
  BY <1>3 DEF OrderCost, ExecutionPrice, IsStopOrder
<1>6. Book = orders /\ Book' = orders' /\ ~Processing'
  BY <1>4 DEF Book, Processing, market
<1>7. Added(Book, Book', o)
  BY <1>1, <1>2, <1>4, <1>6, AppendAdds
<1>8. Moves(o, FALSE, Filled)
  BY <1>1, <1>2, <1>3, <1>4, <1>5, SpotTypes, MarketMoves
<1>9. OnlyMoved(p, IF side = Buy THEN size ELSE -size)
  BY <1>3, <1>8 DEF Moves, OnlyMoved
<1>10. AnySpotNext
  BY DEF AnySpotNext, SpotCall
<1>. QED  BY <1>2, <1>3, <1>4, <1>6, <1>7, <1>9, <1>10

LEMMA StopEffect ==
  ASSUME SpotInv, WalletAssumption, ~Processing,
         NEW p \in Pairs, NEW size \in Nat \ {0}, NEW limit \in Nat,
         size <= free[p], CreateOrderStop(p, size, limit)
  PROVE  /\ AnySpotNext /\ ~Processing' /\ counter' = counter + 1
         /\ \E o \in Orders : /\ Added(Book, Book', o) /\ o.id = counter + 1
                              /\ o.pair = p /\ o.group = None /\ o.status = New
                              /\ o.side = Sell /\ o.qty = size
         /\ OnlyMoved(p, 0)
<1> DEFINE o == Order(counter + 1, p, Sell, "STOP_LOSS_LIMIT", New, limit, limit, size, None)
<1>1. /\ counter + 1 \in Nat /\ None \in Nat /\ orders \in Seq(Orders) /\ 0 \in Nat
      /\ New \in Statuses /\ "STOP_LOSS_LIMIT" \in Types /\ size \in Nat
      /\ Sell \in Sides /\ Sell # Buy
  <2>1. counter \in Nat /\ orders \in Seq(Orders)
    BY SpotTypes DEF TypeOK
  <2>2. New \in Statuses /\ "STOP_LOSS_LIMIT" \in Types /\ Sell \in Sides /\ Sell # Buy
    BY DEF Statuses, Types, Sides, Sell, Buy
  <2>. QED  BY <2>1, <2>2 DEF None
<1>2. o \in Orders
  BY <1>1, OrderTypes
<1>3. /\ o.side = Sell /\ o.pair = p /\ o.qty = size /\ o.status = New /\ o.group = None
      /\ o.id = counter + 1
  BY DEF Order
<1>4. /\ orders' = Append(orders, o) /\ UNCHANGED <<volume, market>> /\ counter' = counter + 1
      /\ LockFunds(Sell, p, size, limit)
  BY DEF CreateOrderStop
<1> HIDE DEF o
<1>6. Book = orders /\ Book' = orders' /\ ~Processing'
  BY <1>4 DEF Book, Processing, market
<1>7. Added(Book, Book', o)
  BY <1>1, <1>2, <1>4, <1>6, AppendAdds
<1>8. Moves(o, FALSE, New)
  BY <1>1, <1>2, <1>3, <1>4, SpotTypes, PlacedMoves
<1>9. OnlyMoved(p, 0)
  BY <1>8 DEF Moves, OnlyMoved, New, Filled
<1>10. SpotCall
  BY <1>1 DEF SpotCall
<1>. QED  BY <1>2, <1>3, <1>4, <1>6, <1>7, <1>9, <1>10 DEF AnySpotNext

LEMMA CancelEffect ==
  ASSUME SpotInv, WalletAssumption, ~Processing, NEW i \in DOMAIN orders,
         orders[i].status = New, orders[i].group = None, orders[i].side = Sell, Cancel(i)
  PROVE  /\ AnySpotNext /\ ~Processing' /\ counter' = counter
         /\ Changed(Book, Book', i, Canceled)
         /\ \A q \in Pairs : Total(q)' = Total(q)
<1>1. /\ UNCHANGED <<counter, market>> /\ Sell # Buy /\ Canceled # Filled
      /\ orders' = [orders EXCEPT ![i].status = Canceled]
  BY DEF Cancel, Sell, Buy, Canceled, Filled
<1>2. Book = orders /\ Book' = orders' /\ ~Processing'
  BY <1>1 DEF Book, Processing, market
<1>3. orders \in Seq(Orders) /\ SpotList(orders) /\ Canceled \in FinalStatuses
  BY <1>2, SpotTypes DEF FinalStatuses
<1>4. Changed(Book, Book', i, Canceled)
  <2>1. orders' = ClosedList(orders, i, Canceled)
    BY <1>1, <1>3, SingleClosed
  <2>2. Changed(orders, ClosedList(orders, i, Canceled), i, Canceled)
    BY <1>3, CloseChanges
  <2>. QED  BY <1>2, <2>1, <2>2
<1>5. Moves(orders[i], TRUE, Canceled)
  BY <1>1, <1>2, <1>3, SpotTypes, CancelMoves
<1>6. \A q \in Pairs : Total(q)' = Total(q) + 0
  BY <1>1, <1>5 DEF Moves
<1>7. \A q \in Pairs : Total(q) \in Int
  BY SpotTypes DEF TypeOK, Coins, Total
<1>8. AnySpotNext
  BY <1>1 DEF AnySpotNext, SpotCall, Canceling
<1>. QED  BY <1>1, <1>2, <1>4, <1>6, <1>7, <1>8

\* A sale without a group that OnCandle executes.
LEMMA ExecutionEffect ==
  ASSUME SpotInv, WalletAssumption, NEW i \in DOMAIN result,
         result[i].side = Sell, result[i].group = None,
         ProcessBuyOrder(i) \/ ProcessSellOrder(i)
  PROVE  /\ Processing' /\ UNCHANGED <<counter, orders, candle>>
         /\ Book[i].status = New /\ Changed(Book, Book', i, Filled)
         /\ OnlyMoved(Book[i].pair, -Book[i].qty)
<1>1. /\ ProcessSellOrder(i) /\ Sell # Buy
  BY DEF ProcessBuyOrder, Buy, Sell
<1>2. /\ Processing /\ UNCHANGED <<counter, orders, candle, quoted>> /\ result[i].status = New
      /\ result' = [CancelRelated(result, i) EXCEPT ![i].status = Filled]
  BY <1>1 DEF ProcessSellOrder, NextReached, Reached
<1>3. Book = result /\ Book' = result' /\ Processing'
  BY <1>2 DEF Book, Processing
<1>4. /\ result \in Seq(Orders) /\ Legs(result, counter) /\ Filled \in FinalStatuses
      /\ result[i] \in Orders
  BY <1>3, SpotTypes, EntryTypes DEF FinalStatuses
<1>5. Changed(Book, Book', i, Filled)
  <2>1. result' = ClosedList(result, i, Filled)
    BY <1>2, <1>4, SaleClosed
  <2>2. Changed(result, ClosedList(result, i, Filled), i, Filled)
    BY <1>4, CloseChanges
  <2>. QED  BY <1>3, <2>1, <2>2
<1>6. Moves(result[i], TRUE, Filled)
  BY SpotTypes, ExecutionMoves
<1>7. OnlyMoved(result[i].pair, -result[i].qty)
  BY <1>1, <1>6 DEF Moves, OnlyMoved
<1>. QED  BY <1>2, <1>3, <1>5, <1>7

-----------------------------------------------------------------------------
(* The bot, common to all strategies *)

\* A candle is in hand while a strategy or the exchange works on one.
BotInv ==
  /\ step # "idle" => last \in Candles
  /\ Processing <=> step = "exchange"

Turn(now, next) == step = now /\ step' = next /\ UNCHANGED <<strategy, last>>

\* The bot's own steps as the strategies see them.
BotStep ==
  \/ /\ step = "idle" /\ step' = "exchange" /\ last' \in Candles
     /\ \E c \in Candles : OnCandleBegin(c)
  \/ /\ Turn("exchange", "exchange") /\ Processing /\ Processing'
     /\ \E i \in DOMAIN result : ProcessBuyOrder(i) \/ ProcessSellOrder(i)
  \/ /\ step = "exchange" /\ step' \in {"decide", "partial", "idle"} /\ last' = last
     /\ OnCandleEnd

LEMMA CandlePair ==
  ASSUME WalletAssumption, BotInv, step # "idle"
  PROVE  pair \in Pairs /\ close \in Nat \ {0} /\ last.low \in Nat
BY DEF WalletAssumption, BotInv, pair, close

LEMMA BotSteps ==
  ASSUME WalletAssumption, BotInv, Bot
  PROVE  BotStep /\ AnySpotNext /\ BotInv' /\ Book' = (IF Processing' THEN result' ELSE orders')
         /\ UNCHANGED strategy
<1>1. \A c \in Candles : c # NoCandle
  BY DEF WalletAssumption, NoCandle
<1>2. ASSUME NEW c \in Candles, CandleArrives(c)
      PROVE  BotStep /\ AnySpotNext /\ BotInv'
  <2>1. Processing'
    BY <1>1, <1>2 DEF CandleArrives, OnCandleBegin, Processing
  <2>. QED  BY <1>2, <2>1 DEF CandleArrives, BotStep, AnySpotNext, BotInv
<1>3. ASSUME ExchangeSettles
      PROVE  BotStep /\ AnySpotNext /\ BotInv'
  <2>1. CASE \E i \in DOMAIN result : ProcessBuyOrder(i) \/ ProcessSellOrder(i)
    <3>1. Processing /\ Processing'
      BY <2>1 DEF ProcessBuyOrder, ProcessSellOrder, Processing
    <3>2. Turn("exchange", "exchange") /\ OnCandleStep
      BY <1>3, <3>1 DEF ExchangeSettles, Then, Turn
    <3>. QED  BY <2>1, <3>1, <3>2 DEF BotStep, AnySpotNext, BotInv, Turn
  <2>2. CASE OnCandleEnd
    <3>1. ~Processing'
      BY <2>2 DEF OnCandleEnd, Processing
    <3>2. step' \in {"decide", "partial", "idle"} /\ last' = last /\ step = "exchange"
      BY <1>3, <3>1 DEF ExchangeSettles, Then
    <3>. QED  BY <1>3, <2>2, <3>1, <3>2 DEF BotStep, AnySpotNext, BotInv, ExchangeSettles
  <2>. QED  BY <1>3, <2>1, <2>2 DEF ExchangeSettles, OnCandleStep
<1>4. UNCHANGED strategy
  BY DEF Bot, CandleArrives, ExchangeSettles, Then
<1>. QED  BY <1>2, <1>3, <1>4 DEF Bot, Book

\* A strategy's turn leaves the bot to it, whatever it called.
LEMMA TurnKeepsBot ==
  ASSUME BotInv, NEW now, NEW next, Turn(now, next), now # "idle", now # "exchange",
         next # "exchange", ~Processing'
  PROVE  BotInv'
BY DEF BotInv, Turn

-----------------------------------------------------------------------------
(* What is free *)

LEMMA Amounts ==
  ASSUME SpotInv, NEW p \in Pairs
  PROVE  /\ free[p] \in Nat /\ lock[p] \in Nat /\ free[Quote] \in Nat /\ lock[Quote] \in Nat
         /\ Total(p) \in Nat /\ Total(Quote) \in Nat
<1>1. p \in Coins /\ Quote \in Coins
  BY DEF Coins
<1>2. free \in [Coins -> Int] /\ lock \in [Coins -> Int]
  BY SpotTypes DEF TypeOK
<1>. QED  BY <1>1, <1>2, SpotSolvent DEF NoOverdraft, Total

\* Without a pending order of the pair nothing of it is locked.
LEMMA NothingWaits ==
  ASSUME SpotInv, NEW p \in Pairs, Waits(Book, p) = {}
  PROVE  free[p] = Total(p)
<1>1. Pending(Book, Sell, {p}) = {}
  BY DEF Pending, Waits
<1>2. lock[p] = 0
  BY <1>1, SpotTypes, SumEmpty DEF LocksBackOrders, PendingQty
<1>. QED  BY <1>2, Amounts DEF Total

\* A sale of what is free has the funds, at every price.
LEMMA SaleSuffices ==
  ASSUME SpotInv, pair \in Pairs, free[pair] > 0, NEW price \in Nat
  PROVE  Accepted(Sell, free[pair], price)
<1>1. free[pair] \in Nat /\ free[Quote] \in Nat /\ Max2(free[pair], 0) = free[pair]
  BY Amounts DEF Max2
<1>2. free[pair] * price \in Nat
  BY <1>1
<1>3. free[Quote] + free[pair] * price >= free[pair] * price
  BY <1>1, <1>2
<1>. QED  BY <1>1, <1>3 DEF Accepted, FundsSuffice

-----------------------------------------------------------------------------
(* The strategies that only place market orders *)

MarketTraders == {"turtle", "ema_cross", "trailing", "chatgpt"}

\* All they have in the list was executed.
AllFilled(list) == \A i \in DOMAIN list : list[i].status = Filled

\* What such a strategy may do in its turn.
MarketTurn ==
  /\ step \in {"decide", "partial"} /\ Turn(step, "idle")
  /\ \/ UNCHANGED vars
     \/ \E size \in Nat \ {0} : CreateOrderMarket(Buy, pair, size)
     \/ AssetPosition > 0 /\ CreateOrderMarket(Sell, pair, AssetPosition)

\* A number of lots bought is a natural number.
LEMMA LotsInt ==
  ASSUME NEW a \in Int, NEW b \in Nat \ {0}
  PROVE  a \div b \in Int
BY SMT

LEMMA MarketTurns ==
  ASSUME WalletAssumption, CallsAssumption, SpotInv, BotInv,
         strategy \in MarketTraders, TradingNext, ~Bot
  PROVE  MarketTurn
<1>1. SignalNext
  BY DEF TradingNext, MarketTraders, StopNext, RiskNext, TrendNext, At, AtRisk,
         LarryDecides, LarryCancels, LarrySells, MACDDecides, MACDProtects, MACDCancels,
         MACDSells, TripleDecides, TripleCancels, TripleSells, PlaceStop,
         Enter, Protect, Exit, Stay, OutsideTradingHours, CancelStop, SellOut,
         TrendDecides, TrendSleeps, TrendCancels, TrendEnters, TrendProtects, TrendSells
<1>2. Turtle \/ CrossEMA \/ ChatGPT \/ TrailingEntry \/ TrailingUpdate
  BY <1>1 DEF SignalNext, MarketTraders, At, TelegramBuys, TelegramSells, TelegramConverts,
              OCOSell, CrossEMAMACD, SchedulerBegin, SchedulerStep, SchedulerEnd
<1>3. step \in {"decide", "partial"} /\ Turn(step, "idle")
  BY <1>2 DEF Turtle, CrossEMA, ChatGPT, TrailingEntry, TrailingUpdate, At, Then, Turn
<1>4. pair \in Pairs /\ close \in Nat \ {0}
  BY <1>3, CandlePair DEF Turn
<1>5. AssetPosition \in Nat /\ QuotePosition \in Nat
  BY <1>4, Amounts DEF AssetPosition, QuotePosition
<1> DEFINE Bought == \E size \in Nat \ {0} : CreateOrderMarket(Buy, pair, size)
<1>6. \A size \in Int : Market(Buy, size) => Bought
  BY DEF Market
<1>7. \A size \in Int : MarketCall(Buy, size) => Bought \/ UNCHANGED vars
  BY <1>6 DEF MarketCall, Refused
<1>8. Market(Sell, AssetPosition) => AssetPosition > 0 /\ CreateOrderMarket(Sell, pair, AssetPosition)
  BY DEF Market
<1>9. MarketCall(Sell, AssetPosition) =>
        UNCHANGED vars \/ (AssetPosition > 0 /\ CreateOrderMarket(Sell, pair, AssetPosition))
  BY <1>8 DEF MarketCall, Refused
<1>10. /\ InLots(QuotePosition \div 2) \in Int /\ InLots(QuotePosition) \in Int
       /\ InLots((QuotePosition * 95) \div 100) \in Int
  BY <1>4, <1>5, LotsInt DEF InLots
<1> HIDE DEF Bought
<1>11. CASE Turtle
  BY <1>3, <1>7, <1>9, <1>10, <1>11 DEF Turtle, MarketTurn, Bought
<1>12. CASE CrossEMA
  BY <1>3, <1>7, <1>9, <1>10, <1>12 DEF CrossEMA, MarketTurn, Bought
<1>13. CASE ChatGPT
  <2>1. UNCHANGED vars \/ ExecuteBuy \/ ExecuteSell
    BY <1>13 DEF ChatGPT
  <2>. QED  BY <1>3, <1>7, <1>9, <1>10, <2>1 DEF ExecuteBuy, ExecuteSell, MarketTurn, Bought
<1>14. CASE TrailingEntry
  BY <1>3, <1>6, <1>10, <1>14 DEF TrailingEntry, Refused, MarketTurn, Bought, vars
<1>15. CASE TrailingUpdate
  BY <1>3, <1>8, <1>15 DEF TrailingUpdate, MarketTurn
<1>. QED  BY <1>2, <1>11, <1>12, <1>13, <1>14, <1>15

LEMMA AddedFilled ==
  ASSUME NEW old, NEW new, NEW o, Added(old, new, o), AllFilled(old), o.status = Filled
  PROVE  AllFilled(new)
BY DEF Added, AllFilled

\* Nothing pending, so all of a position is free to be sold.
LEMMA MarketTradersStep ==
  ASSUME WalletAssumption, CallsAssumption, SpotInv, BotInv, AllFilled(Book),
         strategy \in MarketTraders, TradingNext
  PROVE  [AnySpotNext]_vars /\ BotInv' /\ AllFilled(Book')
<1>1. Filled # New
  BY DEF Filled, New
<1>2. CASE Bot
  <2>1. BotStep /\ AnySpotNext /\ BotInv'
    BY <1>2, BotSteps
  <2>2. ASSUME NEW i \in DOMAIN result PROVE ~(ProcessBuyOrder(i) \/ ProcessSellOrder(i))
    BY <1>1 DEF ProcessBuyOrder, ProcessSellOrder, NextReached, Reached, AllFilled, Book
  <2>3. Book' = Book
    <3>1. CASE \E c \in Candles : OnCandleBegin(c)
      <4>1. \A c \in Candles : c # NoCandle
        BY DEF WalletAssumption, NoCandle
      <4>. QED  BY <3>1, <4>1 DEF OnCandleBegin, Book, Processing
    <3>2. CASE OnCandleEnd
      BY <3>2 DEF OnCandleEnd, Book, Processing
    <3>. QED  BY <2>1, <2>2, <3>1, <3>2 DEF BotStep
  <2>. QED  BY <2>1, <2>3
<1>3. CASE ~Bot
  <2>1. MarketTurn
    BY <1>3, MarketTurns
  <2>2. pair \in Pairs /\ ~Processing /\ step \in {"decide", "partial"} /\ Turn(step, "idle")
    BY <2>1, CandlePair DEF MarketTurn, Turn, BotInv
  <2>3. Waits(Book, pair) = {}
    BY <1>1 DEF Waits, AllFilled
  <2>4. free[pair] = AssetPosition /\ AssetPosition \in Nat
    BY <2>2, <2>3, NothingWaits, Amounts DEF AssetPosition
  <2>5. CASE UNCHANGED vars
    <3>1. Book' = Book /\ ~Processing'
      BY <2>2, <2>5 DEF vars, Book, Processing
    <3>. QED  BY <2>2, <2>5, <3>1, TurnKeepsBot
  <2>6. ASSUME NEW side \in Sides, NEW size \in Nat \ {0}, side = Sell => size <= free[pair],
               CreateOrderMarket(side, pair, size)
        PROVE  AnySpotNext /\ BotInv' /\ AllFilled(Book')
    <3>1. /\ AnySpotNext /\ ~Processing'
          /\ \E o \in Orders : Added(Book, Book', o) /\ o.status = Filled
      BY <2>2, <2>6, MarketEffect
    <3>2. AllFilled(Book')
      BY <3>1, AddedFilled
    <3>3. BotInv'
      BY <2>2, <3>1, TurnKeepsBot
    <3>. QED  BY <3>1, <3>2, <3>3
  <2>7. Buy \in Sides /\ Sell \in Sides /\ Buy # Sell
    BY DEF Sides, Buy, Sell
  <2>8. CASE \E size \in Nat \ {0} : CreateOrderMarket(Buy, pair, size)
    BY <2>6, <2>7, <2>8
  <2>9. CASE AssetPosition > 0 /\ CreateOrderMarket(Sell, pair, AssetPosition)
    BY <2>4, <2>6, <2>7, <2>9
  <2>. QED  BY <2>1, <2>5, <2>8, <2>9 DEF MarketTurn
<1>. QED  BY <1>2, <1>3

-----------------------------------------------------------------------------
(* The OCO strategy: its sale follows a purchase of the same size *)

\* What was bought for the sale is there and free.
SaleCovered ==
  step = "protect" => InLots(MinQuote) \in Nat \ {0} /\ InLots(MinQuote) <= free[pair]

OCOTurn ==
  \/ /\ \E now \in {"decide", "protect"} : Turn(now, "idle")
     /\ UNCHANGED vars
  \/ /\ Turn("decide", "protect")
     /\ InLots(MinQuote) \in Nat \ {0}
     /\ CreateOrderMarket(Buy, pair, InLots(MinQuote))
  \/ /\ Turn("protect", "idle")
     /\ CreateOrderOCO(Sell, pair, InLots(MinQuote), close + 1, close - 1, close - 1)

LEMMA OCOTurns ==
  ASSUME WalletAssumption, CallsAssumption, BotInv, strategy = "oco_sell", TradingNext, ~Bot
  PROVE  OCOTurn
<1>1. SignalNext
  BY DEF TradingNext, StopNext, RiskNext, TrendNext, At, AtRisk,
         LarryDecides, LarryCancels, LarrySells, MACDDecides, MACDProtects, MACDCancels,
         MACDSells, TripleDecides, TripleCancels, TripleSells, PlaceStop,
         Enter, Protect, Exit, Stay, OutsideTradingHours, CancelStop, SellOut,
         TrendDecides, TrendSleeps, TrendCancels, TrendEnters, TrendProtects, TrendSells
<1>2. OCOSell
  BY <1>1 DEF SignalNext, At, TelegramBuys, TelegramSells, TelegramConverts,
              Turtle, CrossEMA, CrossEMAMACD, ChatGPT, TrailingEntry, TrailingUpdate,
              SchedulerBegin, SchedulerStep, SchedulerEnd
<1>3. step # "idle"
  BY <1>2 DEF OCOSell, At
<1>4. InLots(MinQuote) \in Int
  BY <1>3, CandlePair, LotsInt DEF InLots, CallsAssumption
<1>. QED  BY <1>2, <1>4 DEF OCOSell, At, Then, Turn, Market, Refused, OCOTurn

LEMMA OCOStep ==
  ASSUME WalletAssumption, CallsAssumption, SpotInv, BotInv, SaleCovered,
         strategy = "oco_sell", TradingNext
  PROVE  [AnySpotNext]_vars /\ BotInv' /\ SaleCovered'
<1>1. CASE Bot
  <2>1. BotStep /\ AnySpotNext /\ BotInv'
    BY <1>1, BotSteps
  <2>2. step' # "protect"
    BY <2>1 DEF BotStep, Turn
  <2>. QED  BY <2>1, <2>2 DEF SaleCovered
<1>2. CASE ~Bot
  <2>1. OCOTurn
    BY <1>2, OCOTurns
  <2>2. pair \in Pairs /\ close \in Nat \ {0} /\ ~Processing /\ UNCHANGED <<strategy, last>>
    BY <2>1, CandlePair DEF OCOTurn, Turn, BotInv
  <2>3. Buy \in Sides /\ Sell \in Sides /\ Buy # Sell /\ free[pair] \in Nat
    BY <2>2, Amounts DEF Sides, Buy, Sell
  <2>4. CASE /\ \E now \in {"decide", "protect"} : Turn(now, "idle")
             /\ UNCHANGED vars
    <3>1. ~Processing' /\ step' # "protect"
      BY <2>2, <2>4 DEF vars, Processing, Turn
    <3>. QED  BY <2>4, <3>1, TurnKeepsBot DEF SaleCovered
  <2>5. CASE /\ Turn("decide", "protect")
             /\ InLots(MinQuote) \in Nat \ {0}
             /\ CreateOrderMarket(Buy, pair, InLots(MinQuote))
    <3> DEFINE size == InLots(MinQuote)
    <3>1. size \in Nat \ {0} /\ CreateOrderMarket(Buy, pair, size)
      BY <2>5
    <3>2. UNCHANGED <<pair, close, size>>
      BY <2>2 DEF pair, close, InLots
    <3> HIDE DEF size
    <3>3. AnySpotNext /\ ~Processing'
      BY <2>2, <2>3, <3>1, MarketEffect
    <3>4. BotInv'
      BY <2>5, <3>3, TurnKeepsBot
    <3>5. free'[pair] = free[pair] + size
      <4>1. FillFunds(Buy, pair, size, lastClose[pair])
        BY <3>1 DEF CreateOrderMarket, FillMarket
      <4>2. free \in [Coins -> Int] /\ pair \in Coins /\ pair # Quote
        BY <2>2, SpotTypes DEF TypeOK, Coins, WalletAssumption
      <4>. QED  BY <2>3, <4>1, <4>2 DEF FillFunds
    <3>6. size <= free'[pair]
      BY <2>3, <3>1, <3>5
    <3>. QED  BY <3>1, <3>2, <3>3, <3>4, <3>6 DEF SaleCovered, size
  <2>6. CASE /\ Turn("protect", "idle")
             /\ CreateOrderOCO(Sell, pair, InLots(MinQuote), close + 1, close - 1, close - 1)
    <3>1. InLots(MinQuote) \in Nat \ {0} /\ InLots(MinQuote) <= free[pair]
      BY <2>6 DEF SaleCovered, Turn
    <3>2. close + 1 \in Nat /\ close - 1 \in Nat
      BY <2>2
    <3>3. SpotCall
      BY <2>2, <2>3, <2>6, <3>1, <3>2 DEF SpotCall
    <3>4. ~Processing' /\ step' # "protect"
      BY <2>2, <2>6 DEF CreateOrderOCO, market, Processing, Turn
    <3>. QED  BY <2>6, <3>3, <3>4, TurnKeepsBot DEF SaleCovered, AnySpotNext
  <2>. QED  BY <2>1, <2>4, <2>5, <2>6 DEF OCOTurn
<1>. QED  BY <1>1, <1>2

-----------------------------------------------------------------------------
(* The strategies that keep a stop behind each position *)

\* The list such a strategy leaves: an order's id is its place, and whatever
\* is pending is a single sale.
StopList(list) ==
  \A i \in DOMAIN list : /\ list[i].id = i /\ list[i].group = None
                         /\ list[i].status = New => list[i].side = Sell

\* What was executed stays as it is.
FilledKept(old, new) ==
  \A i \in DOMAIN old : old[i].status = Filled => i \in DOMAIN new /\ new[i] = old[i]

\* One pending order, the remembered one, for the whole amount held.  What the
\* wallet was given at the start has none.
GuardedBy(list, p, total, id) ==
  IF total > 0
  THEN \/ \E i \in DOMAIN list : Waits(list, p) = {i} /\ list[i].qty = total /\ list[i].id = id
       \/ InitialAsset > 0 /\ Waits(list, p) = {} /\ id = None
  ELSE Waits(list, p) = {}

LEMMA AddedList ==
  ASSUME NEW old, NEW new, NEW o, Added(old, new, o), StopList(old),
         o.id = Len(old) + 1, o.group = None, o.status = New => o.side = Sell
  PROVE  StopList(new) /\ FilledKept(old, new)
BY DEF Added, StopList, FilledKept

LEMMA ChangedList ==
  ASSUME NEW old, NEW new, NEW i \in DOMAIN old, NEW status, Changed(old, new, i, status),
         StopList(old), status # New, old[i].status # Filled
  PROVE  StopList(new) /\ FilledKept(old, new)
BY DEF Changed, StopList, FilledKept

LEMMA AddedWaits ==
  ASSUME NEW old, NEW new, NEW o, Added(old, new, o), NEW p
  PROVE  /\ ~(o.pair = p /\ o.status = New) => Waits(new, p) = Waits(old, p)
         /\ o.pair = p /\ o.status = New => Waits(new, p) = Waits(old, p) \cup {Len(old) + 1}
<1> DEFINE n == Len(old) + 1
<1>1. /\ DOMAIN new = DOMAIN old \cup {n} /\ n \notin DOMAIN old
      /\ new[n] = o /\ \A j \in DOMAIN old : new[j] = old[j]
  BY DEF Added
<1> HIDE DEF n
<1>. QED  BY <1>1 DEF Waits, n

LEMMA ChangedWaits ==
  ASSUME NEW old, NEW new, NEW i \in DOMAIN old, NEW status, Changed(old, new, i, status),
         status # New, NEW p
  PROVE  Waits(new, p) = Waits(old, p) \ {i}
BY DEF Waits, Changed

\* A pair nothing happened to stays guarded.
LEMMA AddedGuard ==
  ASSUME NEW old, NEW new, NEW o, Added(old, new, o), NEW p, NEW total, NEW id,
         ~(o.pair = p /\ o.status = New), GuardedBy(old, p, total, id)
  PROVE  GuardedBy(new, p, total, id)
<1>1. Waits(new, p) = Waits(old, p)
  BY AddedWaits
<1>2. DOMAIN old \subseteq DOMAIN new /\ \A j \in DOMAIN old : new[j] = old[j]
  BY DEF Added
<1>. QED  BY <1>1, <1>2 DEF GuardedBy

LEMMA ChangedGuard ==
  ASSUME NEW old, NEW new, NEW i \in DOMAIN old, NEW status, Changed(old, new, i, status),
         status # New, NEW p, old[i].pair # p, NEW total, NEW id, GuardedBy(old, p, total, id)
  PROVE  GuardedBy(new, p, total, id)
<1>1. Waits(new, p) = Waits(old, p) \ {i} /\ i \notin Waits(old, p)
  <2>1. Waits(new, p) = Waits(old, p) \ {i}
    BY ChangedWaits
  <2>2. i \notin Waits(old, p)
    BY DEF Waits
  <2>. QED  BY <2>1, <2>2
<1>2. DOMAIN new = DOMAIN old /\ \A j \in DOMAIN old : j # i => new[j] = old[j]
  BY DEF Changed
<1>3. Waits(new, p) = Waits(old, p)
  BY <1>1
<1>4. ASSUME NEW j \in DOMAIN old, Waits(old, p) = {j}
      PROVE  j \in DOMAIN new /\ new[j] = old[j]
  BY <1>1, <1>2, <1>4
<1>. QED  BY <1>3, <1>4 DEF GuardedBy

\* The order that guarded the pair is gone: nothing waits any more.
LEMMA GuardGone ==
  ASSUME NEW old, NEW new, NEW i \in DOMAIN old, NEW status, Changed(old, new, i, status),
         status # New, NEW p, NEW total, NEW id, GuardedBy(old, p, total, id),
         i \in Waits(old, p)
  PROVE  Waits(new, p) = {} /\ total > 0 /\ old[i].qty = total
<1>1. Waits(new, p) = Waits(old, p) \ {i}
  BY ChangedWaits
<1>2. Waits(old, p) = {i} /\ old[i].qty = total /\ total > 0
  BY DEF GuardedBy
<1>. QED  BY <1>1, <1>2

Guarded(p) == GuardedBy(Book, p, Total(p), Remembered(p))

\* Between the purchase and its stop, and between a cancel and its sale.
Bare(p) == Waits(Book, p) = {} /\ Total(p) > 0

RiskTakers == {"adaptive", "breakout"}

Records ==
  /\ activeOrders \in [Pairs -> Nat] /\ stopId \in [Pairs -> Nat]
  /\ score \in [wins : Nat, losses : Nat, streak : Nat]

\* What such a strategy knows whenever the bot runs it.
KeeperInv ==
  /\ Records
  /\ StopList(Book) /\ counter = Len(Book) /\ FilledKept(orders, Book)
  /\ \A p \in Pairs : IF step \in {"protect", "sell"} /\ p = pair THEN Bare(p) ELSE Guarded(p)
  /\ step = "cancel" => \A p \in Pairs : p = pair => Total(p) > 0
  /\ strategy \in RiskTakers /\ step = "protect" =>
       plan.stop \in Nat /\ \A p \in Pairs : p = pair => plan.size = Total(p)

\* The turns such a strategy takes: it looks, enters, protects what it bought,
\* cancels the stop, sells.
Mindful(p) == \A q \in Pairs : q # p => Remembered(q)' = Remembered(q)
Recalls    == \A q \in Pairs : Remembered(q)' = Remembered(q)

Looks ==
  /\ Turn("decide", "idle") \/ (Turn("decide", "cancel") /\ AssetPosition > 0)
  /\ UNCHANGED vars /\ Recalls

Enters ==
  /\ Turn("decide", "protect") /\ AssetPosition <= 0
  /\ \E size \in Nat \ {0} :
       /\ CreateOrderMarket(Buy, pair, size)
       /\ strategy \in RiskTakers => plan'.size = size /\ plan'.stop \in Nat
  /\ Recalls

Protects ==
  /\ Turn("protect", "idle")
  /\ \E price \in Nat : CreateOrderStop(pair, AssetPosition, price)
  /\ Mindful(pair) /\ Remembered(pair)' = NewestId + 1

Cancels ==
  /\ Turn("cancel", "sell")
  /\ \/ \E i \in DOMAIN orders : i \in Waits(orders, pair) /\ Cancel(i)
     \/ Waits(orders, pair) = {} /\ UNCHANGED vars
  /\ Mindful(pair)

Sells ==
  /\ Turn("sell", "idle")
  /\ CreateOrderMarket(Sell, pair, AssetPosition)
  /\ Recalls

KeeperTurn == Looks \/ Enters \/ Protects \/ Cancels \/ Sells

\* What a step does to such a strategy's orders and amounts: a position begins
\* with a purchase and ends at the latest with the sale.
TotalsMove ==
  \A q \in Pairs : /\ Total(q)' > Total(q) => q = pair /\ Turn("decide", "protect")
                   /\ q = pair /\ Turn("sell", "idle") => Total(q)' = 0

KeeperOutcome ==
  /\ [AnySpotNext]_vars /\ BotInv' /\ KeeperInv'
  /\ FilledKept(Book, Book') /\ orders' \in {orders, Book'}
  /\ TotalsMove

LEMMA TurnKept ==
  ASSUME BotInv, ~Processing', NEW now, NEW next, Turn(now, next),
         now # "idle", now # "exchange", next # "exchange",
         Records', StopList(Book'), counter' = Len(Book'),
         \A q \in Pairs :
           IF next \in {"protect", "sell"} /\ q = pair THEN Bare(q)' ELSE Guarded(q)',
         next = "cancel" => \A p \in Pairs : p = pair => Total(p)' > 0,
         strategy \in RiskTakers /\ next = "protect" =>
           plan'.stop \in Nat /\ \A p \in Pairs : p = pair => plan'.size = Total(p)'
  PROVE  BotInv' /\ KeeperInv' /\ orders' = Book'
<1>1. BotInv' /\ orders' = Book'
  BY TurnKeepsBot DEF Book
<1>2. pair' = pair /\ step' = next /\ strategy' = strategy
  BY DEF Turn, pair
<1>3. FilledKept(orders', Book')
  BY <1>1 DEF FilledKept
<1>. QED  BY <1>1, <1>2, <1>3 DEF KeeperInv

\* A look changes nothing.
LEMMA LookKept ==
  ASSUME WalletAssumption, SpotInv, BotInv, KeeperInv, Looks, Records'
  PROVE  KeeperOutcome
<1>1. PICK next \in {"idle", "cancel"} : Turn("decide", next) /\ (next = "cancel" => AssetPosition > 0)
  BY DEF Looks
<1>2. /\ UNCHANGED vars /\ Book' = Book /\ Len(Book') = Len(Book) /\ UNCHANGED <<orders, counter>>
      /\ \A q \in Pairs : Total(q)' = Total(q) /\ Remembered(q)' = Remembered(q)
  BY DEF Looks, Recalls, vars, Book, Total, Processing
<1>3. ~Processing /\ ~Processing' /\ step = "decide" /\ step' = next
  BY <1>1, <1>2 DEF BotInv, Turn, vars, Processing
<1>4. \A q \in Pairs : Guarded(q)'
  BY <1>2, <1>3 DEF Guarded, KeeperInv
<1>5. StopList(Book') /\ counter' = Len(Book')
  BY <1>2 DEF KeeperInv
<1>6. \A q \in Pairs : q = pair => (next = "cancel" => Total(q)' > 0)
  BY <1>1, <1>2 DEF AssetPosition
<1>7. BotInv' /\ KeeperInv'
  BY <1>1, <1>3, <1>4, <1>5, <1>6, TurnKept
<1>8. FilledKept(Book, Book') /\ TotalsMove
  BY <1>2, <1>3, Amounts DEF FilledKept, TotalsMove, Turn
<1>. QED  BY <1>2, <1>7, <1>8 DEF KeeperOutcome

\* An entry leaves the other pairs guarded, and its own position bare.
LEMMA EnterKept ==
  ASSUME WalletAssumption, SpotInv, BotInv, KeeperInv, Enters, Records'
  PROVE  KeeperOutcome
<1>1. /\ Turn("decide", "protect") /\ pair \in Pairs /\ ~Processing /\ Buy \in Sides /\ Buy # Sell
      /\ Filled # New /\ step = "decide" /\ strategy' = strategy
  BY CandlePair DEF Enters, Turn, BotInv, Sides, Buy, Sell, Filled, New
<1>2. PICK size \in Nat \ {0} :
        /\ CreateOrderMarket(Buy, pair, size)
        /\ strategy \in RiskTakers => plan'.size = size /\ plan'.stop \in Nat
  BY DEF Enters
<1>3. /\ AnySpotNext /\ ~Processing' /\ counter' = counter + 1 /\ OnlyMoved(pair, size)
      /\ \E o \in Orders : /\ Added(Book, Book', o) /\ o.id = counter + 1
                           /\ o.pair = pair /\ o.group = None /\ o.status = Filled
  BY <1>1, <1>2, MarketEffect
<1>4. PICK o \in Orders : /\ Added(Book, Book', o) /\ o.id = counter + 1
                          /\ o.pair = pair /\ o.group = None /\ o.status = Filled
  BY <1>3
<1>5. StopList(Book') /\ FilledKept(Book, Book') /\ counter' = Len(Book')
  <2>1. StopList(Book) /\ counter = Len(Book)
    BY DEF KeeperInv
  <2>2. Len(Book') = Len(Book) + 1
    BY <1>4 DEF Added
  <2>. QED  BY <1>1, <1>3, <1>4, <2>1, <2>2, AddedList
<1>6. Total(pair) = 0 /\ \A q \in Pairs : Total(q) \in Nat
  BY <1>1, Amounts DEF Enters, AssetPosition
<1>7. \A q \in Pairs : Total(q)' = IF q = pair THEN size ELSE Total(q)
  BY <1>6, <1>3 DEF OnlyMoved
<1>8. ASSUME NEW q \in Pairs
      PROVE  IF q = pair THEN Bare(q)' ELSE Guarded(q)'
  <2>1. Guarded(q)
    BY <1>1 DEF KeeperInv
  <2>2. GuardedBy(Book', q, Total(q), Remembered(q))
    BY <1>1, <1>4, <2>1, AddedGuard DEF Guarded
  <2>3. Remembered(q)' = Remembered(q)
    BY DEF Enters, Recalls
  <2>4. CASE q # pair
    BY <1>7, <2>2, <2>3, <2>4 DEF Guarded
  <2>5. CASE q = pair
    <3>1. Waits(Book', q) = {}
      BY <1>6, <2>2, <2>5 DEF GuardedBy
    <3>. QED  BY <1>7, <2>5, <3>1 DEF Bare
  <2>. QED  BY <2>4, <2>5
<1>9. strategy \in RiskTakers => plan'.stop \in Nat /\ \A q \in Pairs : q = pair => plan'.size = Total(q)'
  BY <1>2, <1>7
<1>10. BotInv' /\ KeeperInv' /\ orders' = Book'
  BY <1>1, <1>3, <1>5, <1>8, <1>9, TurnKept
<1>11. TotalsMove
  BY <1>1, <1>6, <1>7 DEF TotalsMove, Turn
<1>. QED  BY <1>3, <1>5, <1>10, <1>11 DEF KeeperOutcome

\* The stop covers the whole position, and the strategy remembers its id.
LEMMA ProtectKept ==
  ASSUME WalletAssumption, SpotInv, BotInv, KeeperInv, Protects, Records'
  PROVE  KeeperOutcome
<1>1. /\ Turn("protect", "idle") /\ pair \in Pairs /\ ~Processing
      /\ step = "protect" /\ strategy' = strategy /\ Book = orders
  BY CandlePair DEF Protects, Turn, BotInv, Book
<1>2. Waits(Book, pair) = {} /\ Total(pair) > 0 /\ Total(pair) \in Nat
  BY <1>1, Amounts DEF KeeperInv, Bare
<1>3. free[pair] = Total(pair) /\ Total(pair) <= free[pair] /\ Total(pair) \in Nat \ {0}
  BY <1>1, <1>2, NothingWaits
<1>4. PICK price \in Nat : CreateOrderStop(pair, Total(pair), price)
  BY DEF Protects, AssetPosition
<1> DEFINE size == Total(pair)
<1>5. size \in Nat \ {0} /\ size <= free[pair] /\ CreateOrderStop(pair, size, price)
  BY <1>3, <1>4
<1> HIDE DEF size
<1>6. /\ AnySpotNext /\ ~Processing' /\ counter' = counter + 1 /\ OnlyMoved(pair, 0)
      /\ \E o \in Orders : /\ Added(Book, Book', o) /\ o.id = counter + 1
                           /\ o.pair = pair /\ o.group = None /\ o.status = New
                           /\ o.side = Sell /\ o.qty = size
  BY <1>1, <1>5, StopEffect
<1>7. PICK o \in Orders : /\ Added(Book, Book', o) /\ o.id = counter + 1
                          /\ o.pair = pair /\ o.group = None /\ o.status = New
                          /\ o.side = Sell /\ o.qty = size
  BY <1>6
<1>8. StopList(Book') /\ FilledKept(Book, Book') /\ counter' = Len(Book')
  <2>1. StopList(Book) /\ counter = Len(Book)
    BY DEF KeeperInv
  <2>2. Len(Book') = Len(Book) + 1
    BY <1>7 DEF Added
  <2>. QED  BY <1>6, <1>7, <2>1, <2>2, AddedList
<1>9. \A q \in Pairs : Total(q) \in Nat /\ Total(q)' = Total(q)
  BY <1>6, Amounts DEF OnlyMoved
<1>10. ASSUME NEW q \in Pairs
       PROVE  Guarded(q)'
  <2>1. CASE q # pair
    <3>1. Guarded(q)
      BY <1>1, <2>1 DEF KeeperInv
    <3>2. GuardedBy(Book', q, Total(q), Remembered(q))
      BY <1>7, <2>1, <3>1, AddedGuard DEF Guarded
    <3>3. Remembered(q)' = Remembered(q)
      BY <2>1 DEF Protects, Mindful
    <3>. QED  BY <1>9, <3>2, <3>3 DEF Guarded
  <2>2. CASE q = pair
    <3> DEFINE n == Len(Book) + 1
    <3>1. Waits(Book', q) = Waits(Book, q) \cup {n}
      BY <1>7, <2>2, AddedWaits
    <3>2. n \in DOMAIN Book' /\ Book'[n] = o /\ o.id = n
      BY <1>7 DEF Added, KeeperInv
    <3>3. Remembered(q)' = n
      BY <1>1, <2>2 DEF Protects, NewestId, pair, Turn
    <3>4. Total(q)' = size /\ size > 0
      BY <1>5, <1>9, <2>2 DEF size
    <3> HIDE DEF n
    <3>5. GuardedBy(Book', q, size, n)
      BY <1>2, <1>7, <2>2, <3>1, <3>2, <3>4 DEF GuardedBy
    <3>. QED  BY <3>3, <3>4, <3>5 DEF Guarded
  <2>. QED  BY <2>1, <2>2
<1>11. BotInv' /\ KeeperInv' /\ orders' = Book'
  BY <1>1, <1>6, <1>8, <1>10, TurnKept
<1>12. TotalsMove
  BY <1>1, <1>9 DEF TotalsMove, Turn
<1>. QED  BY <1>6, <1>8, <1>11, <1>12 DEF KeeperOutcome

\* What is cancelled is the stop of the pair, still pending.
LEMMA CancelKept ==
  ASSUME WalletAssumption, SpotInv, BotInv, KeeperInv, Cancels, Records'
  PROVE  KeeperOutcome
<1>1. /\ Turn("cancel", "sell") /\ pair \in Pairs /\ ~Processing
      /\ step = "cancel" /\ strategy' = strategy /\ Book = orders
  BY CandlePair DEF Cancels, Turn, BotInv, Book
<1>2. /\ StopList(Book) /\ counter = Len(Book) /\ Total(pair) > 0
      /\ \A q \in Pairs : Guarded(q) /\ Total(q) \in Nat
  BY <1>1, Amounts DEF KeeperInv
<1>3. ASSUME [AnySpotNext]_vars, ~Processing', StopList(Book'), FilledKept(Book, Book'),
             counter' = Len(Book'), Waits(Book', pair) = {},
             \A q \in Pairs : Total(q)' = Total(q),
             \A q \in Pairs : q # pair => GuardedBy(Book', q, Total(q), Remembered(q))
      PROVE  KeeperOutcome
  <2>1. ASSUME NEW q \in Pairs
        PROVE  IF q = pair THEN Bare(q)' ELSE Guarded(q)'
    <3>1. CASE q # pair
      <4>1. Remembered(q)' = Remembered(q)
        BY <3>1 DEF Cancels, Mindful
      <4>. QED  BY <1>3, <3>1, <4>1 DEF Guarded
    <3>2. CASE q = pair
      BY <1>2, <1>3, <3>2 DEF Bare
    <3>. QED  BY <3>1, <3>2
  <2>2. BotInv' /\ KeeperInv' /\ orders' = Book'
    BY <1>1, <1>3, <2>1, TurnKept
  <2>3. TotalsMove
    BY <1>1, <1>2, <1>3 DEF TotalsMove, Turn
  <2>. QED  BY <1>3, <2>2, <2>3 DEF KeeperOutcome
<1>4. CASE Waits(orders, pair) = {} /\ UNCHANGED vars
  <2>1. /\ Book' = Book /\ Len(Book') = Len(Book) /\ counter' = counter /\ ~Processing'
        /\ \A q \in Pairs : Total(q)' = Total(q)
    BY <1>1, <1>4 DEF vars, Book, Total, Processing
  <2>2. FilledKept(Book, Book') /\ \A q \in Pairs : GuardedBy(Book', q, Total(q), Remembered(q))
    BY <1>2, <2>1 DEF FilledKept, Guarded
  <2>. QED  BY <1>1, <1>2, <1>3, <1>4, <2>1, <2>2
<1>5. ASSUME NEW i \in DOMAIN orders, i \in Waits(orders, pair), Cancel(i)
      PROVE  KeeperOutcome
  <2>1. /\ orders[i].status = New /\ orders[i].pair = pair /\ orders[i].group = None
        /\ orders[i].side = Sell
    BY <1>1, <1>2, <1>5 DEF StopList, Waits
  <2>2. /\ AnySpotNext /\ ~Processing' /\ counter' = counter
        /\ Changed(Book, Book', i, Canceled)
        /\ \A q \in Pairs : Total(q)' = Total(q)
    BY <1>1, <1>5, <2>1, CancelEffect
  <2>3. Canceled # New /\ New # Filled /\ i \in DOMAIN Book
    BY <1>1 DEF Canceled, New, Filled
  <2>4. StopList(Book') /\ FilledKept(Book, Book') /\ counter' = Len(Book')
    <3>1. Len(Book') = Len(Book)
      BY <2>2 DEF Changed
    <3>. QED  BY <1>1, <1>2, <2>1, <2>2, <2>3, <3>1, ChangedList
  <2>5. ASSUME NEW q \in Pairs, q # pair
        PROVE  GuardedBy(Book', q, Total(q), Remembered(q))
    BY <1>1, <1>2, <2>1, <2>2, <2>3, <2>5, ChangedGuard DEF Guarded
  <2>6. Waits(Book', pair) = {}
    BY <1>1, <1>2, <1>5, <2>2, <2>3, GuardGone DEF Guarded
  <2>. QED  BY <1>3, <2>2, <2>4, <2>5, <2>6
<1>. QED  BY <1>4, <1>5 DEF Cancels

\* With nothing pending the whole position is sold.
LEMMA SellKept ==
  ASSUME WalletAssumption, SpotInv, BotInv, KeeperInv, Sells, Records'
  PROVE  KeeperOutcome
<1>1. /\ Turn("sell", "idle") /\ pair \in Pairs /\ ~Processing /\ Sell \in Sides /\ Sell # Buy
      /\ Filled # New /\ step = "sell" /\ strategy' = strategy
  BY CandlePair DEF Sells, Turn, BotInv, Sides, Buy, Sell, Filled, New
<1>2. Waits(Book, pair) = {} /\ Total(pair) > 0
  BY <1>1 DEF KeeperInv, Bare
<1> DEFINE size == Total(pair)
<1>3. size \in Nat \ {0} /\ size <= free[pair] /\ CreateOrderMarket(Sell, pair, size)
  BY <1>1, <1>2, NothingWaits, Amounts DEF Sells, AssetPosition
<1> HIDE DEF size
<1>4. /\ AnySpotNext /\ ~Processing' /\ counter' = counter + 1 /\ OnlyMoved(pair, -size)
      /\ \E o \in Orders : /\ Added(Book, Book', o) /\ o.id = counter + 1
                           /\ o.pair = pair /\ o.group = None /\ o.status = Filled
  BY <1>1, <1>3, MarketEffect
<1>5. PICK o \in Orders : /\ Added(Book, Book', o) /\ o.id = counter + 1
                          /\ o.pair = pair /\ o.group = None /\ o.status = Filled
  BY <1>4
<1>6. StopList(Book') /\ FilledKept(Book, Book') /\ counter' = Len(Book')
  <2>1. StopList(Book) /\ counter = Len(Book)
    BY DEF KeeperInv
  <2>2. Len(Book') = Len(Book) + 1
    BY <1>5 DEF Added
  <2>. QED  BY <1>1, <1>4, <1>5, <2>1, <2>2, AddedList
<1>7. \A q \in Pairs : Total(q) \in Nat /\ Total(q)' = IF q = pair THEN 0 ELSE Total(q)
  BY <1>3, <1>4, Amounts DEF OnlyMoved, size
<1>8. ASSUME NEW q \in Pairs
      PROVE  Guarded(q)'
  <2>1. Remembered(q)' = Remembered(q)
    BY DEF Sells, Recalls
  <2>2. CASE q # pair
    <3>1. GuardedBy(Book, q, Total(q), Remembered(q))
      BY <1>1, <2>2 DEF KeeperInv, Guarded
    <3>2. GuardedBy(Book', q, Total(q), Remembered(q))
      BY <1>1, <1>5, <3>1, AddedGuard
    <3>. QED  BY <1>7, <2>1, <2>2, <3>2 DEF Guarded
  <2>3. CASE q = pair
    <3>1. Waits(Book', q) = Waits(Book, q)
      BY <1>1, <1>5, AddedWaits
    <3>. QED  BY <1>2, <1>7, <2>3, <3>1 DEF Guarded, GuardedBy
  <2>. QED  BY <2>2, <2>3
<1>9. BotInv' /\ KeeperInv' /\ orders' = Book'
  BY <1>1, <1>4, <1>6, <1>8, TurnKept
<1>10. TotalsMove
  BY <1>1, <1>7 DEF TotalsMove, Turn
<1>. QED  BY <1>4, <1>6, <1>9, <1>10 DEF KeeperOutcome

\* OnCandle may execute the stop, and then the position is gone with it.
LEMMA BotKept ==
  ASSUME WalletAssumption, SpotInv, BotInv, KeeperInv, Bot,
         UNCHANGED <<activeOrders, stopId, score>>
  PROVE  KeeperOutcome
<1>1. /\ BotStep /\ AnySpotNext /\ BotInv' /\ strategy' = strategy
      /\ Book' = (IF Processing' THEN result' ELSE orders')
      /\ step \in {"idle", "exchange"} /\ step' \notin {"protect", "cancel", "sell"}
  BY BotSteps DEF BotStep, Turn
<1>2. /\ Records' /\ \A q \in Pairs : Remembered(q)' = Remembered(q)
      /\ StopList(Book) /\ counter = Len(Book) /\ FilledKept(orders, Book)
      /\ \A q \in Pairs : Guarded(q)
  BY <1>1 DEF KeeperInv, Records, Remembered
<1>3. \A q \in Pairs : Total(q) \in Nat
  BY Amounts
<1>4. ASSUME Book' = Book, UNCHANGED <<counter, free, lock>>, orders' \in {orders, Book'}
      PROVE  KeeperOutcome
  <2>1. \A q \in Pairs : Total(q)' = Total(q)
    BY <1>4 DEF Total
  <2>2. Len(Book') = Len(Book) /\ FilledKept(Book, Book') /\ FilledKept(orders', Book')
    BY <1>2, <1>4 DEF FilledKept
  <2>3. \A q \in Pairs : Guarded(q)'
    BY <1>2, <1>4, <2>1 DEF Guarded
  <2>4. KeeperInv'
    BY <1>1, <1>2, <1>4, <2>2, <2>3 DEF KeeperInv
  <2>5. TotalsMove
    BY <1>1, <1>3, <2>1 DEF TotalsMove, Turn
  <2>. QED  BY <1>1, <1>4, <2>2, <2>4, <2>5 DEF KeeperOutcome
<1>5. CASE step = "idle" /\ \E c \in Candles : OnCandleBegin(c)
  <2>1. ~Processing /\ Processing'
    <3>1. \A c \in Candles : c # NoCandle
      BY DEF WalletAssumption, NoCandle
    <3>. QED  BY <1>5, <3>1 DEF OnCandleBegin, Processing
  <2>2. UNCHANGED <<free, lock, counter, orders>> /\ result' = orders
    BY <1>5 DEF OnCandleBegin, balances
  <2>3. Book' = Book
    BY <1>1, <2>1, <2>2 DEF Book
  <2>. QED  BY <1>4, <2>2, <2>3
<1>6. CASE OnCandleEnd
  <2>1. Processing /\ ~Processing' /\ orders' = result /\ UNCHANGED <<free, lock, counter>>
    BY <1>6 DEF OnCandleEnd, Processing, balances
  <2>2. Book' = Book /\ orders' = Book'
    BY <1>1, <2>1 DEF Book
  <2>. QED  BY <1>4, <2>1, <2>2
<1>7. ASSUME NEW i \in DOMAIN result, ProcessBuyOrder(i) \/ ProcessSellOrder(i)
      PROVE  KeeperOutcome
  <2>1. Processing /\ result[i].status = New /\ Book = result
    BY <1>7 DEF ProcessBuyOrder, ProcessSellOrder, NextReached, Reached, Book
  <2>2. result[i].side = Sell /\ result[i].group = None /\ i \in DOMAIN Book
    BY <1>2, <2>1 DEF StopList
  <2>3. /\ Processing' /\ UNCHANGED <<counter, orders>>
        /\ Book[i].status = New /\ Changed(Book, Book', i, Filled)
        /\ OnlyMoved(Book[i].pair, -Book[i].qty)
    BY <1>7, <2>2, ExecutionEffect
  <2>4. Filled # New
    BY DEF Filled, New
  <2>5. StopList(Book') /\ FilledKept(Book, Book') /\ counter' = Len(Book')
    <3>1. Len(Book') = Len(Book)
      BY <2>3 DEF Changed
    <3>. QED  BY <1>2, <2>2, <2>3, <2>4, <3>1, ChangedList
  <2>6. FilledKept(orders', Book')
    BY <1>2, <2>3, <2>5 DEF FilledKept
  <2>7. ASSUME NEW q \in Pairs
        PROVE  Guarded(q)' /\ Total(q)' \in Nat /\ Total(q)' <= Total(q)
    <3>1. GuardedBy(Book, q, Total(q), Remembered(q)) /\ Remembered(q)' = Remembered(q)
      BY <1>2 DEF Guarded
    <3>2. CASE q # Book[i].pair
      <4>1. Total(q)' = Total(q)
        BY <1>3, <2>3, <3>2 DEF OnlyMoved
      <4>2. GuardedBy(Book', q, Total(q), Remembered(q))
        BY <2>2, <2>3, <2>4, <3>1, <3>2, ChangedGuard
      <4>. QED  BY <1>3, <3>1, <4>1, <4>2 DEF Guarded
    <3>3. CASE q = Book[i].pair
      <4>1. i \in Waits(Book, q)
        BY <2>2, <2>3, <3>3 DEF Waits
      <4>2. Waits(Book', q) = {} /\ Total(q) > 0 /\ Book[i].qty = Total(q)
        BY <2>2, <2>3, <2>4, <3>1, <4>1, GuardGone
      <4>3. Total(q)' = 0
        BY <1>3, <2>3, <3>3, <4>2 DEF OnlyMoved
      <4>. QED  BY <1>3, <4>2, <4>3 DEF Guarded, GuardedBy
    <3>. QED  BY <3>2, <3>3
  <2>8. KeeperInv'
    BY <1>1, <1>2, <2>5, <2>6, <2>7 DEF KeeperInv
  <2>9. TotalsMove
    <3>1. step # "decide" /\ step # "sell"
      BY <1>1
    <3>. QED  BY <1>3, <2>7, <3>1 DEF TotalsMove, Turn
  <2>. QED  BY <1>1, <2>3, <2>5, <2>8, <2>9 DEF KeeperOutcome
<1>. QED  BY <1>1, <1>5, <1>6, <1>7 DEF BotStep

\* A bare position is free, so the exchange takes the stop and the sale.
LEMMA BareAccepted ==
  ASSUME WalletAssumption, SpotInv, BotInv, KeeperInv, step \in {"protect", "sell"}, NEW price \in Nat
  PROVE  AssetPosition > 0 /\ Accepted(Sell, AssetPosition, price)
<1>1. pair \in Pairs
  BY CandlePair
<1>2. Waits(Book, pair) = {} /\ Total(pair) > 0
  BY <1>1 DEF KeeperInv, Bare
<1>3. free[pair] = AssetPosition
  BY <1>1, <1>2, NothingWaits DEF AssetPosition
<1>. QED  BY <1>1, <1>2, <1>3, SaleSuffices DEF AssetPosition

\* The remembered id finds the pending stop of the pair and nothing else.
StopFound ==
  \/ \E i \in DOMAIN orders : /\ i \in Waits(orders, pair) /\ Known(Remembered(pair)) = {i}
                              /\ orders[i].status = New
  \/ Waits(orders, pair) = {} /\ Known(Remembered(pair)) = {}

LEMMA StopKnown ==
  ASSUME WalletAssumption, SpotInv, BotInv, KeeperInv, step = "cancel"
  PROVE  StopFound
<1>1. pair \in Pairs /\ Book = orders
  BY CandlePair DEF BotInv, Book
<1>2. GuardedBy(orders, pair, Total(pair), Remembered(pair)) /\ Total(pair) > 0 /\ StopList(orders)
  BY <1>1 DEF KeeperInv, Guarded
<1>3. ASSUME NEW i \in DOMAIN orders, Waits(orders, pair) = {i}, orders[i].id = Remembered(pair)
      PROVE  StopFound
  <2>1. orders[i].status = New
    BY <1>3 DEF Waits
  <2>2. Known(Remembered(pair)) = {i}
    BY <1>2, <1>3 DEF Known, StopList
  <2>. QED  BY <1>3, <2>1, <2>2 DEF StopFound
<1>4. CASE Waits(orders, pair) = {} /\ Remembered(pair) = None
  <2>1. \A i \in DOMAIN orders : i # None
    BY <1>1, SpotTypes, ListTypes DEF None
  <2>2. Known(Remembered(pair)) = {}
    BY <1>2, <1>4, <2>1 DEF Known, StopList
  <2>. QED  BY <1>4, <2>2 DEF StopFound
<1>. QED  BY <1>2, <1>3, <1>4 DEF GuardedBy

LEMMA StopTurns ==
  ASSUME WalletAssumption, CallsAssumption, SpotInv, BotInv, KeeperInv,
         strategy \in {"larry", "triple_ema"}, StopNext, UNCHANGED riskVars
  PROVE  KeeperTurn /\ Records'
<1>1. strategy \notin RiskTakers /\ UNCHANGED <<strategy, last, stopId, score>> /\ step # "idle"
  BY DEF StopNext, At, LarryDecides, LarryCancels, LarrySells, LarryEnters, MACDDecides, MACDProtects,
         MACDCancels, MACDSells, TripleDecides, TripleEnters, TripleCancels, TripleSells, PlaceStop,
         Then, riskVars, RiskTakers
<1>2. pair \in Pairs /\ close - 1 \in Nat /\ close \in Nat \ {0}
  BY <1>1, CandlePair
<1>3. InLots(QuotePosition \div 2) \in Int
  BY <1>2, Amounts, LotsInt DEF InLots, QuotePosition
<1>4. activeOrders \in [Pairs -> Nat] /\ None \in Nat /\ orders \in Seq(Orders) /\ Records
  BY SpotTypes DEF KeeperInv, Records, TypeOK, None
<1>5. \A q \in Pairs : Remembered(q) = activeOrders[q] /\ Remembered(q)' = activeOrders'[q]
  BY <1>1 DEF Remembered
<1>6. ASSUME UNCHANGED activeOrders PROVE Records' /\ Recalls
  BY <1>1, <1>4, <1>5, <1>6 DEF Records, Recalls
<1>7. ASSUME NEW id \in Nat, Remember(id)
      PROVE  Records' /\ Mindful(pair) /\ Remembered(pair)' = id
  <2>1. activeOrders' \in [Pairs -> Nat] /\ activeOrders'[pair] = id
        /\ \A q \in Pairs : q # pair => activeOrders'[q] = activeOrders[q]
    BY <1>2, <1>4, <1>7 DEF Remember
  <2>2. Remembered(pair)' = activeOrders'[pair]
    BY <1>1 DEF Remembered, pair
  <2>. QED  BY <1>1, <1>4, <1>5, <2>1, <2>2 DEF Records, Mindful
<1>8. ASSUME NEW size \in Int, Market(Buy, size), Turn("decide", "protect"), AssetPosition <= 0,
             UNCHANGED activeOrders
      PROVE  Enters
  BY <1>1, <1>6, <1>8 DEF Enters, Market
<1>9. CASE LarryDecides
  <2>1. step = "decide" /\ UNCHANGED activeOrders
    BY <1>9 DEF LarryDecides, At
  <2>2. CASE LarryShouldEnter /\ LarryEnters
    BY <1>3, <1>6, <1>8, <2>1, <2>2
       DEF LarryShouldEnter, LarryEnters, Then, Turn, Refused, KeeperTurn, Looks
  <2>3. CASE \/ AssetPosition > 0 /\ ExitDue /\ UNCHANGED vars /\ Then("cancel")
             \/ UNCHANGED vars /\ Then("idle")
    BY <1>6, <2>1, <2>3 DEF Then, Turn, KeeperTurn, Looks
  <2>. QED  BY <1>9, <2>2, <2>3 DEF LarryDecides
<1>10. CASE TripleDecides
  <2>1. step = "decide" /\ UNCHANGED activeOrders
    BY <1>10 DEF TripleDecides, At
  <2>2. CASE AssetPosition <= 0 /\ TripleEnters
    BY <1>3, <1>6, <1>8, <2>1, <2>2 DEF TripleEnters, Then, Turn, Refused, KeeperTurn, Looks
  <2>3. CASE \/ AssetPosition > 0 /\ UNCHANGED vars /\ Then("cancel")
             \/ UNCHANGED vars /\ Then("idle")
    BY <1>6, <2>1, <2>3 DEF Then, Turn, KeeperTurn, Looks
  <2>. QED  BY <1>10, <2>2, <2>3 DEF TripleDecides
<1>11. CASE LarryCancels \/ TripleCancels
  <2>1. step = "cancel" /\ Turn("cancel", "sell") /\ Remember(None)
    BY <1>11 DEF LarryCancels, TripleCancels, CancelRemembered, At, Then, Turn
  <2>2. StopFound /\ Remembered(pair) = activeOrders[pair] /\ New # Filled
    BY <1>2, <1>5, <2>1, StopKnown DEF New, Filled
  <2>3. \/ \E i \in DOMAIN orders : i \in Waits(orders, pair) /\ Cancel(i)
        \/ Waits(orders, pair) = {} /\ UNCHANGED vars
    BY <1>11, <2>2 DEF StopFound, LarryCancels, TripleCancels, CancelRemembered, CancelKnown
  <2>. QED  BY <1>4, <1>7, <2>1, <2>3 DEF KeeperTurn, Cancels
<1>12. CASE LarrySells \/ TripleSells
  <2>1. step = "sell" /\ Turn("sell", "idle") /\ UNCHANGED activeOrders
    BY <1>12 DEF LarrySells, TripleSells, At, Then, Turn
  <2>2. Accepted(Sell, AssetPosition, close)
    BY <1>2, <2>1, BareAccepted
  <2>3. Market(Sell, AssetPosition)
    BY <1>12, <2>2 DEF LarrySells, TripleSells, MarketCall, Refused
  <2>. QED  BY <1>6, <2>1, <2>3 DEF KeeperTurn, Sells, Market
<1>13. CASE PlaceStop(close - 1)
  <2>1. step = "protect" /\ Turn("protect", "idle")
    BY <1>13 DEF PlaceStop, Then, Turn
  <2>2. Accepted(Sell, AssetPosition, close - 1)
    BY <1>2, <2>1, BareAccepted
  <2>3. CreateOrderStop(pair, AssetPosition, close - 1) /\ Remember(NewestId + 1)
    BY <1>13, <2>2 DEF PlaceStop, Refused
  <2>4. NewestId + 1 \in Nat
    BY <1>4, LenProperties DEF NewestId
  <2>. QED  BY <1>2, <1>7, <2>1, <2>3, <2>4 DEF KeeperTurn, Protects
<1>. QED  BY <1>9, <1>10, <1>11, <1>12, <1>13
          DEF StopNext, At, MACDDecides, MACDProtects, MACDCancels, MACDSells

LEMMA RiskInt ==
  ASSUME RiskAssumption, score \in [wins : Nat, losses : Nat, streak : Nat]
  PROVE  Risk \in Int
<1>1. /\ score.streak \in Nat /\ InitialRisk \in Nat /\ LossPenalty \in Nat /\ MaxRisk \in Nat
  BY DEF RiskAssumption
<1>2. score.streak * LossPenalty \in Nat
  BY <1>1, NatProduct
<1>3. InitialRisk \div 2 \in Int /\ InitialRisk - score.streak * LossPenalty \in Int
  BY <1>1, <1>2
<1> DEFINE cautious == Max2(InitialRisk \div 2, InitialRisk - score.streak * LossPenalty)
           base == IF score.streak > 0 THEN cautious ELSE InitialRisk
<1>4. base \in Int
  BY <1>1, <1>3 DEF Max2
<1> HIDE DEF base
<1>5. (base * 6) \div 5 \in Int
  BY <1>4
<1>6. \E b \in BOOLEAN : AdaptiveRisk = IF b THEN Min2(MaxRisk, (base * 6) \div 5) ELSE base
  BY DEF AdaptiveRisk, base
<1>7. AdaptiveRisk \in Int
  BY <1>1, <1>4, <1>5, <1>6 DEF Min2
<1>. QED  BY <1>1, <1>7 DEF Risk

LEMMA SizeInt ==
  ASSUME RiskAssumption, strategy \in RiskTakers, NEW distance \in StopDistances,
         score \in [wins : Nat, losses : Nat, streak : Nat],
         QuotePosition \in Nat, close \in Nat \ {0}
  PROVE  PositionSize(distance) \in Int
<1>1. Risk \in Int /\ distance \in Nat \ {0} /\ RiskScale \in Nat \ {0}
  BY RiskInt DEF RiskAssumption
<1> DEFINE a == QuotePosition * Risk
           b == RiskScale * distance
<1>2. a \in Int /\ b \in Nat \ {0}
  BY <1>1
<1> HIDE DEF a, b
<1>3. a \div b \in Int /\ InLots(QuotePosition) \in Int
  BY <1>2, LotsInt DEF InLots
<1>. QED  BY <1>3 DEF PositionSize, RiskTakers, a, b

LEMMA RiskTurns ==
  ASSUME WalletAssumption, RiskAssumption, SpotInv, BotInv, KeeperInv,
         strategy \in RiskTakers, RiskNext, UNCHANGED stopVars
  PROVE  KeeperTurn /\ Records'
<1>1. UNCHANGED <<strategy, last, activeOrders>> /\ step # "idle"
  BY DEF RiskNext, AtRisk, Enter, Protect, Exit, Stay, OutsideTradingHours, CancelStop, SellOut,
         Then, stopVars
<1>2. pair \in Pairs /\ close \in Nat \ {0}
  BY <1>1, CandlePair
<1>3. stopId \in [Pairs -> Nat] /\ None \in Nat /\ orders \in Seq(Orders) /\ Records
  BY SpotTypes DEF KeeperInv, Records, TypeOK, None
<1>4. \A q \in Pairs : Remembered(q) = stopId[q] /\ Remembered(q)' = stopId'[q]
  BY <1>1 DEF Remembered, RiskTakers
<1>5. ASSUME UNCHANGED stopId PROVE Recalls
  BY <1>4, <1>5 DEF Recalls
<1>6. ASSUME NEW id \in Nat, stopId' = [stopId EXCEPT ![pair] = id]
      PROVE  stopId' \in [Pairs -> Nat] /\ Mindful(pair) /\ Remembered(pair)' = id
  <2>1. stopId' \in [Pairs -> Nat] /\ stopId'[pair] = id
        /\ \A q \in Pairs : q # pair => stopId'[q] = stopId[q]
    BY <1>2, <1>3, <1>6
  <2>2. Remembered(pair)' = stopId'[pair]
    BY <1>1 DEF Remembered, pair, RiskTakers
  <2>. QED  BY <1>4, <2>1, <2>2 DEF Mindful
<1>7. ASSUME UNCHANGED <<stopId, score>> PROVE Records' /\ Recalls
  BY <1>1, <1>3, <1>5, <1>7 DEF Records
<1>8. ASSUME NEW distance \in StopDistances, Enter(distance)
      PROVE  KeeperTurn /\ Records'
  <2>1. PositionSize(distance) \in Int
    BY <1>2, <1>3, Amounts, SizeInt DEF Records, QuotePosition
  <2>2. /\ step = "decide" /\ AssetPosition <= 0 /\ UNCHANGED <<stopId, score>>
        /\ close - distance \in Nat
    BY <1>2, <1>8 DEF Enter, AtRisk, MayEnter, AdaptiveMayEnter, BreakoutMayEnter, RiskAssumption
  <2>3. CASE Refused(Buy, PositionSize(distance), close) /\ Then("idle")
    BY <1>7, <2>2, <2>3 DEF Refused, Then, Turn, KeeperTurn, Looks
  <2>4. CASE /\ Market(Buy, PositionSize(distance)) /\ Then("protect")
             /\ plan' = [size |-> PositionSize(distance), stop |-> close - distance]
    <3>1. /\ PositionSize(distance) \in Nat \ {0}
          /\ CreateOrderMarket(Buy, pair, PositionSize(distance))
          /\ plan'.size = PositionSize(distance) /\ plan'.stop \in Nat
      BY <2>1, <2>2, <2>4 DEF Market
    <3>2. Turn("decide", "protect")
      BY <2>2, <2>4 DEF Then, Turn
    <3>. QED  BY <1>7, <2>2, <3>1, <3>2 DEF KeeperTurn, Enters
  <2>. QED  BY <1>8, <2>3, <2>4 DEF Enter
<1>9. CASE Exit \/ Stay \/ OutsideTradingHours
  <2>1. UNCHANGED <<vars, stopId, score>> /\ step = "decide"
    BY <1>9 DEF Exit, Stay, OutsideTradingHours, AtRisk, riskVars
  <2>. QED  BY <1>7, <1>9, <2>1 DEF Exit, Stay, OutsideTradingHours, Then, Turn, KeeperTurn, Looks
<1>10. CASE Protect
  <2>1. step = "protect" /\ Turn("protect", "idle") /\ UNCHANGED score
    BY <1>10 DEF Protect, AtRisk, Then, Turn
  <2>2. plan.size = AssetPosition /\ plan.stop \in Nat
    BY <1>2, <2>1 DEF KeeperInv, AssetPosition
  <2>3. Accepted(Sell, plan.size, plan.stop)
    BY <2>1, <2>2, BareAccepted
  <2>4. CreateOrderStop(pair, AssetPosition, plan.stop) /\ stopId' = [stopId EXCEPT ![pair] = NewestId + 1]
    BY <1>10, <2>2, <2>3 DEF Protect, Refused
  <2>5. NewestId + 1 \in Nat
    BY <1>3, LenProperties DEF NewestId
  <2>. QED  BY <1>1, <1>3, <1>6, <2>1, <2>2, <2>4, <2>5 DEF KeeperTurn, Protects, Records
<1>11. CASE CancelStop
  <2>1. step = "cancel" /\ Turn("cancel", "sell") /\ UNCHANGED score
        /\ stopId' = [stopId EXCEPT ![pair] = None]
    BY <1>11 DEF CancelStop, AtRisk, Then, Turn
  <2>2. StopFound /\ Remembered(pair) = stopId[pair]
    BY <1>2, <1>4, <2>1, StopKnown
  <2>3. \/ \E i \in DOMAIN orders : i \in Waits(orders, pair) /\ Cancel(i)
        \/ Waits(orders, pair) = {} /\ UNCHANGED vars
    BY <1>11, <2>2 DEF StopFound, CancelStop, CancelKnown
  <2>. QED  BY <1>1, <1>3, <1>6, <2>1, <2>3 DEF KeeperTurn, Cancels, Records
<1>12. CASE SellOut
  <2>1. step = "sell" /\ Turn("sell", "idle") /\ UNCHANGED stopId
    BY <1>12 DEF SellOut, AtRisk, Then, Turn
  <2>2. Accepted(Sell, AssetPosition, close)
    BY <1>2, <2>1, BareAccepted
  <2>3. Market(Sell, AssetPosition) /\ score' \in {score, Scored}
    BY <1>12, <2>2 DEF SellOut, Refused
  <2>4. score' \in [wins : Nat, losses : Nat, streak : Nat]
    <3> DEFINE S == [wins : Nat, losses : Nat, streak : Nat]
               won  == [score EXCEPT !.wins = @ + 1, !.streak = 0]
               lost == [wins |-> score.wins, losses |-> score.losses + 1, streak |-> score.streak + 1]
    <3>1. score \in S
      BY <1>3 DEF Records
    <3>2. won \in S /\ lost \in S
      <4> DEFINE counted == [score EXCEPT !.wins = @ + 1]
      <4>1. counted \in S /\ lost \in S
        BY <3>1
      <4>2. [counted EXCEPT !.streak = 0] \in S
        BY <4>1
      <4>3. won = [counted EXCEPT !.streak = 0]
        OBVIOUS
      <4>. QED  BY <4>1, <4>2, <4>3
    <3>3. Scored \in {won, lost}
      BY DEF Scored
    <3> HIDE DEF S, won, lost
    <3>4. score' \in S
      BY <2>3, <3>1, <3>2, <3>3
    <3>. QED  BY <3>4 DEF S
  <2>. QED  BY <1>1, <1>3, <1>5, <2>1, <2>3, <2>4 DEF KeeperTurn, Sells, Market, Records
<1>. QED  BY <1>8, <1>9, <1>10, <1>11, <1>12 DEF RiskNext

\* Every step of such a strategy is one of these turns.
LEMMA KeeperStep ==
  ASSUME WalletAssumption, CallsAssumption, RiskAssumption, SpotInv, BotInv, KeeperInv,
         strategy \in StopKeepers, TradingNext
  PROVE  KeeperOutcome
<1>1. CASE Bot
  <2>1. UNCHANGED <<activeOrders, stopId, score>>
    BY <1>1 DEF TradingNext, Bot, CandleArrives, ExchangeSettles, BotInv, stopVars, riskVars,
                SignalNext, StopNext, RiskNext, TrendNext, At, AtRisk, StopKeepers,
                Turtle, CrossEMA, OCOSell, CrossEMAMACD, ChatGPT, TrailingEntry, TrailingUpdate,
                SchedulerBegin, SchedulerStep, SchedulerEnd,
                TelegramBuys, TelegramSells, TelegramConverts,
                LarryDecides, LarryCancels, LarrySells, MACDDecides, MACDProtects, MACDCancels,
                MACDSells, TripleDecides, TripleCancels, TripleSells, PlaceStop,
                Enter, Protect, Exit, Stay, OutsideTradingHours, CancelStop, SellOut,
                TrendDecides, TrendSleeps, TrendCancels, TrendEnters, TrendProtects, TrendSells
  <2>. QED  BY <1>1, <2>1, BotKept
<1>2. CASE ~Bot
  <2>1. \/ strategy \in {"larry", "triple_ema"} /\ StopNext /\ UNCHANGED riskVars
        \/ strategy \in RiskTakers /\ RiskNext /\ UNCHANGED stopVars
    BY <1>2 DEF TradingNext, SignalNext, StopNext, RiskNext, TrendNext, At, AtRisk, StopKeepers, RiskTakers,
                Turtle, CrossEMA, OCOSell, CrossEMAMACD, ChatGPT, TrailingEntry, TrailingUpdate,
                SchedulerBegin, SchedulerStep, SchedulerEnd,
                TelegramBuys, TelegramSells, TelegramConverts,
                LarryDecides, LarryCancels, LarrySells, MACDDecides, MACDProtects, MACDCancels,
                MACDSells, TripleDecides, TripleCancels, TripleSells, PlaceStop,
                Enter, Protect, Exit, Stay, OutsideTradingHours, CancelStop, SellOut,
                TrendDecides, TrendSleeps, TrendCancels, TrendEnters, TrendProtects, TrendSells
  <2>2. KeeperTurn /\ Records'
    BY <2>1, StopTurns, RiskTurns
  <2>. QED  BY <2>2, LookKept, EnterKept, ProtectKept, CancelKept, SellKept DEF KeeperTurn
<1>. QED  BY <1>1, <1>2

\* What was executed stays executed also in the list clients see.
LEMMA KeeperExecuted ==
  ASSUME KeeperInv, KeeperOutcome
  PROVE  IdsWith(orders, Filled) \subseteq IdsWith(orders', Filled)
<1>1. /\ FilledKept(orders, Book) /\ FilledKept(Book, Book')
      /\ orders' = orders \/ orders' = Book'
  BY DEF KeeperInv, KeeperOutcome
<1>2. FilledKept(orders, Book')
  BY <1>1 DEF FilledKept
<1>. QED  BY <1>1, <1>2 DEF FilledKept, IdsWith

-----------------------------------------------------------------------------
(* The long-only strategies together *)

LongInv ==
  /\ strategy \in LongOnly => SpotInv /\ BotInv
  /\ strategy \in MarketTraders => AllFilled(Book)
  /\ strategy = "oco_sell" => SaleCovered
  /\ strategy \in StopKeepers => KeeperInv

LEMMA LongInit ==
  ASSUME WalletAssumption, TradingInit
  PROVE  LongInv
<1>1. /\ SpotInv /\ orders = << >> /\ counter = 0 /\ step = "idle" /\ ~Processing
      /\ free = [c \in Coins |-> IF c = Quote THEN InitialQuote ELSE InitialAsset]
      /\ lock = [c \in Coins |-> 0]
  BY InitSpot DEF TradingInit, CallsInit, Init, Processing
<1>2. Book = << >> /\ DOMAIN Book = {} /\ Len(Book) = 0
  BY <1>1 DEF Book
<1>3. BotInv /\ AllFilled(Book) /\ SaleCovered
  BY <1>1, <1>2 DEF BotInv, AllFilled, SaleCovered
<1>4. /\ activeOrders = [p \in Pairs |-> None] /\ stopId = [p \in Pairs |-> None] /\ None \in Nat
      /\ score = [wins |-> 0, losses |-> 0, streak |-> 0]
  BY DEF TradingInit, StopInit, RiskInit, None
<1>5. Records
  BY <1>4 DEF Records
<1>6. ASSUME NEW p \in Pairs PROVE Guarded(p)
  <2>1. Total(p) = InitialAsset /\ InitialAsset \in Nat
    BY <1>1 DEF Total, Coins, WalletAssumption
  <2>2. Remembered(p) = None /\ Waits(Book, p) = {}
    BY <1>2, <1>4 DEF Remembered, Waits
  <2>. QED  BY <2>1, <2>2 DEF Guarded, GuardedBy
<1>7. KeeperInv
  BY <1>1, <1>2, <1>5, <1>6 DEF KeeperInv, StopList, FilledKept
<1>. QED  BY <1>1, <1>3, <1>7 DEF LongInv

LEMMA SameStrategy ==
  ASSUME [TradingNext]_tradingVars
  PROVE  strategy' = strategy
BY DEF TradingNext, tradingVars, callVars, Bot, CandleArrives, ExchangeSettles, Then,
       SignalNext, StopNext, RiskNext, TrendNext,
       Turtle, CrossEMA, OCOSell, CrossEMAMACD, ChatGPT, TrailingEntry, TrailingUpdate,
       SchedulerBegin, SchedulerStep, SchedulerEnd, TelegramBuys, TelegramSells, TelegramConverts,
       LarryDecides, LarryEnters, LarryCancels, LarrySells, MACDDecides, MACDBuys, MACDProtects,
       MACDCancels, MACDSells, TripleDecides, TripleEnters, TripleCancels, TripleSells, PlaceStop,
       Enter, Protect, Exit, Stay, OutsideTradingHours, CancelStop, SellOut,
       TrendDecides, TrendSleeps, TrendCancels, TrendEnters, TrendProtects, TrendSells

LEMMA Groups ==
  /\ LongOnly = MarketTraders \cup {"oco_sell"} \cup StopKeepers
  /\ MarketTraders \cap StopKeepers = {}
  /\ "oco_sell" \notin MarketTraders /\ "oco_sell" \notin StopKeepers
BY DEF LongOnly, MarketTraders, StopKeepers

LEMMA LongStep ==
  ASSUME WalletAssumption, CallsAssumption, RiskAssumption, Interleaved = FALSE,
         LongInv, [TradingNext]_tradingVars
  PROVE  LongInv'
<1>1. strategy' = strategy
  BY SameStrategy
<1>2. CASE UNCHANGED tradingVars
  <2>1. UNCHANGED <<vars, step, last, activeOrders, stopId, score, plan>>
    BY <1>2 DEF tradingVars, callVars, stopVars, riskVars
  <2>2. SpotInv => SpotInv'
    BY <2>1, SpotInvStep
  <2>3. Book' = Book /\ UNCHANGED <<Processing, orders, counter, free, lock, pair, close>>
    BY <2>1 DEF vars, Book, Processing, pair, close
  <2>4. BotInv => BotInv'
    BY <2>1, <2>3 DEF BotInv
  <2>5. AllFilled(Book) => AllFilled(Book')
    BY <2>3
  <2>6. SaleCovered => SaleCovered'
    BY <2>1, <2>3 DEF SaleCovered, InLots
  <2>7. \A p \in Pairs : /\ Total(p)' = Total(p) /\ Remembered(p)' = Remembered(p)
                        /\ Bare(p)' = Bare(p) /\ Guarded(p)' = Guarded(p)
    BY <1>1, <2>1, <2>3 DEF Total, Remembered, Bare, Guarded
  <2>8. KeeperInv => KeeperInv'
    BY <1>1, <2>1, <2>3, <2>7 DEF KeeperInv, Records
  <2>. QED  BY <1>1, <2>2, <2>4, <2>5, <2>6, <2>8 DEF LongInv
<1>3. CASE TradingNext /\ strategy \in MarketTraders
  <2>1. [AnySpotNext]_vars /\ BotInv' /\ AllFilled(Book')
    BY <1>3, Groups, MarketTradersStep DEF LongInv
  <2>2. SpotInv'
    BY <1>3, <2>1, Groups, SpotInvStep DEF LongInv
  <2>. QED  BY <1>1, <1>3, <2>1, <2>2, Groups DEF LongInv
<1>4. CASE TradingNext /\ strategy = "oco_sell"
  <2>1. [AnySpotNext]_vars /\ BotInv' /\ SaleCovered'
    BY <1>4, Groups, OCOStep DEF LongInv
  <2>2. SpotInv'
    BY <1>4, <2>1, Groups, SpotInvStep DEF LongInv
  <2>. QED  BY <1>1, <1>4, <2>1, <2>2, Groups DEF LongInv
<1>5. CASE TradingNext /\ strategy \in StopKeepers
  <2>1. [AnySpotNext]_vars /\ BotInv' /\ KeeperInv'
    BY <1>5, Groups, KeeperStep DEF LongInv, KeeperOutcome
  <2>2. SpotInv'
    BY <1>5, <2>1, Groups, SpotInvStep DEF LongInv
  <2>. QED  BY <1>1, <1>5, <2>1, <2>2, Groups DEF LongInv
<1>6. CASE strategy \notin LongOnly
  BY <1>1, <1>6, Groups DEF LongInv
<1>. QED  BY <1>2, <1>3, <1>4, <1>5, <1>6, Groups

\* What the long-only strategies know and keep true, whatever the candles.
THEOREM LongInvariant == TradingSpec => []LongInv
<1>1. TradingInit => LongInv
  BY WalletAssumption, LongInit
<1>2. LongInv /\ [TradingNext]_tradingVars => LongInv'
  BY WalletAssumption, CallsAssumption, RiskAssumption, SpotAssumption, LongStep
<1>. QED  BY <1>1, <1>2, PTL DEF TradingSpec

\* No strategy without short entries ever owes the exchange an asset, for
\* every signal, price and size: nothing it sells is also for sale in an order
\* it left pending (the exits in src/strategies/, Cancel and OnCandle of
\* exchange/paper_wallet.go).
THEOREM LongStaysLong == TradingSpec => []NeverShort
<1>1. LongInv => NeverShort
  BY Amounts DEF LongInv, NeverShort
<1>. QED  BY <1>1, LongInvariant, PTL

\* Between two candles each position that was bought has one pending stop, for
\* its whole size and under the id the strategy remembers (executeEntry and
\* executeExit of the strategies with a stop order).
THEOREM PositionsProtected ==
  ASSUME InitialAsset = 0
  PROVE  TradingSpec => []HoldingIsProtected
<1>1. LongInv => HoldingIsProtected
  <2>1. SUFFICES ASSUME LongInv, strategy \in StopKeepers, Resting, NEW p \in Pairs
                 PROVE  IF Total(p) > 0
                        THEN \E i \in Waiting(p) : /\ Waiting(p) = {i} /\ orders[i].qty = Total(p)
                                                   /\ orders[i].id = Remembered(p)
                        ELSE Waiting(p) = {}
    BY DEF HoldingIsProtected
  <2>2. KeeperInv /\ BotInv /\ step = "idle"
    BY <2>1, Groups DEF LongInv, Resting
  <2>3. Book = orders /\ Waiting(p) = Waits(Book, p)
    BY <2>2 DEF BotInv, Book, Waiting, Waits
  <2>4. GuardedBy(orders, p, Total(p), Remembered(p))
    BY <2>2, <2>3 DEF KeeperInv, Guarded
  <2>. QED  BY <2>1, <2>3, <2>4 DEF GuardedBy
<1>. QED  BY <1>1, LongInvariant, PTL

\* A strategy with a stop never cancels what the exchange executed already: at
\* its turn the remembered order is still pending, since a stop that executed
\* took the whole position with it (Cancel, exchange/paper_wallet.go).
THEOREM ExecutedStay == TradingSpec => ExecutedStaysExecuted
<1>1. LongInv /\ [TradingNext]_tradingVars =>
        [(strategy \in StopKeepers) =>
           IdsWith(orders, Filled) \subseteq IdsWith(orders', Filled)]_tradingVars
  <2>1. SUFFICES ASSUME LongInv, TradingNext, strategy \in StopKeepers
                 PROVE  IdsWith(orders, Filled) \subseteq IdsWith(orders', Filled)
    OBVIOUS
  <2>2. KeeperOutcome /\ KeeperInv
    BY <2>1, WalletAssumption, CallsAssumption, RiskAssumption, Groups, KeeperStep DEF LongInv
  <2>. QED  BY <2>2, KeeperExecuted
<1>. QED  BY <1>1, LongInvariant, PTL DEF TradingSpec, ExecutedStaysExecuted

-----------------------------------------------------------------------------
(* Larry Williams 9.1 leaves in time *)

\* The counter of a held pair is its age, and at its last candle the exit is
\* under way.
LarryInv ==
  strategy = "larry" =>
    /\ age \in [Pairs -> Nat] /\ barsSinceEntry \in [Pairs -> Nat]
    /\ \A p \in Pairs :
         /\ age[p] <= ExitBars
         /\ Total(p) > 0 => barsSinceEntry[p] = age[p]
         /\ age[p] = ExitBars /\ Total(p) > 0 => p = pair /\ step \in {"cancel", "sell"}

\* The only turn that ages a position is the one that looks at it.
LEMMA LarryStep ==
  ASSUME WalletAssumption, StopAssumption, SpotInv, SpotInv', BotInv, KeeperOutcome, LarryInv,
         strategy = "larry", TradingNext
  PROVE  LarryInv'
<1>1. /\ \A q \in Pairs : Total(q) \in Nat /\ Total(q)' \in Nat
      /\ TotalsMove /\ ExitBars \in Nat \ {0}
      /\ age \in [Pairs -> Nat] /\ barsSinceEntry \in [Pairs -> Nat]
  <2>1. \A q \in Pairs : Total(q) \in Nat
    BY Amounts
  <2>2. \A q \in Pairs : Total(q)' \in Nat
    <3>1. /\ \A c \in Coins : free'[c] >= 0 /\ lock'[c] >= 0
          /\ free' \in [Coins -> Int] /\ lock' \in [Coins -> Int]
      <4>1. TypeOK' /\ NoOverdraft'
        BY SpotTypes, SpotSolvent, PTL
      <4>. QED  BY <4>1 DEF TypeOK, NoOverdraft
    <3>. QED  BY <3>1 DEF Total, Coins
  <2>. QED  BY <2>1, <2>2 DEF KeeperOutcome, StopAssumption, LarryInv
<1>2. CASE Bot
  <2>1. UNCHANGED <<age, barsSinceEntry>> /\ strategy' = strategy
    BY <1>2, SameStrategy
       DEF TradingNext, Bot, CandleArrives, ExchangeSettles, stopVars, StopNext, At,
           LarryDecides, LarryCancels, LarrySells, MACDDecides, MACDProtects, MACDCancels,
           MACDSells, TripleDecides, TripleCancels, TripleSells, PlaceStop
  <2>2. step \in {"idle", "exchange"}
    BY <1>2 DEF Bot, CandleArrives, ExchangeSettles
  <2>3. \A q \in Pairs : Total(q)' <= Total(q)
    BY <1>1, <2>2 DEF TotalsMove, Turn
  <2>. QED  BY <1>1, <2>1, <2>2, <2>3 DEF LarryInv
<1>3. CASE ~Bot
  <2>1. LarryDecides \/ LarryCancels \/ LarrySells \/ PlaceStop(close - 1)
    BY <1>3 DEF TradingNext, SignalNext, StopNext, RiskNext, TrendNext, At, AtRisk,
                Turtle, CrossEMA, OCOSell, CrossEMAMACD, ChatGPT, TrailingEntry, TrailingUpdate,
                SchedulerBegin, SchedulerStep, SchedulerEnd,
                TelegramBuys, TelegramSells, TelegramConverts,
                MACDDecides, MACDProtects, MACDCancels, MACDSells,
                TripleDecides, TripleCancels, TripleSells,
                Enter, Protect, Exit, Stay, OutsideTradingHours, CancelStop, SellOut,
                TrendDecides, TrendSleeps, TrendCancels, TrendEnters, TrendProtects, TrendSells
  <2>2. /\ step # "idle" /\ strategy' = strategy /\ pair' = pair
        /\ step' \in {"idle", "cancel", "protect", "sell"}
    BY <2>1 DEF LarryDecides, LarryEnters, LarryCancels, LarrySells, PlaceStop, At, Then, pair
  <2>3. pair \in Pairs
    BY <2>2, CandlePair
  <2>4. CASE LarryDecides
    <3>1. step = "decide" /\ AssetPosition = Total(pair)
      BY <2>4 DEF LarryDecides, At, AssetPosition
    <3>2. \A q \in Pairs : q # pair => /\ age'[q] = age[q] /\ barsSinceEntry'[q] = barsSinceEntry[q]
                                       /\ Total(q)' <= Total(q)
      BY <1>1, <2>4 DEF LarryDecides, Bars, TotalsMove
    <3>3. /\ age' \in [Pairs -> Nat] /\ barsSinceEntry' \in [Pairs -> Nat]
          /\ age'[pair] = IF Total(pair) > 0 THEN age[pair] + 1 ELSE 0
          /\ barsSinceEntry'[pair] = IF Total(pair) > 0 THEN barsSinceEntry[pair] + 1 ELSE 0
      BY <1>1, <2>3, <2>4, <3>1 DEF LarryDecides, Bars
    <3>4. \A q \in Pairs : Total(q) > 0 => age[q] < ExitBars /\ barsSinceEntry[q] = age[q]
      BY <1>1, <3>1 DEF LarryInv
    <3>5. Total(pair) > 0 /\ barsSinceEntry'[pair] >= ExitBars => step' = "cancel"
      <4>1. barsSinceEntry'[pair] >= ExitBars => ExitDue
        BY <2>4 DEF LarryDecides, ExitDue
      <4>. QED  BY <1>1, <2>3, <2>4, <3>1, <4>1 DEF LarryDecides, LarryShouldEnter, Then
    <3>6. ASSUME NEW q \in Pairs
          PROVE  /\ age'[q] <= ExitBars
                 /\ Total(q)' > 0 => barsSinceEntry'[q] = age'[q]
                 /\ age'[q] = ExitBars /\ Total(q)' > 0 => q = pair /\ step' \in {"cancel", "sell"}
      <4>1. CASE q = pair
        BY <1>1, <2>3, <3>3, <3>4, <3>5, <4>1
      <4>2. CASE q # pair
        BY <1>1, <3>1, <3>2, <3>4, <4>2 DEF LarryInv
      <4>. QED  BY <4>1, <4>2
    <3>. QED  BY <2>2, <3>3, <3>6 DEF LarryInv
  <2>5. CASE LarryCancels
    <3>1. /\ step = "cancel" /\ step' = "sell" /\ UNCHANGED <<age, barsSinceEntry>>
          /\ \A q \in Pairs : Total(q)' <= Total(q)
      BY <1>1, <2>5 DEF LarryCancels, At, Then, TotalsMove, Turn
    <3>. QED  BY <1>1, <2>2, <3>1 DEF LarryInv
  <2>6. CASE LarrySells
    <3>1. /\ step = "sell" /\ step' = "idle" /\ UNCHANGED age
          /\ \A q \in Pairs : Total(q)' <= Total(q) /\ (q = pair => Total(q)' = 0)
      BY <1>1, <2>3, <2>6 DEF LarrySells, At, Then, TotalsMove, Turn
    <3>2. /\ barsSinceEntry' \in [Pairs -> Nat]
          /\ \A q \in Pairs : q # pair => barsSinceEntry'[q] = barsSinceEntry[q]
      BY <1>1, <2>6 DEF LarrySells
    <3>. QED  BY <1>1, <2>2, <3>1, <3>2 DEF LarryInv
  <2>7. CASE PlaceStop(close - 1)
    <3>1. /\ step = "protect" /\ step' = "idle" /\ UNCHANGED <<age, barsSinceEntry>>
          /\ \A q \in Pairs : Total(q)' <= Total(q)
      BY <1>1, <2>7 DEF PlaceStop, Then, TotalsMove, Turn
    <3>. QED  BY <1>1, <2>2, <3>1 DEF LarryInv
  <2>. QED  BY <2>1, <2>4, <2>5, <2>6, <2>7
<1>. QED  BY <1>2, <1>3

\* Larry Williams 9.1 sells a position at the latest when it has seen exitBars
\* candles with it, whatever the exchange executed in between: its counter
\* follows the age of the position, and the exit it starts succeeds
\* (barsSinceEntry and executeExit, strategies/larry_willians_91.go).
THEOREM LarryLeaves == TradingSpec => []HoldsAtMostExitBars
<1> DEFINE Inv == LongInv /\ LarryInv
<1>1. TradingInit => Inv
  <2>1. SUFFICES ASSUME TradingInit PROVE Inv
    OBVIOUS
  <2>2. LongInv
    BY <2>1, WalletAssumption, LongInit
  <2>3. age = [p \in Pairs |-> 0] /\ barsSinceEntry = [p \in Pairs |-> 0] /\ ExitBars \in Nat \ {0}
    BY <2>1, StopAssumption DEF TradingInit, StopInit
  <2>. QED  BY <2>2, <2>3 DEF LarryInv
<1>2. Inv /\ [TradingNext]_tradingVars => Inv'
  <2>1. SUFFICES ASSUME Inv, [TradingNext]_tradingVars PROVE Inv'
    OBVIOUS
  <2>2. LongInv' /\ strategy' = strategy
    BY <2>1, WalletAssumption, CallsAssumption, RiskAssumption, SpotAssumption, LongStep, SameStrategy
  <2>3. CASE strategy # "larry"
    BY <2>2, <2>3 DEF LarryInv
  <2>4. CASE UNCHANGED tradingVars
    BY <2>1, <2>2, <2>4 DEF LarryInv, tradingVars, stopVars, callVars, vars, Total, pair
  <2>5. CASE strategy = "larry" /\ TradingNext
    <3>1. strategy \in LongOnly /\ strategy \in StopKeepers
      BY <2>5 DEF LongOnly, StopKeepers
    <3>2. SpotInv /\ BotInv /\ KeeperInv /\ SpotInv'
      BY <2>1, <2>2, <3>1 DEF LongInv
    <3>3. KeeperOutcome
      BY <2>5, <3>1, <3>2, WalletAssumption, CallsAssumption, RiskAssumption, KeeperStep
    <3>. QED  BY <2>1, <2>2, <2>5, <3>2, <3>3, WalletAssumption, StopAssumption, LarryStep
  <2>. QED  BY <2>1, <2>3, <2>4, <2>5
<1>3. Inv => HoldsAtMostExitBars
  <2>1. SUFFICES ASSUME Inv, strategy = "larry", step = "idle", NEW p \in Pairs
                 PROVE  age[p] <= ExitBars /\ (age[p] = ExitBars => Total(p) = 0)
    BY DEF HoldsAtMostExitBars, Resting
  <2>2. Total(p) \in Nat
    BY <2>1, Amounts DEF LongInv, LongOnly
  <2>. QED  BY <2>1, <2>2 DEF LarryInv
<1>. QED  BY <1>1, <1>2, <1>3, PTL DEF TradingSpec

-----------------------------------------------------------------------------
(* The trend master: how often and how much it buys *)

\* A candle is in hand while the bot works on one.
Hand == step # "idle" => last \in Candles

LEMMA HandPair ==
  ASSUME WalletAssumption, Hand, step # "idle"
  PROVE  pair \in Pairs /\ close \in Nat \ {0}
BY DEF WalletAssumption, Hand, pair, close

LEMMA BotHand ==
  ASSUME Hand, Bot
  PROVE  /\ AnyNext /\ Hand' /\ UNCHANGED strategy
         /\ step \in {"idle", "exchange"} /\ step' \in {"exchange", "decide", "partial", "idle"}
<1>1. ASSUME NEW c \in Candles, CandleArrives(c)
      PROVE  /\ AnyNext /\ Hand' /\ UNCHANGED strategy /\ step = "idle" /\ step' = "exchange"
  BY <1>1 DEF CandleArrives, AnyNext, Hand
<1>2. ASSUME ExchangeSettles
      PROVE  /\ AnyNext /\ Hand' /\ UNCHANGED strategy
             /\ step = "exchange" /\ step' \in {"exchange", "decide", "partial", "idle"}
  BY <1>2 DEF ExchangeSettles, AnyNext, Hand, Then
<1>. QED  BY <1>1, <1>2 DEF Bot

LEMMA CancelTotals ==
  ASSUME TypeOK, WalletAssumption, NEW i \in DOMAIN orders, Cancel(i)
  PROVE  \A c \in Coins : Total(c)' = Total(c)
<1> DEFINE o == orders[i]
           cost == o.price * o.qty
<1>1. /\ o.pair \in Pairs /\ o.qty \in Nat /\ o.price \in Nat
      /\ free \in [Coins -> Int] /\ lock \in [Coins -> Int]
  BY EntryTypes DEF TypeOK, Orders
<1>2. cost \in Nat /\ o.pair \in Coins /\ Quote \in Coins
  BY <1>1, NatProduct DEF Coins
<1>3. \/ /\ free' = [free EXCEPT ![o.pair] = @ + o.qty]
         /\ lock' = [lock EXCEPT ![o.pair] = @ - o.qty]
      \/ /\ free' = [free EXCEPT ![Quote] = @ + cost]
         /\ lock' = [lock EXCEPT ![Quote] = @ - cost]
      \/ UNCHANGED <<free, lock>>
  BY DEF Cancel
<1> HIDE DEF o, cost
<1>. QED  BY <1>1, <1>2, <1>3 DEF Total

LEMMA BuyTotals ==
  ASSUME TypeOK, WalletAssumption, NEW p \in Pairs, NEW size \in Nat \ {0},
         CreateOrderMarket(Buy, p, size)
  PROVE  Total(p)' = Total(p) + size
<1>1. FillFunds(Buy, p, size, lastClose[p])
  BY DEF CreateOrderMarket, FillMarket
<1>2. /\ free \in [Coins -> Int] /\ lock \in [Coins -> Int] /\ p \in Coins /\ p # Quote
      /\ Buy # Sell
  BY DEF TypeOK, Coins, WalletAssumption, Buy, Sell
<1>3. free'[p] = free[p] + size /\ lock' = lock
  BY <1>1, <1>2 DEF FillFunds
<1>. QED  BY <1>2, <1>3 DEF Total

\* Shares are percentages, never negative.
LEMMA ShareNat ==
  ASSUME TrendAssumption, winStreak \in Nat, consecutiveLosses \in Nat, close \in Nat \ {0}
  PROVE  /\ Share(1) \in Nat
         /\ Share(1) <= MaxRiskPercent * close
<1> DEFINE grows == Min2(winStreak * WinIncrease, MaxFactor - 100)
           grown == (Size * (100 + grows)) \div 100
           kept  == Max2(100 - consecutiveLosses * LossReduction, MinFactor)
<1>1. /\ winStreak * WinIncrease \in Nat /\ MaxFactor - 100 \in Nat
      /\ consecutiveLosses * LossReduction \in Nat /\ MinFactor \in Nat /\ Size \in Nat
      /\ MaxRiskPercent * close \in Nat
  BY NatProduct DEF TrendAssumption
<1>2. grows \in Nat /\ kept \in Nat
  BY <1>1 DEF Min2, Max2
<1> HIDE DEF grows, kept
<1>3. Size * (100 + grows) \in Nat
  BY <1>1, <1>2, NatProduct
<1>4. grown \in Nat
  BY <1>3, NatQuotient
<1> HIDE DEF grown
<1>5. grown * kept \in Nat
  BY <1>2, <1>4, NatProduct
<1>6. (grown * kept) \div 100 \in Nat
  BY <1>5, NatQuotient
<1>7. StreakShare = IF consecutiveLosses > 0 THEN (grown * kept) \div 100 ELSE grown
  BY DEF StreakShare, grown, kept, grows
<1>8. StreakShare \in Nat
  BY <1>4, <1>6, <1>7
<1> DEFINE most == MaxRiskPercent * close
           wide == StreakShare * MaxRiskPercent * close
<1>9. StreakShare * MaxRiskPercent \in Nat
  BY <1>8, NatProduct DEF TrendAssumption
<1>10. wide \in Nat
  BY <1>9, NatProduct
<1>11. wide \div 100 \in Nat /\ most \div 1 = most /\ most \in Nat
  BY <1>1, <1>10, NatQuotient
<1>12. Share(1) = Min2(IF 100 > most THEN wide \div 100 ELSE StreakShare, most \div 1)
  BY DEF Share
<1> HIDE DEF most, wide
<1>13. Share(1) = Min2(IF 100 > most THEN wide \div 100 ELSE StreakShare, most)
  BY <1>11, <1>12
<1>. QED  BY <1>8, <1>11, <1>13 DEF Min2, most

\* What a share within the risk buys loses no more than the risk.
LEMMA WithinRisk ==
  ASSUME NEW quote \in Int, NEW share \in Nat, NEW risk \in Nat, NEW price \in Nat \ {0},
         share <= risk * price,
         NEW lots, lots = ((quote * share) \div 100) \div price, lots > 0
  PROVE  100 * lots <= risk * quote
<1> DEFINE spent == quote * share
           whole == spent \div 100
<1>1. spent \in Int
  OBVIOUS
<1> HIDE DEF spent
<1>2. whole \in Int /\ 100 * whole <= spent
  BY <1>1
<1> HIDE DEF whole
<1>3. lots = whole \div price
  BY DEF whole, spent
<1>4. lots \in Int /\ price * lots <= whole
  BY <1>2, <1>3
<1>5. price * lots > 0
  BY <1>4
<1>6. spent > 0
  BY <1>1, <1>2, <1>4, <1>5
<1>7. quote > 0
  BY <1>6 DEF spent
<1>8. quote * share <= quote * (risk * price)
  BY <1>7
<1>9. 100 * (price * lots) <= quote * (risk * price)
  BY <1>1, <1>2, <1>4, <1>8 DEF spent
<1>10. price * (100 * lots) <= price * (risk * quote)
  BY <1>4, <1>9
<1>. QED  BY <1>4, <1>10

\* An entry is only under way for a pair without a position whose trades of
\* the day are not used up.
TrendInv ==
  strategy = "trend" =>
    /\ TypeOK /\ Hand
    /\ bought \in [Pairs -> Nat] /\ dailyTradeCount \in [Pairs -> Nat]
    /\ winStreak \in Nat /\ consecutiveLosses \in Nat
    /\ \A p \in Pairs : bought[p] <= dailyTradeCount[p] /\ dailyTradeCount[p] <= MaxTradesPerDay
    /\ \A p \in Pairs : p = pair =>
         /\ step = "clear" => dailyTradeCount[p] < MaxTradesPerDay /\ Total(p) = 0
         /\ step = "protect" => Total(p) > 0

LEMMA TrendOnly ==
  ASSUME strategy = "trend", TradingNext
  PROVE  \/ Bot /\ UNCHANGED trendVars
         \/ ~Bot /\ TrendNext
BY DEF TradingNext, SignalNext, StopNext, RiskNext, TrendNext, At, AtRisk,
       Turtle, CrossEMA, OCOSell, CrossEMAMACD, ChatGPT, TrailingEntry, TrailingUpdate,
       SchedulerBegin, SchedulerStep, SchedulerEnd, TelegramBuys, TelegramSells, TelegramConverts,
       LarryDecides, LarryCancels, LarrySells, MACDDecides, MACDProtects, MACDCancels,
       MACDSells, TripleDecides, TripleCancels, TripleSells, PlaceStop,
       Enter, Protect, Exit, Stay, OutsideTradingHours, CancelStop, SellOut,
       Bot, CandleArrives, ExchangeSettles,
       TrendDecides, TrendSleeps, TrendCancels, TrendEnters, TrendProtects, TrendSells

LEMMA LotsWithinRisk ==
  ASSUME WalletAssumption, TrendAssumption, TrendInv, strategy = "trend", step # "idle"
  PROVE  /\ Lots(1) \in Int /\ QuotePosition \in Int
         /\ Lots(1) > 0 => 100 * Lots(1) <= MaxRiskPercent * QuotePosition
<1>1. /\ close \in Nat \ {0} /\ MaxRiskPercent \in Nat
      /\ free \in [Coins -> Int] /\ lock \in [Coins -> Int] /\ Quote \in Coins
  BY HandPair DEF TrendInv, TypeOK, Coins, TrendAssumption
<1>2. QuotePosition \in Int
  BY <1>1 DEF QuotePosition, Total
<1>3. Share(1) \in Nat /\ Share(1) <= MaxRiskPercent * close
  BY <1>1, ShareNat DEF TrendInv
<1> DEFINE quote == QuotePosition
           share == Share(1)
           price == close
<1>4. Lots(1) = ((quote * share) \div 100) \div price
  BY DEF Lots, InLots
<1>5. quote \in Int /\ share \in Nat /\ price \in Nat \ {0} /\ share <= MaxRiskPercent * price
  BY <1>1, <1>2, <1>3
<1> HIDE DEF quote, share, price
<1>6. Lots(1) \in Int
  <2>1. (quote * share) \div 100 \in Int
    BY <1>5
  <2>. QED  BY <1>4, <1>5, <2>1, LotsInt
<1>7. Lots(1) > 0 => 100 * Lots(1) <= MaxRiskPercent * quote
  BY <1>1, <1>4, <1>5, WithinRisk
<1>. QED  BY <1>2, <1>6, <1>7 DEF quote

LEMMA TrendStep ==
  ASSUME WalletAssumption, TrendAssumption, TrendInv, strategy = "trend", TradingNext
  PROVE  [AnyNext]_vars /\ TrendInv'
<1>1. /\ TypeOK /\ Hand /\ MaxTradesPerDay \in Nat
      /\ bought \in [Pairs -> Nat] /\ dailyTradeCount \in [Pairs -> Nat]
      /\ winStreak \in Nat /\ consecutiveLosses \in Nat
      /\ \A p \in Pairs : bought[p] <= dailyTradeCount[p] /\ dailyTradeCount[p] <= MaxTradesPerDay
      /\ free \in [Coins -> Int] /\ lock \in [Coins -> Int] /\ Pairs \subseteq Coins
  BY DEF TrendInv, TypeOK, Coins, TrendAssumption
<1>2. strategy' = strategy
  BY SameStrategy
<1> DEFINE Stays ==
             \A p \in Pairs : bought'[p] <= dailyTradeCount'[p] /\ dailyTradeCount'[p] <= MaxTradesPerDay
           Typed == /\ bought' \in [Pairs -> Nat] /\ dailyTradeCount' \in [Pairs -> Nat]
                    /\ winStreak' \in Nat /\ consecutiveLosses' \in Nat
<1>3. ASSUME Bot, UNCHANGED trendVars
      PROVE  [AnyNext]_vars /\ TrendInv'
  <2>1. AnyNext /\ Hand' /\ step' \notin {"clear", "protect"}
    BY <1>1, <1>3, BotHand
  <2>2. TypeOK'
    BY <1>1, <2>1, NextTypes
  <2>. QED  BY <1>1, <1>3, <2>1, <2>2 DEF TrendInv, trendVars
<1>4. ASSUME ~Bot, TrendNext
      PROVE  [AnyNext]_vars /\ TrendInv'
  <2>1. step # "idle" /\ UNCHANGED <<strategy, last>> /\ pair' = pair
    BY <1>4 DEF TrendNext, At, Then, pair,
                TrendDecides, TrendSleeps, TrendCancels, TrendEnters, TrendProtects, TrendSells
  <2>2. pair \in Pairs /\ close \in Nat \ {0} /\ Hand' /\ Buy \in Sides /\ Sell \in Sides
    BY <1>1, <2>1, HandPair DEF Hand, Sides, Buy, Sell
  <2>3. ASSUME [AnyNext]_vars, Typed, Stays,
               \A p \in Pairs : p = pair =>
                 /\ step' = "clear" => dailyTradeCount'[p] < MaxTradesPerDay /\ Total(p)' = 0
                 /\ step' = "protect" => Total(p)' > 0
        PROVE  [AnyNext]_vars /\ TrendInv'
    BY <1>1, <2>1, <2>2, <2>3, NextTypes DEF TrendInv
  <2>4. UNCHANGED vars => \A p \in Pairs : Total(p)' = Total(p)
    BY DEF vars, Total
  <2>5. ASSUME NEW newDay \in BOOLEAN, DayBegins(newDay)
        PROVE  /\ bought' \in [Pairs -> Nat] /\ dailyTradeCount' \in [Pairs -> Nat]
               /\ Stays
    <3>1. None0 \in [Pairs -> Nat] /\ \A p \in Pairs : None0[p] = 0
      BY DEF None0
    <3>. QED  BY <1>1, <2>5, <3>1 DEF DayBegins
  <2>6. ASSUME NEW newDay \in BOOLEAN, NEW trend \in Trends, TrendDecides(newDay, trend)
        PROVE  [AnyNext]_vars /\ TrendInv'
    <3>1. UNCHANGED <<vars, winStreak, consecutiveLosses>> /\ DayBegins(newDay)
      BY <2>6 DEF TrendDecides
    <3>2. step' # "protect" /\ (step' = "clear" => dailyTradeCount'[pair] < MaxTradesPerDay /\ Total(pair) = 0)
      BY <2>6 DEF TrendDecides, Then, AssetPosition
    <3>. QED  BY <1>1, <2>3, <2>4, <2>5, <3>1, <3>2
  <2>7. ASSUME NEW newDay \in BOOLEAN, TrendSleeps(newDay)
        PROVE  [AnyNext]_vars /\ TrendInv'
    <3>1. UNCHANGED <<vars, winStreak, consecutiveLosses>> /\ DayBegins(newDay) /\ step' = "idle"
      BY <2>7 DEF TrendSleeps, Then
    <3>. QED  BY <1>1, <2>3, <2>5, <3>1
  <2>8. CASE TrendCancels
    <3>1. UNCHANGED <<step, bought, dailyTradeCount, winStreak, consecutiveLosses>> /\ step \in {"clear", "unwind"}
      BY <2>8 DEF TrendCancels, Then
    <3>2. PICK id \in ocoIds[pair] : CancelKnown(id)
      BY <2>8 DEF TrendCancels
    <3>3. [AnyNext]_vars /\ \A p \in Pairs : Total(p)' = Total(p)
      <4>1. CASE UNCHANGED vars
        BY <2>4, <4>1
      <4>2. CASE \E i \in Known(id) : Cancel(i)
        BY <1>1, <4>2, CancelTotals DEF Known, AnyNext
      <4>. QED  BY <3>2, <4>1, <4>2 DEF CancelKnown
    <3>. QED  BY <1>1, <2>3, <3>1, <3>3 DEF TrendInv
  <2>9. CASE TrendEnters
    <3>1. step = "clear" /\ UNCHANGED <<winStreak, consecutiveLosses>>
          /\ dailyTradeCount' = [dailyTradeCount EXCEPT ![pair] = @ + 1]
      BY <2>9 DEF TrendEnters, At
    <3>2. dailyTradeCount[pair] < MaxTradesPerDay /\ Total(pair) = 0
      BY <2>2, <3>1 DEF TrendInv
    <3>3. CASE /\ Market(Buy, Lots(1))
               /\ bought' = [bought EXCEPT ![pair] = @ + 1]
               /\ step' \in {"idle", "protect"}
      <4> DEFINE size == Lots(1)
      <4>1. size \in Nat \ {0} /\ CreateOrderMarket(Buy, pair, size)
        BY <2>1, <3>3, LotsWithinRisk DEF Market
      <4> HIDE DEF size
      <4>2. Total(pair) + size > 0 /\ AnyNext
        BY <2>2, <3>2, <4>1 DEF AnyNext
      <4>3. \A p \in Pairs : p = pair => Total(p)' > 0
        BY <1>1, <4>1, <4>2, BuyTotals
      <4>4. Typed /\ Stays
        BY <1>1, <2>2, <3>1, <3>2, <3>3
      <4>. QED  BY <2>3, <3>3, <4>2, <4>3, <4>4
    <3>4. CASE Refused(Buy, Lots(1), close) /\ step' = "idle" /\ UNCHANGED bought
      <4>1. Typed /\ Stays
        BY <1>1, <2>2, <3>1, <3>2, <3>4
      <4>. QED  BY <2>3, <3>4, <4>1 DEF Refused
    <3>. QED  BY <2>9, <3>3, <3>4 DEF TrendEnters, Then
  <2>10. CASE TrendProtects
    <3>1. step = "protect" /\ step' = "idle" /\ UNCHANGED <<bought, dailyTradeCount, winStreak, consecutiveLosses>>
      BY <2>10 DEF TrendProtects, At, Then
    <3>2. AssetPosition \in Nat \ {0} /\ TakeProfitPrice \in Nat /\ close - 1 \in Nat
      BY <1>1, <2>2, <3>1 DEF TrendInv, AssetPosition, TakeProfitPrice, Total
    <3>3. AnyNext
      BY <2>2, <2>10, <3>2 DEF TrendProtects, AnyNext
    <3>. QED  BY <1>1, <2>3, <3>1, <3>3
  <2>11. CASE TrendSells
    <3>1. step' = "idle" /\ UNCHANGED <<bought, dailyTradeCount>>
      BY <2>11 DEF TrendSells, Then
    <3>2. winStreak' \in Nat /\ consecutiveLosses' \in Nat
      <4>1. winStreak' \in {winStreak, winStreak + 1, 0}
        BY <2>11 DEF TrendSells
      <4>2. consecutiveLosses' \in {consecutiveLosses, consecutiveLosses + 1, 0}
        BY <2>11 DEF TrendSells
      <4>. QED  BY <1>1, <4>1, <4>2
    <3>3. AssetPosition \in Int
      BY <1>1, <2>2 DEF AssetPosition, Total
    <3>4. [AnyNext]_vars
      <4>1. Market(Sell, AssetPosition) \/ UNCHANGED vars
        BY <2>11 DEF TrendSells, Refused
      <4>. QED  BY <2>2, <3>3, <4>1 DEF Market, AnyNext
    <3>. QED  BY <1>1, <2>3, <3>1, <3>2, <3>4
  <2>. QED  BY <1>4, <2>6, <2>7, <2>8, <2>9, <2>10, <2>11 DEF TrendNext
<1>. QED  BY <1>3, <1>4, TrendOnly

LEMMA TrendKept ==
  ASSUME WalletAssumption, TrendAssumption, TrendInv, [TradingNext]_tradingVars
  PROVE  TrendInv'
<1>1. strategy' = strategy
  BY SameStrategy
<1>2. CASE strategy # "trend"
  BY <1>1, <1>2 DEF TrendInv
<1>3. CASE UNCHANGED tradingVars
  <2>1. UNCHANGED <<vars, trendVars, callVars, pair>> /\ \A p \in Pairs : Total(p)' = Total(p)
    BY <1>3 DEF tradingVars, vars, callVars, pair, Total
  <2>2. TypeOK => TypeOK'
    BY <2>1, NextTypes
  <2>3. Hand => Hand'
    BY <2>1 DEF Hand, callVars
  <2>. QED  BY <1>1, <2>1, <2>2, <2>3 DEF TrendInv, trendVars, callVars
<1>4. CASE strategy = "trend" /\ TradingNext
  BY <1>4, TrendStep
<1>. QED  BY <1>2, <1>3, <1>4

\* What the trend master keeps true of a day: a purchase of a pair is counted, so
\* its own count is never behind the purchases made (dailyTradeCount, winStreak
\* and consecutiveLosses of strategies/trend_master.go).
THEOREM TrendInvariant == TradingSpec => []TrendInv
<1>1. TradingInit => TrendInv
  <2>1. SUFFICES ASSUME TradingInit PROVE TrendInv
    OBVIOUS
  <2>2. TypeOK /\ Hand /\ step = "idle"
    BY <2>1, WalletAssumption, InitTypes DEF TradingInit, CallsInit, Hand
  <2>3. /\ bought = [p \in Pairs |-> 0] /\ dailyTradeCount = [p \in Pairs |-> 0]
        /\ winStreak = 0 /\ consecutiveLosses = 0 /\ MaxTradesPerDay \in Nat
    BY <2>1, TrendAssumption DEF TradingInit, TrendInit, None0, TrendAssumption
  <2>. QED  BY <2>2, <2>3 DEF TrendInv
<1>2. TrendInv /\ [TradingNext]_tradingVars => TrendInv'
  BY WalletAssumption, TrendAssumption, TrendKept
<1>. QED  BY <1>1, <1>2, PTL DEF TradingSpec

\* The trend master buys a pair no more than MaxTradesPerDay times a day, also
\* when it resets its count, cancels and enters candle by candle
\* (resetDailyTradeCountIfNewDay and executeEntry, strategies/trend_master.go).
THEOREM TradesPerDay == TradingSpec => []DailyLimit
<1>1. TrendInv => DailyLimit
  <2>1. SUFFICES ASSUME TrendInv, strategy = "trend", NEW p \in Pairs
                 PROVE  bought[p] <= MaxTradesPerDay
    BY DEF DailyLimit
  <2>2. /\ bought[p] \in Nat /\ dailyTradeCount[p] \in Nat /\ MaxTradesPerDay \in Nat
        /\ bought[p] <= dailyTradeCount[p] /\ dailyTradeCount[p] <= MaxTradesPerDay
    BY <2>1, TrendAssumption DEF TrendInv, TrendAssumption
  <2>. QED  BY <2>2
<1>. QED  BY <1>1, TrendInvariant, PTL

\* At a stop one tick below, no purchase of the trend master loses more than
\* MaxRiskPercent of its quote coin, for every streak of wins and losses
\* (executeEntry, strategies/trend_master.go).
THEOREM RiskBounded == TradingSpec => RiskLimited
<1> DEFINE Small == strategy = "trend" /\ bought' # bought /\ MarketFill =>
                      100 * LastOrder'.qty <= MaxRiskPercent * QuotePosition
<1>1. TrendInv /\ [TradingNext]_tradingVars => [Small]_tradingVars
  <2>1. SUFFICES ASSUME TrendInv, TradingNext, strategy = "trend", bought' # bought, MarketFill
                 PROVE  100 * LastOrder'.qty <= MaxRiskPercent * QuotePosition
    OBVIOUS
  <2>2. TypeOK /\ Hand
    BY <2>1 DEF TrendInv
  <2>3. orders' # orders
    <3>1. orders \in Seq(Orders)
      BY <2>2 DEF TypeOK
    <3>2. Len(orders) \in Nat
      BY <3>1, LenProperties
    <3>. QED  BY <2>1, <3>2 DEF MarketFill
  <2>4. TrendEnters /\ Market(Buy, Lots(1))
    <3>1. TrendNext
      BY <2>1, TrendOnly DEF trendVars
    <3>. QED  BY <2>1, <2>3, <3>1
              DEF TrendNext, TrendDecides, TrendSleeps, TrendCancels, TrendEnters, TrendProtects,
                  TrendSells, vars
  <2>5. step # "idle"
    BY <2>4 DEF TrendEnters, At
  <2>6. 100 * Lots(1) <= MaxRiskPercent * QuotePosition /\ Lots(1) \in Nat
    BY <2>1, <2>4, <2>5, WalletAssumption, TrendAssumption, LotsWithinRisk DEF Market
  <2>7. LastOrder'.qty = Lots(1)
    <3> DEFINE size == Lots(1)
               o == Order(counter + 1, pair, Buy, "MARKET", Filled, lastClose[pair], None, size, None)
    <3>1. orders' = Append(orders, o)
      BY <2>4 DEF Market, CreateOrderMarket, FillMarket
    <3>2. /\ orders \in Seq(Orders) /\ counter + 1 \in Nat /\ lastClose[pair] \in Nat
          /\ pair \in Pairs /\ None \in Nat /\ size \in Nat
          /\ Buy \in Sides /\ "MARKET" \in Types /\ Filled \in Statuses
      BY <2>2, <2>5, <2>6, HandPair, WalletAssumption DEF TypeOK, Sides, Types, Statuses, None
    <3>3. o \in Orders
      BY <3>2, OrderTypes
    <3>4. o.qty = size
      BY DEF Order
    <3> HIDE DEF o
    <3>5. Added(orders, orders', o)
      BY <3>1, <3>2, <3>3, AppendAdds
    <3>6. orders'[Len(orders')] = o
      BY <3>5 DEF Added
    <3>. QED  BY <3>4, <3>6 DEF LastOrder
  <2>. QED  BY <2>6, <2>7
<1>. QED  BY <1>1, TrendInvariant, PTL DEF TradingSpec, RiskLimited

-----------------------------------------------------------------------------
(* The scheduler: each conditional order once *)

Entries == [side : Sides, size : Nat]

Placed(list, p) == {i \in DOMAIN list : list[i].pair = p}

\* What waits, what is being evaluated and what was executed of a pair.
Scheduled(p) ==
  Len(conditions[p]) + (IF pair = p THEN Len(evaluated) ELSE 0) + Cardinality(Placed(orders, p))

ScheduleInv ==
  strategy = "scheduled" =>
    /\ TypeOK /\ Hand
    /\ evaluated \in Seq(Entries) /\ conditions \in [Pairs -> Seq(Entries)]
    /\ AllFilled(orders) /\ (Processing => result = orders)
    /\ step # "schedule" => evaluated = << >>
    /\ \A p \in Pairs : Scheduled(p) = Len(Schedule)

LEMMA PlacedTypes ==
  ASSUME NEW list \in Seq(Orders), NEW p
  PROVE  IsFiniteSet(Placed(list, p)) /\ Cardinality(Placed(list, p)) \in Nat
<1>1. Placed(list, p) \subseteq DOMAIN list /\ IsFiniteSet(DOMAIN list)
  BY ListTypes DEF Placed
<1>2. IsFiniteSet(Placed(list, p))
  BY <1>1, FS_Subset
<1>. QED  BY <1>2, FS_CardinalityType

LEMMA AddedPlaced ==
  ASSUME NEW old \in Seq(Orders), NEW new, NEW o, Added(old, new, o), NEW p
  PROVE  Cardinality(Placed(new, p)) =
           Cardinality(Placed(old, p)) + (IF o.pair = p THEN 1 ELSE 0)
<1> DEFINE n == Len(old) + 1
<1>1. /\ DOMAIN new = DOMAIN old \cup {n} /\ n \notin DOMAIN old
      /\ new[n] = o /\ \A j \in DOMAIN old : new[j] = old[j]
  BY DEF Added
<1>2. IsFiniteSet(Placed(old, p)) /\ Cardinality(Placed(old, p)) \in Nat
  BY PlacedTypes
<1> HIDE DEF n
<1>3. n \notin Placed(old, p)
  BY <1>1 DEF Placed
<1>4. CASE o.pair = p
  <2>1. Placed(new, p) = Placed(old, p) \cup {n}
    BY <1>1, <1>4 DEF Placed
  <2>2. Cardinality(Placed(old, p) \cup {n}) = Cardinality(Placed(old, p)) + 1
    BY <1>2, <1>3, FS_AddElement
  <2>. QED  BY <1>4, <2>1, <2>2
<1>5. CASE o.pair # p
  <2>1. Placed(new, p) = Placed(old, p)
    BY <1>1, <1>5 DEF Placed
  <2>. QED  BY <1>2, <1>5, <2>1
<1>. QED  BY <1>4, <1>5

LEMMA ScheduledOnly ==
  ASSUME strategy = "scheduled", TradingNext
  PROVE  \/ Bot /\ UNCHANGED signalVars
         \/ SchedulerBegin \/ SchedulerStep \/ SchedulerEnd
BY DEF TradingNext, SignalNext, StopNext, RiskNext, TrendNext, At, AtRisk,
       Turtle, CrossEMA, OCOSell, CrossEMAMACD, ChatGPT, TrailingEntry, TrailingUpdate,
       SchedulerBegin, SchedulerStep, SchedulerEnd, TelegramBuys, TelegramSells, TelegramConverts,
       LarryDecides, LarryCancels, LarrySells, MACDDecides, MACDProtects, MACDCancels,
       MACDSells, TripleDecides, TripleCancels, TripleSells, PlaceStop,
       Enter, Protect, Exit, Stay, OutsideTradingHours, CancelStop, SellOut,
       Bot, CandleArrives, ExchangeSettles,
       TrendDecides, TrendSleeps, TrendCancels, TrendEnters, TrendProtects, TrendSells

\* With everything executed OnCandle finds nothing to do.
LEMMA ScheduleBot ==
  ASSUME WalletAssumption, ScheduleInv, strategy = "scheduled", Bot, UNCHANGED signalVars
  PROVE  ScheduleInv'
<1>1. /\ TypeOK /\ Hand /\ AllFilled(orders) /\ (Processing => result = orders)
      /\ evaluated \in Seq(Entries) /\ conditions \in [Pairs -> Seq(Entries)]
      /\ \A p \in Pairs : Scheduled(p) = Len(Schedule)
  BY DEF ScheduleInv
<1>2. /\ AnyNext /\ Hand' /\ step \in {"idle", "exchange"} /\ step' # "schedule"
      /\ strategy' = strategy
  BY <1>1, BotHand
<1>3. TypeOK'
  BY <1>1, <1>2, NextTypes
<1>4. evaluated = << >> /\ Len(evaluated) = 0 /\ UNCHANGED <<evaluated, conditions>>
  BY <1>2 DEF ScheduleInv, signalVars
<1>5. orders' = orders /\ (Processing' => result' = orders')
  <2>1. ASSUME NEW c \in Candles, CandleArrives(c) PROVE orders' = orders /\ result' = orders'
    BY <2>1 DEF CandleArrives, OnCandleBegin
  <2>2. ASSUME NEW i \in DOMAIN result, ProcessBuyOrder(i) \/ ProcessSellOrder(i) PROVE FALSE
    BY <1>1, <2>2 DEF ProcessBuyOrder, ProcessSellOrder, NextReached, Reached, AllFilled, New, Filled
  <2>3. CASE OnCandleEnd
    BY <1>1, <2>3 DEF OnCandleEnd, Processing
  <2>. QED  BY <2>1, <2>2, <2>3 DEF Bot, ExchangeSettles, OnCandleStep
<1>6. \A p \in Pairs : Scheduled(p)' = Scheduled(p)
  BY <1>4, <1>5 DEF Scheduled
<1>. QED  BY <1>1, <1>2, <1>3, <1>4, <1>5, <1>6 DEF ScheduleInv

\* The scheduler's own steps, all in the goroutine of the candle.
SchedulerTurn == SchedulerBegin \/ SchedulerStep \/ SchedulerEnd

LEMMA ScheduleBegins ==
  ASSUME WalletAssumption, ScheduleInv, strategy = "scheduled", SchedulerBegin
  PROVE  \A p \in Pairs : Scheduled(p)' = Scheduled(p)
<1>1. /\ evaluated = << >> /\ conditions \in [Pairs -> Seq(Entries)] /\ pair \in Pairs
      /\ orders \in Seq(Orders)
  BY HandPair DEF ScheduleInv, SchedulerBegin, At, TypeOK
<1>2. /\ pair' = pair /\ orders' = orders /\ evaluated' = conditions[pair]
      /\ conditions' = [conditions EXCEPT ![pair] = << >>]
  BY DEF SchedulerBegin, Then, pair, vars
<1>3. Len(evaluated) = 0
  BY <1>1
<1>4. TAKE p \in Pairs
<1>5. conditions[p] \in Seq(Entries) /\ Len(conditions[p]) \in Nat
  BY <1>1, LenProperties
<1> DEFINE placed == Cardinality(Placed(orders, p))
<1>6. placed \in Nat
  BY <1>1, PlacedTypes
<1>7. Placed(orders, p)' = Placed(orders, p)
  BY <1>2
<1>8. /\ Scheduled(p) = Len(conditions[p]) + (IF pair = p THEN 0 ELSE 0) + placed
      /\ Scheduled(p)' = Len(conditions'[p]) + (IF pair = p THEN Len(conditions[pair]) ELSE 0) + placed
  BY <1>2, <1>3, <1>7 DEF Scheduled
<1> HIDE DEF placed
<1>9. CASE pair = p
  <2>1. conditions'[p] = << >> /\ Len(<< >>) = 0
    BY <1>1, <1>2, <1>9
  <2>. QED  BY <1>5, <1>6, <1>8, <1>9, <2>1
<1>10. CASE pair # p
  <2>1. conditions'[p] = conditions[p]
    BY <1>1, <1>2, <1>10
  <2>. QED  BY <1>5, <1>6, <1>8, <1>10, <2>1
<1>. QED  BY <1>9, <1>10

\* A condition that is met becomes an order; one that is not goes back.
LEMMA ScheduleSteps ==
  ASSUME WalletAssumption, SpotAssumption, ScheduleInv, strategy = "scheduled", SchedulerStep
  PROVE  /\ [AnyNext]_vars /\ AllFilled(orders') /\ (Processing' => result' = orders')
         /\ evaluated' \in Seq(Entries) /\ conditions' \in [Pairs -> Seq(Entries)]
         /\ \A p \in Pairs : Scheduled(p)' = Scheduled(p)
<1> DEFINE oc == Head(evaluated)
           o == Order(counter + 1, pair, oc.side, "MARKET", Filled, lastClose[pair], None, oc.size, None)
<1>1. /\ evaluated \in Seq(Entries) /\ evaluated # << >>
      /\ conditions \in [Pairs -> Seq(Entries)] /\ pair \in Pairs
      /\ orders \in Seq(Orders) /\ AllFilled(orders) /\ (Processing => result = orders)
      /\ lastClose[pair] \in Nat /\ counter \in Nat
  BY HandPair DEF ScheduleInv, SchedulerStep, At, TypeOK
<1>2. pair' = pair /\ evaluated' = Tail(evaluated)
  BY DEF SchedulerStep, Then, pair
<1>3. /\ oc \in Entries /\ evaluated' \in Seq(Entries) /\ Len(evaluated') \in Nat
      /\ Len(evaluated) = Len(evaluated') + 1
  BY <1>1, <1>2, HeadTailProperties, LenProperties
<1>4. oc.side \in Sides /\ oc.size \in Nat
  BY <1>3 DEF Entries
<1>5. \A p \in Pairs : /\ Len(conditions[p]) \in Nat /\ conditions[p] \in Seq(Entries)
                       /\ Cardinality(Placed(orders, p)) \in Nat
  BY <1>1, LenProperties, PlacedTypes
<1>6. CASE Market(oc.side, oc.size) /\ UNCHANGED conditions
  <2>1. /\ CreateOrderMarket(oc.side, pair, oc.size) /\ oc.size \in Nat \ {0}
        /\ CallAllowed /\ FillMarket(oc.side, pair, oc.size)
    BY <1>4, <1>6 DEF Market, CreateOrderMarket
  <2>2. AnyNext
    BY <1>1, <1>4, <2>1 DEF AnyNext
  <2>3. ~Processing'
    BY <2>1, SpotAssumption DEF CallAllowed, FillMarket, Processing, market
  <2>4. orders' = Append(orders, o)
    BY <2>1 DEF FillMarket
  <2>5. o \in Orders
    <3>1. counter + 1 \in Nat /\ None \in Nat /\ Filled \in Statuses /\ "MARKET" \in Types
      BY <1>1 DEF None, Statuses, Types
    <3>. QED  BY <1>1, <1>4, <3>1, OrderTypes
  <2>6. o.pair = pair /\ o.status = Filled
    BY DEF Order
  <2> HIDE DEF o, oc
  <2>7. Added(orders, orders', o)
    BY <1>1, <2>4, <2>5, AppendAdds
  <2>8. AllFilled(orders')
    BY <1>1, <2>6, <2>7 DEF Added, AllFilled
  <2>9. ASSUME NEW p \in Pairs PROVE Scheduled(p)' = Scheduled(p)
    <3>1. Cardinality(Placed(orders', p)) =
            Cardinality(Placed(orders, p)) + (IF pair = p THEN 1 ELSE 0)
      BY <1>1, <2>6, <2>7, AddedPlaced
    <3>2. Scheduled(p)' = Len(conditions[p]) + (IF pair = p THEN Len(evaluated') ELSE 0)
                            + Cardinality(Placed(orders', p))
      BY <1>2, <1>6 DEF Scheduled
    <3>3. Scheduled(p) = Len(conditions[p]) + (IF pair = p THEN Len(evaluated) ELSE 0)
                           + Cardinality(Placed(orders, p))
      BY DEF Scheduled
    <3>4. /\ Len(conditions[p]) \in Nat /\ Cardinality(Placed(orders, p)) \in Nat
          /\ Len(evaluated') \in Nat /\ Len(evaluated) = Len(evaluated') + 1
      BY <1>3, <1>5
    <3>5. CASE pair = p
      <4>1. Scheduled(p)' = Len(conditions[p]) + Len(evaluated') + (Cardinality(Placed(orders, p)) + 1)
        BY <3>1, <3>2, <3>5
      <4>2. Scheduled(p) = Len(conditions[p]) + (Len(evaluated') + 1) + Cardinality(Placed(orders, p))
        BY <3>3, <3>4, <3>5
      <4> DEFINE a == Len(conditions[p])
                 b == Len(evaluated')
                 c == Cardinality(Placed(orders, p))
      <4>3. a \in Nat /\ b \in Nat /\ c \in Nat
        BY <3>4
      <4> HIDE DEF a, b, c
      <4>4. a + b + (c + 1) = a + (b + 1) + c
        BY <4>3
      <4>. QED  BY <4>1, <4>2, <4>4 DEF a, b, c
    <3>6. CASE pair # p
      BY <3>4, <3>6, <3>1, <3>2, <3>3
    <3>. QED  BY <3>5, <3>6
  <2>. QED  BY <1>1, <1>3, <1>6, <2>2, <2>3, <2>8, <2>9
<1>7. CASE UNCHANGED vars /\ Keep(oc)
  <2> HIDE DEF oc
  <2>1. UNCHANGED <<orders, result, candle>>
    BY <1>7 DEF vars, market
  <2>2. conditions' = [conditions EXCEPT ![pair] = Append(conditions[pair], oc)]
    BY <1>7 DEF Keep
  <2>3. /\ Append(conditions[pair], oc) \in Seq(Entries)
        /\ Len(Append(conditions[pair], oc)) = Len(conditions[pair]) + 1
    BY <1>1, <1>3, <1>5, AppendProperties
  <2>4. conditions' \in [Pairs -> Seq(Entries)]
    BY <1>1, <2>2, <2>3
  <2>5. ASSUME NEW p \in Pairs PROVE Scheduled(p)' = Scheduled(p)
    <3>1. Len(conditions'[p]) = Len(conditions[p]) + (IF pair = p THEN 1 ELSE 0)
      BY <1>1, <1>5, <2>2, <2>3
    <3>2. Placed(orders', p) = Placed(orders, p)
      BY <2>1
    <3>3. Scheduled(p)' = Len(conditions'[p]) + (IF pair = p THEN Len(evaluated') ELSE 0)
                            + Cardinality(Placed(orders, p))
      BY <1>2, <3>2 DEF Scheduled
    <3>4. Scheduled(p) = Len(conditions[p]) + (IF pair = p THEN Len(evaluated) ELSE 0)
                           + Cardinality(Placed(orders, p))
      BY DEF Scheduled
    <3>5. /\ Len(conditions[p]) \in Nat /\ Cardinality(Placed(orders, p)) \in Nat
          /\ Len(evaluated') \in Nat /\ Len(evaluated) = Len(evaluated') + 1
      BY <1>3, <1>5
    <3>6. CASE pair = p
      <4>1. Scheduled(p)' = (Len(conditions[p]) + 1) + Len(evaluated') + Cardinality(Placed(orders, p))
        BY <3>1, <3>3, <3>6
      <4>2. Scheduled(p) = Len(conditions[p]) + (Len(evaluated') + 1) + Cardinality(Placed(orders, p))
        BY <3>4, <3>5, <3>6
      <4> DEFINE a == Len(conditions[p])
                 b == Len(evaluated')
                 c == Cardinality(Placed(orders, p))
      <4>3. a \in Nat /\ b \in Nat /\ c \in Nat
        BY <3>5
      <4> HIDE DEF a, b, c
      <4>4. (a + 1) + b + c = a + (b + 1) + c
        BY <4>3
      <4>. QED  BY <4>1, <4>2, <4>4 DEF a, b, c
    <3>7. CASE pair # p
      BY <3>5, <3>7, <3>1, <3>3, <3>4
    <3>. QED  BY <3>6, <3>7
  <2>6. AllFilled(orders') /\ (Processing' => result' = orders')
    BY <1>1, <2>1 DEF Processing
  <2>. QED  BY <1>3, <1>7, <2>4, <2>5, <2>6
<1>8. (Market(oc.side, oc.size) /\ UNCHANGED conditions) \/ (UNCHANGED vars /\ Keep(oc))
  BY DEF SchedulerStep
<1>. QED  BY <1>6, <1>7, <1>8

LEMMA ScheduleStep ==
  ASSUME WalletAssumption, SpotAssumption, ScheduleInv, [TradingNext]_tradingVars
  PROVE  ScheduleInv'
<1>. SUFFICES ASSUME strategy' = "scheduled" PROVE ScheduleInv'
  BY DEF ScheduleInv
<1>1. CASE TradingNext
  <2>1. strategy = "scheduled"
    BY <1>1, SameStrategy
  <2>2. /\ TypeOK /\ Hand /\ AllFilled(orders) /\ (Processing => result = orders)
        /\ evaluated \in Seq(Entries) /\ conditions \in [Pairs -> Seq(Entries)]
        /\ \A p \in Pairs : Scheduled(p) = Len(Schedule)
    BY <2>1 DEF ScheduleInv
  <2>3. CASE SchedulerBegin
    <3>1. \A p \in Pairs : Scheduled(p)' = Scheduled(p)
      BY <2>1, <2>3, ScheduleBegins
    <3>2. UNCHANGED vars /\ step # "idle" /\ step' = "schedule" /\ last' = last
      BY <2>3 DEF SchedulerBegin, At, Then
    <3>3. TypeOK'
      BY <2>2, <3>2, NextTypes
    <3>4. Hand'
      BY <2>2, <3>2 DEF Hand
    <3>5. UNCHANGED <<orders, result, candle>>
      BY <3>2 DEF vars, market
    <3>6. AllFilled(orders') /\ (Processing' => result' = orders')
      BY <2>2, <3>5 DEF Processing
    <3>7. evaluated' \in Seq(Entries) /\ conditions' \in [Pairs -> Seq(Entries)]
      <4>1. pair \in Pairs /\ << >> \in Seq(Entries)
        BY <2>2, <3>2, HandPair
      <4>. QED  BY <2>2, <2>3, <4>1 DEF SchedulerBegin
    <3>. QED  BY <2>2, <3>1, <3>2, <3>3, <3>4, <3>6, <3>7 DEF ScheduleInv
  <2>4. CASE SchedulerStep
    <3>1. /\ [AnyNext]_vars /\ AllFilled(orders') /\ (Processing' => result' = orders')
          /\ evaluated' \in Seq(Entries) /\ conditions' \in [Pairs -> Seq(Entries)]
          /\ \A p \in Pairs : Scheduled(p)' = Scheduled(p)
      BY <2>1, <2>4, ScheduleSteps
    <3>2. step # "idle" /\ step' = "schedule" /\ last' = last
      BY <2>4 DEF SchedulerStep, At, Then
    <3>3. TypeOK'
      BY <2>2, <3>1, NextTypes
    <3>4. Hand'
      BY <2>2, <3>2 DEF Hand
    <3>. QED  BY <2>2, <3>1, <3>2, <3>3, <3>4 DEF ScheduleInv
  <2>5. CASE SchedulerEnd
    <3>1. /\ UNCHANGED vars /\ step' = "idle" /\ last' = last /\ evaluated = << >>
          /\ UNCHANGED <<evaluated, conditions>>
      BY <2>5 DEF SchedulerEnd, Then, signalVars
    <3>2. TypeOK'
      BY <2>2, <3>1, NextTypes
    <3>3. UNCHANGED <<orders, result, candle, last>> /\ Hand'
      BY <2>2, <3>1 DEF vars, market, Hand
    <3>4. AllFilled(orders') /\ (Processing' => result' = orders')
      BY <2>2, <3>3 DEF Processing
    <3>5. \A p \in Pairs : Scheduled(p)' = Scheduled(p)
      BY <3>1, <3>3 DEF Scheduled, pair
    <3>. QED  BY <2>2, <3>1, <3>2, <3>3, <3>4, <3>5 DEF ScheduleInv
  <2>6. CASE Bot /\ UNCHANGED signalVars
    BY <2>1, <2>6, ScheduleBot
  <2>. QED  BY <1>1, <2>1, <2>3, <2>4, <2>5, <2>6, ScheduledOnly
<1>2. CASE UNCHANGED tradingVars
  <2>1. UNCHANGED <<vars, strategy, step, last, evaluated, conditions>>
    BY <1>2 DEF tradingVars, callVars, signalVars
  <2>2. /\ TypeOK /\ Hand /\ AllFilled(orders) /\ (Processing => result = orders)
        /\ evaluated \in Seq(Entries) /\ conditions \in [Pairs -> Seq(Entries)]
        /\ (step # "schedule" => evaluated = << >>)
        /\ \A p \in Pairs : Scheduled(p) = Len(Schedule)
    BY <2>1 DEF ScheduleInv
  <2>3. TypeOK'
    BY <2>1, <2>2, NextTypes
  <2>4. UNCHANGED <<orders, result, candle>> /\ Hand'
    BY <2>1, <2>2 DEF vars, market, Hand
  <2>5. AllFilled(orders') /\ (Processing' => result' = orders')
    BY <2>2, <2>4 DEF Processing
  <2>6. \A p \in Pairs : Scheduled(p)' = Scheduled(p)
    BY <2>1, <2>4 DEF Scheduled, pair
  <2>. QED  BY <2>1, <2>2, <2>3, <2>4, <2>5, <2>6 DEF ScheduleInv
<1>. QED  BY <1>1, <1>2

LEMMA ScheduleInit ==
  ASSUME WalletAssumption, TradingInit
  PROVE  ScheduleInv
<1>1. /\ TypeOK /\ orders = << >> /\ result = << >> /\ step = "idle"
      /\ conditions = [p \in Pairs |-> Schedule] /\ evaluated = << >>
  BY InitTypes DEF TradingInit, Init, CallsInit, SignalInit
<1>2. Schedule \in Seq(Entries) /\ << >> \in Seq(Entries) /\ Len(Schedule) \in Nat
  BY SignalAssumption, LenProperties DEF Entries
<1>3. AllFilled(orders) /\ Hand
  BY <1>1 DEF AllFilled, Hand
<1>4. \A p \in Pairs : Scheduled(p) = Len(Schedule)
  <2>1. Len(evaluated) = 0
    BY <1>1
  <2>2. ASSUME NEW p \in Pairs PROVE Cardinality(Placed(orders, p)) = 0
    <3>1. Placed(orders, p) = {}
      BY <1>1 DEF Placed
    <3>. QED  BY <3>1, FS_EmptySet
  <2>. QED  BY <1>1, <1>2, <2>1, <2>2 DEF Scheduled
<1>. QED  BY <1>1, <1>2, <1>3, <1>4 DEF ScheduleInv

\* No conditional order of any schedule is lost or executed twice, however often
\* the exchange refuses it: each one waits, is on the list Update walks, or is an
\* order of its pair (Scheduler.Update, strategy/conditional_order.go).
THEOREM ScheduleOnce == TradingSpec => []ScheduledOnce
<1>1. TradingInit => ScheduleInv
  BY WalletAssumption, ScheduleInit
<1>2. ScheduleInv /\ [TradingNext]_tradingVars => ScheduleInv'
  BY WalletAssumption, SpotAssumption, ScheduleStep
<1>3. ScheduleInv => ScheduledOnce
  BY DEF ScheduleInv, ScheduledOnce, Scheduled, Placed
<1>. QED  BY <1>1, <1>2, <1>3, PTL DEF TradingSpec
=============================================================================
