---------------------------- MODULE OrderUpdates ----------------------------
(***************************************************************************)
(* What the bot tells the outside: order.Feed hands the controller's order *)
(* updates to the chart and to the notifier, the data feed hands candles   *)
(* to the chart and then to the bot, and the chart's WebSocketManager      *)
(* sends both to the browsers. Shared are the chart's mutex, the manager's *)
(* RWMutex, whose only reader is the broadcast loop, and each browser's    *)
(* connection, which no lock protects.                                     *)
(***************************************************************************)
EXTENDS Naturals, Sequences, FiniteSets

CONSTANTS Updates,       \* order updates the controller publishes: [id, at]
          Stream,        \* candles of the pair: [time, complete]
          Clients,       \* browsers that watch the pair
          Leavers,       \* those of them that may close the connection
          NoClient,      \* no client
          Scenarios,     \* bounds of one run of the bot: [preloaded, candles, updates, browsers]
          FeedCap,       \* capacity of a feed's Data channel (100)
          BroadcastCap   \* capacity of broadcastChan (100)

NumUpdates == Len(Updates)
NumCandles == Len(Stream)

ASSUME UpdatesAssumption ==
  /\ Leavers \subseteq Clients /\ NoClient \notin Clients
  /\ NumUpdates \in Nat /\ NumCandles \in Nat
  /\ FeedCap \in Nat \ {0} /\ BroadcastCap \in Nat \ {0}

\* A preload hands out finished candles, the older ones first.
ASSUME ScenariosAssumption ==
  \A s \in Scenarios :
    /\ s.updates \in 0..NumUpdates /\ s.browsers \subseteq Clients
    /\ s.candles \in 0..NumCandles /\ s.preloaded \in 0..s.candles
    /\ \A k \in 1..s.preloaded :
         Stream[k].complete /\ (k > 1 => Stream[k].time > Stream[k - 1].time)

VARIABLES scenario,                    \* the bounds of this run
          published,                   \* Publish goroutines that have run
          data, delivering,            \* the order feed of the pair
          candle, candleAt,            \* the data feed: candles passed, and where
          chartLock,                   \* Chart: its mutex,
          charting, candles, orders,   \* whether it knows the pair, what it keeps of it,
          early,                       \* and history: orders taken before any candle
          broadcasting, broadcastChan, \* Broadcast goroutines and their channel
          hub,                         \* the broadcast loop
          conn, initial,               \* clients and their sendInitialData
          view,                        \* the initial data, then all that a browser shows
          overlapped, crashed,         \* writes that met on a connection, and the panic
          overtaken                    \* history: what was written before the initial data

feedVars   == <<published, data, delivering>>
candleVars == <<scenario, candle, candleAt>>
keptVars   == <<charting, candles, orders, early>>
chartVars  == <<chartLock, keptVars>>
castVars   == <<broadcasting, broadcastChan, hub>>
writeVars  == <<view, overlapped, crashed, overtaken>>
clientVars == <<conn, initial, writeVars>>
updateVars == <<feedVars, candleVars, chartVars, castVars, clientVars>>

\* Messages are numbered: updates in the order they reach the feed, then candles.
CandleMessage(k) == NumUpdates + k
Candle(m) == Stream[m - NumUpdates]

Idle == [state |-> "idle", msg |-> 0, todo |-> {}, to |-> NoClient]

\* Bot.Run preloads before the order feed starts; the pair's candles are then
\* in the chart and their broadcasts over, as no browser is there yet.
UpdatesInit ==
  /\ scenario \in Scenarios
  /\ published = 0
  /\ data = <<>> /\ delivering = [at |-> "idle", update |-> 0]
  /\ candle = scenario.preloaded /\ candleAt = "exchange"
  /\ chartLock = "free"
  /\ charting = (candle > 0) /\ candles = [k \in 1..candle |-> CandleMessage(k)]
  /\ orders = {} /\ early = {}
  /\ broadcasting = {} /\ broadcastChan = <<>> /\ hub = Idle
  /\ conn = [c \in Clients |-> "out"] /\ initial = [c \in Clients |-> "none"]
  /\ view = [c \in Clients |-> {}]
  /\ overlapped = {} /\ crashed = FALSE
  /\ overtaken = [c \in Clients |-> {}]

-----------------------------------------------------------------------------
(* order.Feed *)

\* BUG: the send on the channel has no default case.
PublishBlocks ==
  /\ published < scenario.updates /\ Len(data) < FeedCap
  /\ published' = published + 1
  /\ data' = Append(data, published')
  /\ UNCHANGED <<delivering, candleVars, chartVars, castVars, clientVars>>

\* A goroutine that the controller started for an update (module
\* OrderController). They run in any order and as late as they like: updates
\* are numbered in the order they reach the feed. A full channel loses one.
Publish ==
  /\ published < scenario.updates
  /\ published' = published + 1
  /\ data' = IF Len(data) < FeedCap THEN Append(data, published') ELSE data
  /\ UNCHANGED <<delivering, candleVars, chartVars, castVars, clientVars>>

\* processOrdersForPair: the next order, then each subscriber in turn.
TakeOrder ==
  /\ delivering.at = "idle" /\ data # <<>>
  /\ delivering' = [at |-> "chart", update |-> Head(data)]
  /\ data' = Tail(data)
  /\ UNCHANGED <<published, candleVars, chartVars, castVars, clientVars>>

NotifierOnOrder ==
  /\ delivering.at = "notifier"
  /\ delivering' = [at |-> "idle", update |-> 0]
  /\ UNCHANGED <<published, data, candleVars, chartVars, castVars, clientVars>>

-----------------------------------------------------------------------------
(* plot.Chart *)

\* BroadcastOrder and BroadcastCandle in a goroutine of their own.
Broadcast(m) == broadcasting' = broadcasting \cup {m}

\* The chart keeps the last update of an order.
ChartOnOrder ==
  /\ delivering.at = "chart" /\ chartLock = "free"
  /\ LET u == delivering.update IN
       /\ orders' = {v \in orders : Updates[v].id # Updates[u].id} \cup {u}
       /\ early' = IF candles = <<>> THEN early \cup {u} ELSE early
       /\ Broadcast(u)
  /\ delivering' = [delivering EXCEPT !.at = "notifier"]
  /\ UNCHANGED <<published, data, candleVars, chartLock, charting, candles, broadcastChan,
                 hub, clientVars>>

\* The data feed's goroutine: the next candle, first to the chart.
ExchangeSends ==
  /\ candleAt = "exchange" /\ candle < scenario.candles
  /\ candle' = candle + 1 /\ candleAt' = "chart"
  /\ UNCHANGED <<scenario, feedVars, chartVars, castVars, clientVars>>

\* A finished candle later than all before is new to the chart, an unfinished
\* one of the last period corrects that one, and no other is kept.
IsNext(m)    == Candle(m).complete /\
                (candles # <<>> => Candle(m).time > Candle(candles[Len(candles)]).time)
Corrects(m)  == ~Candle(m).complete /\
                candles # <<>> /\ Candle(m).time = Candle(candles[Len(candles)]).time

\* The pair's first candle forgets the orders that came before; every candle is
\* broadcast, kept or not.
ChartOnCandle ==
  /\ candleAt = "chart" /\ chartLock = "free"
  /\ charting' = TRUE
  /\ orders' = IF charting THEN orders ELSE {}
  /\ LET m == CandleMessage(candle) IN
       /\ candles' = CASE IsNext(m)   -> Append(candles, m)
                       [] Corrects(m) -> [candles EXCEPT ![Len(candles)] = m]
                       [] OTHER       -> candles
       /\ Broadcast(m)
  /\ candleAt' = "bot"
  /\ UNCHANGED <<scenario, feedVars, candle, chartLock, early, broadcastChan, hub, clientVars>>

\* candlesByPair: the candles, and at one of them each order that is not older
\* than the first.
Covered(u) == candles # <<>> /\ Updates[u].at >= Candle(candles[1]).time
Shown == {candles[i] : i \in DOMAIN candles} \cup {u \in orders : Covered(u)}

\* Bot.onCandle, which ends at once (module CandleFlow).
BotOnCandle ==
  /\ candleAt = "bot"
  /\ candleAt' = "exchange"
  /\ UNCHANGED <<scenario, feedVars, candle, chartVars, castVars, clientVars>>

-----------------------------------------------------------------------------
(* plot.WebSocketManager *)

Locked == hub.state = "locked"
Registered == {c \in Clients : conn[c] \in {"open", "gone"}}

\* Those that wait for the write lock; Go lets no new reader pass them.
Writers == {c \in Clients : conn[c] \in {"connecting", "gone"} \/ initial[c] = "hub"}

SendBroadcast(m) ==
  /\ m \in broadcasting /\ Len(broadcastChan) < BroadcastCap
  /\ broadcasting' = broadcasting \ {m}
  /\ broadcastChan' = Append(broadcastChan, m)
  /\ UNCHANGED <<feedVars, candleVars, chartVars, hub, clientVars>>

HubReceives ==
  /\ hub.state = "idle" /\ broadcastChan # <<>>
  /\ hub' = [Idle EXCEPT !.state = "received", !.msg = Head(broadcastChan)]
  /\ broadcastChan' = Tail(broadcastChan)
  /\ UNCHANGED <<feedVars, candleVars, chartVars, broadcasting, clientVars>>

\* BUG: browsers that have no initial data yet are passed over.
HubSkipsNewcomers ==
  /\ hub.state = "received" /\ Writers = {}
  /\ hub' = [hub EXCEPT !.state = "locked", !.todo = {c \in Registered : initial[c] = "sent"}]
  /\ UNCHANGED <<feedVars, candleVars, chartVars, broadcasting, broadcastChan, clientVars>>

HubLocks ==
  /\ hub.state = "received" /\ Writers = {}
  /\ hub' = [hub EXCEPT !.state = "locked", !.todo = Registered]
  /\ UNCHANGED <<feedVars, candleVars, chartVars, broadcasting, broadcastChan, clientVars>>

\* What a client had is of no interest once it has left or has no initial data.
Forget(c) ==
  /\ view' = [view EXCEPT ![c] = {}]
  /\ overtaken' = [overtaken EXCEPT ![c] = {}]

\* The connection does not serialize its writers: one that begins while another
\* is at it may panic, which ends the process, or make either of them fail.
Begins(c, meets) ==
  /\ overlapped' = IF meets THEN overlapped \cup {c} ELSE overlapped
  /\ crashed' \in (IF meets THEN {TRUE, FALSE} ELSE {FALSE})

\* The loop may get to a client whose initial data is not written yet.
HubWriteBegins(c) ==
  /\ Locked /\ hub.to = NoClient /\ c \in hub.todo
  /\ hub' = [hub EXCEPT !.todo = @ \ {c}, !.to = c]
  /\ Begins(c, initial[c] = "writing")
  /\ overtaken' = IF conn[c] = "open" /\ initial[c] \in {"ready", "writing"}
                    THEN [overtaken EXCEPT ![c] = @ \cup {hub.msg}] ELSE overtaken
  /\ UNCHANGED <<feedVars, candleVars, chartVars, broadcasting, broadcastChan, conn, initial,
                 view>>

\* WriteJSON returns once the client reads, or because it is gone; there is no
\* write deadline. A browser shows what it is sent after its initial data, and
\* nothing before. After an error the loop closes the connection.
HubWriteEnds(c) ==
  /\ Locked /\ hub.to = c
  /\ hub' = [hub EXCEPT !.to = NoClient]
  /\ \/ /\ view' = IF conn[c] = "open" /\ initial[c] = "sent"
                    THEN [view EXCEPT ![c] = @ \cup {hub.msg}] ELSE view
        /\ UNCHANGED <<conn, overtaken>>
     \/ /\ c \in overlapped /\ conn[c] = "open"
        /\ conn' = [conn EXCEPT ![c] = "gone"]
        /\ Forget(c)
  /\ UNCHANGED <<feedVars, candleVars, chartVars, broadcasting, broadcastChan, initial,
                 overlapped, crashed>>

HubUnlocks ==
  /\ Locked /\ hub.todo = {} /\ hub.to = NoClient
  /\ hub' = Idle
  /\ UNCHANGED <<feedVars, candleVars, chartVars, broadcasting, broadcastChan, clientVars>>

Connect(c) ==
  /\ conn[c] = "out" /\ c \in scenario.browsers
  /\ conn' = [conn EXCEPT ![c] = "connecting"]
  /\ UNCHANGED <<feedVars, candleVars, chartVars, castVars, initial, writeVars>>

\* HandleWebSocket: the client is registered, then its goroutines start.
Register(c) ==
  /\ conn[c] = "connecting" /\ ~Locked
  /\ conn' = [conn EXCEPT ![c] = "open"]
  /\ initial' = [initial EXCEPT ![c] = "chart"]
  /\ UNCHANGED <<feedVars, candleVars, chartVars, castVars, writeVars>>

\* sendInitialData: the chart's lock, then inside it the manager's.
InitialDataLocks(c) ==
  /\ initial[c] = "chart" /\ chartLock = "free"
  /\ chartLock' = c
  /\ initial' = [initial EXCEPT ![c] = "hub"]
  /\ UNCHANGED <<feedVars, candleVars, keptVars, castVars, conn, writeVars>>

\* BUG: the chart's lock is not given back.
InitialDataKeepsLock(c) ==
  /\ initial[c] = "hub" /\ ~Locked
  /\ view' = IF conn[c] = "open" THEN [view EXCEPT ![c] = Shown] ELSE view
  /\ initial' = [initial EXCEPT ![c] = "ready"]
  /\ UNCHANGED <<feedVars, candleVars, chartVars, castVars, conn, overlapped, crashed, overtaken>>

\* The data is collected and both locks are given back.
InitialDataReads(c) ==
  /\ initial[c] = "hub" /\ ~Locked
  /\ view' = IF conn[c] = "open" THEN [view EXCEPT ![c] = Shown] ELSE view
  /\ chartLock' = "free"
  /\ initial' = [initial EXCEPT ![c] = "ready"]
  /\ UNCHANGED <<feedVars, candleVars, keptVars, castVars, conn, overlapped, crashed, overtaken>>

\* It is written later and without a lock.
InitialWriteBegins(c) ==
  /\ initial[c] = "ready"
  /\ initial' = [initial EXCEPT ![c] = "writing"]
  /\ Begins(c, hub.to = c)
  /\ UNCHANGED <<feedVars, candleVars, chartVars, castVars, conn, view, overtaken>>

\* An error is only logged: the client stays registered.
InitialWriteEnds(c) ==
  /\ initial[c] = "writing"
  /\ \/ /\ initial' = [initial EXCEPT ![c] = "sent"]
        /\ UNCHANGED <<view, overtaken>>
     \/ /\ c \in overlapped \/ conn[c] # "open"
        /\ initial' = [initial EXCEPT ![c] = "failed"]
        /\ Forget(c)
  /\ UNCHANGED <<feedVars, candleVars, chartVars, castVars, conn, overlapped, crashed>>

Leave(c) ==
  /\ conn[c] = "open" /\ c \in Leavers
  /\ conn' = [conn EXCEPT ![c] = "gone"]
  /\ Forget(c)
  /\ UNCHANGED <<feedVars, candleVars, chartVars, castVars, initial, overlapped, crashed>>

\* handleClient's deferred call, once reading fails.
Unregister(c) ==
  /\ conn[c] = "gone" /\ ~Locked
  /\ conn' = [conn EXCEPT ![c] = "closed"]
  /\ UNCHANGED <<feedVars, candleVars, chartVars, castVars, initial, writeVars>>

-----------------------------------------------------------------------------
\* What Go's scheduler makes go on: everything but the clients. A panic ends it.
Scheduled ==
  \/ TakeOrder \/ NotifierOnOrder
  \/ ChartOnOrder \/ ExchangeSends \/ ChartOnCandle \/ BotOnCandle
  \/ HubReceives \/ HubLocks \/ HubUnlocks
  \/ \E m \in broadcasting : SendBroadcast(m)
  \/ \E c \in Clients :
       \/ HubWriteBegins(c) \/ Register(c) \/ Unregister(c)
       \/ InitialDataLocks(c) \/ InitialDataReads(c) \/ InitialWriteBegins(c)

UpdatesNext ==
  /\ ~crashed
  /\ \/ Scheduled
     \/ Publish
     \/ \E c \in Clients : Connect(c) \/ HubWriteEnds(c) \/ InitialWriteEnds(c) \/ Leave(c)

\* Nothing is assumed of a client: it may stop reading for ever.
UpdatesSpec ==
  /\ UpdatesInit /\ [][UpdatesNext]_updateVars
  /\ WF_updateVars(~crashed /\ Publish)
  /\ WF_updateVars(~crashed /\ Scheduled)

-----------------------------------------------------------------------------
(* Properties *)

Underway == broadcasting \cup {broadcastChan[i] : i \in DOMAIN broadcastChan}

\* What is owed to a client is on its way to it.
OnItsWay(c, m) ==
  m \in Underway \/ (hub.msg = m /\ (Locked => c \in hub.todo \/ hub.to = c))

Informed(c) == conn[c] = "open" /\ initial[c] \in {"ready", "writing", "sent"}

\* Joining loses nothing but what overtakes the initial data: whatever the chart
\* would show a new browser (Chart.candlesByPair) is in the data of one that
\* joined before (sendInitialData), was sent to it, overtook that data, or is still
\* on its way to it. Orders from before the pair's first stored candle are the
\* other exception: they appear in the chart later without a message.
ClientMissesNothing ==
  \A c \in Clients :
    Informed(c) => \A m \in Shown \ early :
                     m \in view[c] \/ m \in overtaken[c] \/ OnItsWay(c, m)

\* The order controller is never held up by those who watch it: its publishing
\* goroutines end even if a browser stops reading and with it the chart.
PublishersFinish == <>(crashed \/ published = scenario.updates)

\* As long as no browser blocks the broadcast loop for ever, no lock does, and
\* every candle of the exchange gets past the chart to the bot.
CandlesReachBot ==
  ([]~crashed /\ \A c \in Clients : []<>(hub.to # c)) =>
    <>[](candleAt = "exchange" /\ candle = scenario.candles)
=============================================================================
