----------------------------- MODULE CandleFlow -----------------------------
(***************************************************************************)
(* The way of a candle through the bot: a feed goroutine per pair pushes   *)
(* it on the priority queue; in a backtest the bot waits for all feeds and *)
(* then empties the queue, live it receives from the channel of PopLock,   *)
(* to which one goroutine per pushed candle hands the smallest candle; the *)
(* pair's strategy controller puts it into its dataframe.                  *)
(***************************************************************************)
EXTENDS CandleQueue, CSVResample, Download, FiniteSets

CONSTANTS NumPairs,    \* settings.Pairs, numbered in the order of their names
          Histories,   \* the candles an exchange has: increasing sequences of times
          From, Ends,  \* the periods that are downloaded
          Ratios,      \* target timeframe divided by source timeframe
          Ticks,       \* what a live exchange streams: records of time and n
          Warmup,      \* the strategy's WarmupPeriod
          NoItem       \* the nil that Pop returns from an empty queue

\* An exchange keeps one candle for each period, streams one final candle of it
\* and numbers its updates apart; a download's period has a length (for one
\* without, the loop over the batches makes no request at all).
ASSUME FlowAssumption ==
  /\ NumPairs \in Nat \ {0} /\ Warmup \in Nat \ {0}
  /\ \A r \in Ratios : r \in Nat \ {0}
  /\ From \in Int /\ \A end \in Ends : end \in Int /\ From < end
  /\ \A history \in Histories : history \in Seq(Int) /\ Increasing(history)
  /\ Ticks \in Seq([time : Nat \ {0}, n : Nat]) /\ IsInjective(Ticks)

VARIABLES backtest, highFrequency,  \* how the bot is configured
          ratio, download,          \* of a backtest: what was asked for per pair
          phase, ready,             \* Bot.Run and the pairs it has set up
          source, feed,             \* what the exchange will send, per pair
          heap, callbacks,          \* the queue and its notifyCallbacks
          spawned, sending,         \* callback goroutines before and after Pop
          frame, traded,            \* dataframe rows; candles traded on
          handled, early            \* history: last candle, pushes before PopLock

configVars == <<backtest, highFrequency, ratio, download>>
queueVars  == <<heap, callbacks, spawned, sending, early>>
stratVars  == <<frame, traded, handled>>
flowVars   == <<configVars, phase, ready, source, feed, queueVars, stratVars>>

Pairs == 1..NumPairs

\* A live exchange streams each period as updates and then a final candle
\* (n = 2); the first period follows the warm-up candles.
Streamed(p, t, n) == [pair |-> p, time |-> t, n |-> n, complete |-> n = 2]
Stream(p) == [k \in DOMAIN Ticks |-> Streamed(p, Warmup + Ticks[k].time, Ticks[k].n)]

\* The complete candles CandlesByLimit answers for the warm-up.
WarmupCandles(p) == [t \in 1..Warmup |-> Streamed(p, t, 2)]

Downloads == [history : Histories, end : Ends]
FileOf(d) == Downloaded(d.history, From, d.end)

\* What the pair's CandlesSubscription will send.
Subscription(p) == IF backtest THEN Resample(p, FileOf(download[p]), ratio) ELSE Stream(p)

FlowInit ==
  /\ backtest \in BOOLEAN /\ highFrequency \in BOOLEAN
  /\ ratio \in Ratios /\ download \in [Pairs -> Downloads]
  /\ ~backtest => /\ ratio = CHOOSE r \in Ratios : TRUE
                  /\ download = [p \in Pairs |-> CHOOSE d \in Downloads : TRUE]
  /\ backtest => ~highFrequency    \* a file has no partial candles
  /\ phase = "setup" /\ ready = 0
  /\ source = [p \in Pairs |-> Subscription(p)]
  /\ feed = [p \in Pairs |-> "off"]
  /\ heap = NewPriorityQueue(<<>>) /\ callbacks = 0
  /\ spawned = 0 /\ sending = {} /\ early = 0
  /\ frame = [p \in Pairs |-> <<>>] /\ traded = [p \in Pairs |-> <<>>]
  /\ handled = NoItem

-----------------------------------------------------------------------------
(* strategy.Controller *)

\* UpdateDataFrame: a candle of the last row's time replaces that row.
UpdateDataFrame(rows, c) ==
  IF rows # <<>> /\ Last(rows).time = c.time
  THEN Append(Front(rows), c) ELSE Append(rows, c)

HasSufficientData(rows) == Len(rows) >= Warmup

\* BUG: no candle is late.
NeverLate(rows, c) == FALSE

IsLateCandle(rows, c) == rows # <<>> /\ c.time < Last(rows).time

\* OnPartialCandle and OnCandle of the candle's pair.
Handle(c) ==
  LET rows     == frame[c.pair]
      accepted == IF c.complete THEN ~IsLateCandle(rows, c)
                  ELSE highFrequency /\ HasSufficientData(rows)
      after    == IF accepted THEN UpdateDataFrame(rows, c) ELSE rows
  IN /\ frame' = [frame EXCEPT ![c.pair] = after]
     /\ traded' = IF accepted /\ c.complete /\ HasSufficientData(after)
                  THEN [traded EXCEPT ![c.pair] = Append(@, c.time)] ELSE traded
     /\ handled' = c

-----------------------------------------------------------------------------
(* Bot.Run and the data feeds *)

\* One turn of the set-up loop. A live bot fills the dataframe with the warm-up
\* candles while the pair's controller is not started.
SetUp ==
  /\ phase = "setup" /\ ready < NumPairs
  /\ ready' = ready + 1
  /\ frame' = IF backtest THEN frame
              ELSE [frame EXCEPT ![ready'] = WarmupCandles(ready')]
  /\ UNCHANGED <<configVars, phase, source, feed, queueVars, traded, handled>>

\* dataFeed.Start; only a backtest waits there for the feeds.
StartFeeds ==
  /\ phase = "setup" /\ ready = NumPairs
  /\ feed' = [p \in Pairs |-> "open"]
  /\ phase' = "started"
  /\ UNCHANGED <<configVars, ready, source, queueVars, stratVars>>

\* BUG: one callback for each pair.
PopLockPerPair == callbacks' = callbacks + NumPairs

PopLock == callbacks' = callbacks + 1

\* A live bot asks for the queue's channel once the feeds already run.
ProcessCandles ==
  /\ phase = "started" /\ ~backtest
  /\ PopLock
  /\ phase' = "running"
  /\ UNCHANGED <<configVars, ready, source, feed, heap, spawned, sending, early, stratVars>>

\* A feed goroutine passes its next candle to onCandle, which pushes it.
FeedSends(p) ==
  /\ feed[p] = "open" /\ source[p] # <<>>
  /\ source' = [source EXCEPT ![p] = Tail(@)]
  /\ heap' = Pushed(heap, Head(source[p]))
  /\ spawned' = spawned + callbacks
  /\ early' = early + (IF callbacks = 0 THEN 1 ELSE 0)
  /\ UNCHANGED <<configVars, phase, ready, feed, callbacks, sending, stratVars>>

\* The live connection is lost and opened again; what was sent meanwhile is not
\* asked for later.
Reconnects(p) ==
  /\ ~backtest /\ feed[p] = "open" /\ source[p] # <<>>
  /\ source' = [source EXCEPT ![p] = Tail(@)]
  /\ UNCHANGED <<configVars, phase, ready, feed, queueVars, stratVars>>

\* BUG: the channel of a feed that has sent everything stays open.
FeedLeftOpen(p) ==
  /\ feed[p] = "open" /\ source[p] = <<>> /\ backtest
  /\ UNCHANGED flowVars

\* A file ends, or a live connection cannot be opened again: the channels are
\* closed and processFeed returns.
FeedEnds(p) ==
  /\ feed[p] = "open" /\ (backtest => source[p] = <<>>)
  /\ feed' = [feed EXCEPT ![p] = "closed"]
  /\ UNCHANGED <<configVars, phase, ready, source, queueVars, stratVars>>

\* BUG: a backtest does not wait for its feeds.
FeedsStarted == \A p \in Pairs : feed[p] # "off"

FeedsFinished == \A p \in Pairs : feed[p] = "closed"

\* backtestCandles: one turn of the loop, and its end.
BacktestCandle ==
  /\ phase = "started" /\ backtest /\ FeedsFinished /\ heap # <<>>
  /\ Handle(heap[1])
  /\ heap' = Popped(heap)
  /\ UNCHANGED <<configVars, phase, ready, source, feed, callbacks, spawned, sending, early>>

BacktestEnds ==
  /\ phase = "started" /\ backtest /\ FeedsFinished /\ heap = <<>>
  /\ phase' = "done"
  /\ UNCHANGED <<configVars, ready, source, feed, queueVars, stratVars>>

\* A callback goroutine pops and is left with the send on the channel.
CallbackPops ==
  /\ spawned > 0
  /\ spawned' = spawned - 1
  /\ sending' = sending \cup {IF heap = <<>> THEN NoItem ELSE heap[1]}
  /\ heap' = Popped(heap)
  /\ UNCHANGED <<configVars, phase, ready, source, feed, callbacks, early, stratVars>>

\* processCandles receives from any goroutine that is sending.
Receive ==
  /\ phase = "running"
  /\ \E c \in sending \ {NoItem} : Handle(c) /\ sending' = sending \ {c}
  /\ UNCHANGED <<configVars, phase, ready, source, feed, heap, callbacks, spawned, early>>

FlowNext ==
  \/ SetUp \/ StartFeeds \/ ProcessCandles
  \/ \E p \in Pairs : FeedSends(p) \/ Reconnects(p) \/ FeedEnds(p)
  \/ BacktestCandle \/ BacktestEnds
  \/ CallbackPops \/ Receive

\* Go runs every goroutine that can go on; a live exchange may send nothing.
FlowFairness ==
  /\ WF_flowVars(SetUp \/ StartFeeds \/ ProcessCandles)
  /\ \A p \in Pairs : WF_flowVars(backtest /\ (FeedSends(p) \/ FeedEnds(p)))
  /\ WF_flowVars(BacktestCandle \/ BacktestEnds)
  /\ WF_flowVars(CallbackPops) /\ WF_flowVars(Receive)

FlowSpec == FlowInit /\ [][FlowNext]_flowVars /\ FlowFairness
-----------------------------------------------------------------------------
(* Properties *)

Queued == {heap[i] : i \in DOMAIN heap}

Queue == INSTANCE PriorityBag WITH bag <- Queued, Smaller <- Less

\* The array with its two moving holes is a bag from which only a smallest
\* candle is taken, whatever order the feeds push in and the callbacks pop in.
QueueIsPriorityBag == Queue!Spec

\* Live, the queue holds one candle for each callback still to pop and, for
\* ever, as many as the feeds had pushed before PopLock: the bot stays that many
\* candles behind, and no callback meets an empty queue.
QueueLag == ~backtest => Len(heap) = early + spawned

\* The candles of all pairs in one sequence of time, in a backtest.
BacktestInOrder ==
  [][backtest /\ handled # NoItem => ~Less(handled', handled)]_handled

Volume(rows) == SumFunctionOnSet([i \in DOMAIN rows |-> rows[i].volume], DOMAIN rows)

\* The file has every candle that the exchange had in the period once, in order,
\* but perhaps the one at its very end; what it reports as missing is missing.
FileIsWhole(d) ==
  LET batchStarts == BatchStarts(From, d.end) IN
  /\ FileOf(d) \in {Window(d.history, From, d.end), Window(d.history, From, d.end - 1)}
  /\ MissingCandles(d.history, From, d.end)
       = Cardinality((From .. Last(batchStarts) - 1) \ Range(d.history))

Gapless(times) == \A i \in 2..Len(times) : times[i] = times[i - 1] + 1

\* Of a file without gaps, a coarser timeframe makes whole aligned periods;
\* only what the file ends with may be shorter.
PeriodsAreWhole(p) ==
  ratio > 1 /\ Gapless(FileOf(download[p])) =>
    \A i \in 1..(Len(frame[p]) - 1) :
      LET c == frame[p][i]
      IN c.time % ratio = 0 /\ c.last = c.time + ratio - 1 /\ c.volume = ratio

\* A finished backtest has seen the history it was to be run on: the download
\* left nothing out, every candle of the file, from the first whole period on,
\* is in exactly one row of the dataframe, the rows are whole periods, and the
\* strategy was shown every row from the end of the warm-up on.
BacktestSeesHistory ==
  phase = "done" =>
    \A p \in Pairs :
      LET file == FileOf(download[p]) IN
      /\ FileIsWhole(download[p])
      /\ Volume(frame[p]) = Len(file) - StartIndex(file, ratio) + 1
      /\ PeriodsAreWhole(p)
      /\ \A i \in 1..Len(frame[p]) :
           i >= Warmup <=> frame[p][i].time \in Range(traded[p])

\* Although the callbacks may swap candles, a strategy that is not called for
\* partial candles never trades on a period twice or on one before the last.
StrategyMovesForward ==
  [][\A p \in Pairs : ~highFrequency /\ Len(traded[p]) > 0 /\ traded'[p] # traded[p]
       => Last(traded'[p]) > Last(traded[p])]_traded

\* A backtest ends; live, no candle is left in a callback goroutine.
NothingInFlight ==
  <>[](IF backtest THEN phase = "done" ELSE spawned = 0 /\ sending = {})
=============================================================================
