------------------------------ MODULE Download ------------------------------
(***************************************************************************)
(* internal/backtesting/download.go: a file of candles, asked for in       *)
(* batches. Times count intervals of the timeframe, and a candle is its    *)
(* opening time, so the second before a batch lies in the interval before. *)
(***************************************************************************)
EXTENDS Integers, Sequences, SequencesExt

CONSTANTS BatchSize,    \* candles of a batch
          AnswerLimit   \* candles the exchange answers at most

ASSUME DownloadAssumption ==
  BatchSize \in Nat \ {0} /\ AnswerLimit \in Nat /\ AnswerLimit >= BatchSize

Increasing(times) == \A i, j \in DOMAIN times : i < j => times[i] < times[j]

\* BUG: a batch ends where the next one starts.
BatchEndShared(batchStart, end) ==
  IF batchStart + BatchSize < end THEN batchStart + BatchSize ELSE end

\* calculateBatchEnd
BatchEnd(batchStart, end) ==
  IF batchStart + BatchSize < end THEN batchStart + BatchSize - 1 ELSE end

\* The turns of the loop: a batch starts before the end.
BatchStarts(start, end) ==
  [k \in 1 .. (IF start < end THEN (end - start - 1) \div BatchSize + 1 ELSE 0)
     |-> start + (k - 1) * BatchSize]

\* The candles of a period; a history is in order of time.
Window(history, from, to) ==
  LET inside == {i \in DOMAIN history : from <= history[i] /\ history[i] <= to}
  IN  IF inside = {} THEN <<>> ELSE SubSeq(history, Min(inside), Max(inside))

\* What the exchange answers: the first candles of the period.
Answered(candles) == SubSeq(candles, 1, IF Len(candles) > AnswerLimit THEN AnswerLimit ELSE Len(candles))

CandlesByPeriod(history, from, to) == Answered(Window(history, from, to))

BatchesOf(history, start, end) ==
  LET starts == BatchStarts(start, end) IN
  [k \in DOMAIN starts |-> CandlesByPeriod(history, starts[k], BatchEnd(starts[k], end))]

Downloaded(history, start, end) == FlattenSeq(BatchesOf(history, start, end))

\* A batch that is not the last should be full.
MissingCandles(history, start, end) ==
  LET batches == BatchesOf(history, start, end)
      starts  == BatchStarts(start, end)
      missing == [k \in DOMAIN batches |->
                   IF BatchEnd(starts[k], end) # end /\ Len(batches[k]) < BatchSize
                   THEN BatchSize - Len(batches[k]) ELSE 0]
  IN  SumFunctionOnSet(missing, DOMAIN batches)
=============================================================================
