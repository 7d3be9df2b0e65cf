----------------------------- MODULE CSVResample ----------------------------
(***************************************************************************)
(* exchange/csv_feed.go: the candles of a file, grouped into periods of    *)
(* the target timeframe. Times count source timeframes from a boundary of  *)
(* the target timeframe, so a period is `ratio` consecutive times.         *)
(***************************************************************************)
EXTENDS Integers, Sequences, SequencesExt

\* BUG: a period ends with its first candle.
LastOneEarly(time, ratio) == time % ratio = 0

\* isLastCandlePeriod, isTimeOnPeriodBoundary, isFistCandlePeriod.
LastOfPeriod(time, ratio)  == (time + 1) % ratio = 0
FirstOfPeriod(time, ratio) == LastOfPeriod(time - 1, ratio)

\* findFirstPeriodCandle: without one, the file is taken from its beginning.
StartIndex(file, ratio) ==
  LET first == {i \in DOMAIN file : FirstOfPeriod(file[i], ratio)}
  IN IF first = {} THEN 1 ELSE CHOOSE i \in first : \A j \in first : i <= j

Opened(pair, time) ==
  [pair |-> pair, time |-> time, n |-> 0, complete |-> TRUE, last |-> time, volume |-> 1]

Merged(candle, time) == [candle EXCEPT !.last = time, !.volume = @ + 1]

\* One turn of the loop: rows, of which the last may be open. The candle that
\* opens a period is not asked whether it ends it as well.
Grouped(acc, pair, time, ratio) ==
  IF ~acc.open
  THEN [rows |-> Append(acc.rows, Opened(pair, time)), open |-> TRUE]
  ELSE [rows |-> [acc.rows EXCEPT ![Len(acc.rows)] = Merged(@, time)],
        open |-> ~LastOfPeriod(time, ratio)]

\* resample, the turns one by one. A period that is open at the end of the file
\* is kept, because every candle read from a file is marked complete.
Resample(pair, file, ratio) ==
  LET first == StartIndex(file, ratio)
      after[i \in first - 1 .. Len(file)] ==
        IF i < first THEN [rows |-> <<>>, open |-> FALSE]
        ELSE Grouped(after[i - 1], pair, file[i], ratio)
  IN  after[Len(file)].rows
=============================================================================
