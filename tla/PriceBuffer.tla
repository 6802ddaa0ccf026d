----------------------------- MODULE PriceBuffer -----------------------------
(***************************************************************************)
(* What is computed from the recent trades of Binance (src/src/types.rs):  *)
(* the trend strength, which gates entries, and a time-weighted average,   *)
(* which is recorded.  A buffer is a sequence of [t, p]; timestamps are    *)
(* the exchange's, may repeat and may go backwards.  Both results are      *)
(* fractions <<numerator, denominator>>.                                   *)
(***************************************************************************)
EXTENDS Prices, Sequences, SequencesExt

CONSTANTS
  MinSpan,      \* the 90 s a trend must span
  MinSamples    \* MIN_TREND_SAMPLES

\* saturating_sub of the last time and the first.
Span(buffer) == Greater(buffer[Len(buffer)].t - buffer[1].t, 0)

\* How far the price moved from each sample to the next.
Moves(buffer) == [i \in 1..Len(buffer) - 1 |-> AbsOf(buffer[i + 1].p - buffer[i].p)]

\* trend_strength: how much of the way was made good.
TrendStrength(buffer) ==
  LET net == AbsOf(buffer[Len(buffer)].p - buffer[1].p)
      gross == SumFunction(Moves(buffer))
  IN IF buffer = <<>> \/ Span(buffer) < MinSpan \/ Len(buffer) < MinSamples
     THEN None
     ELSE IF gross = 0 THEN <<1, 1>> ELSE <<net, gross>>

\* Seeded fault: an interval is weighed from its start, counted or not.
WeighedAgain(acc, from, to, newest) ==
  LET end == Lesser(to.t, newest)
  IN IF to.t <= from.t \/ end <= from.t THEN acc
     ELSE [cursor |-> end,
           sum |-> acc.sum + from.p * (end - from.t),
           weight |-> acc.weight + end - from.t]

\* One interval: a price counts for as long as it stood after the cursor; a
\* timestamp that repeats or goes back counts for nothing.
Weighed(acc, from, to, newest) ==
  LET start == Greater(from.t, acc.cursor)
      end == Lesser(to.t, newest)
  IN IF to.t <= from.t \/ end <= start THEN acc
     ELSE [cursor |-> end,
           sum |-> acc.sum + from.p * (end - start),
           weight |-> acc.weight + end - start]

\* The loop over the intervals, after as many of them.
WeighedUpTo(buffer, window, intervals) ==
  LET newest == buffer[Len(buffer)].t
      acc[i \in 0..Len(buffer) - 1] ==
        IF i = 0
        THEN [cursor |-> Greater(newest - window, 0), sum |-> 0, weight |-> 0]
        ELSE Weighed(acc[i - 1], buffer[i], buffer[i + 1], newest)
  IN acc[intervals]

\* twap: the average over the last window before the newest sample, or None if
\* the buffer does not reach back that far.
Twap(buffer, window) ==
  LET result == WeighedUpTo(buffer, window, Len(buffer) - 1)
  IN IF window = 0 \/ Len(buffer) < 2 \/ Span(buffer) < window \/ result.weight = 0
     THEN None
     ELSE <<result.sum, result.weight>>

-----------------------------------------------------------------------------
(* Properties                                                              *)

\* Whatever the order of the timestamps, an average is one: its weights do not
\* exceed the window (types.rs 270-272) and it lies between the lowest and the
\* highest price; and a trend strength is a share.
BufferSound(buffer, window) ==
  LET average == Twap(buffer, window)
      trend == TrendStrength(buffer)
      prices == {s.p : s \in ToSet(buffer)}
  IN /\ average # None =>
          /\ average[2] \in 1..window
          /\ \E p \in prices : p * average[2] <= average[1]
          /\ \E p \in prices : average[1] <= p * average[2]
     /\ trend # None => trend[1] \in 0..trend[2]
=============================================================================
