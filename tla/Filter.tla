-------------------------------- MODULE Filter --------------------------------
(***************************************************************************)
(* epic-adcfilter: the moving average over a ring that keeps its sum, and  *)
(* oversampling, in words of a few bits.                                   *)
(***************************************************************************)
EXTENDS Integers, Sequences, Functions

CONSTANTS Counts,      \* window lengths
          Samples,     \* what the converter delivers
          WordBits,    \* bits of the result; the sums have twice as many
          ExtraBits,   \* of oversampling
          MaxPushes    \* bound: samples pushed

VARIABLES avg,     \* epic_adcfilter_avg_t
          pushed,  \* all samples so far
          mean     \* what the last call returned

filterVars == <<avg, pushed, mean>>

Word(x) == x % 2 ^ WordBits
Wide(x) == x % 2 ^ (2 * WordBits)
Total(s) == SumFunction(s)

\* epic_adcfilter_oversample on the readings read(ctx) gives, one after the other.
Oversample(readings, extra) == Word(FoldFunction(LAMBDA r, sum : Wide(sum + r), 0, readings) \div 2 ^ extra)

AvgInit(buf, count) == [buf |-> buf, count |-> count, index |-> 0, filled |-> 0, sum |-> 0]

\* The caller's buffer holds anything at first.
Init ==
  /\ avg \in {AvgInit([i \in 0 .. c - 1 |-> s], c) : c \in Counts, s \in Samples}
  /\ pushed = <<>>
  /\ mean = 0

\* The filter is set up again, over a buffer that still holds the old samples.
Again ==
  /\ pushed # <<>>
  /\ avg' = AvgInit(avg.buf, avg.count)
  /\ pushed' = <<>> /\ mean' = 0

Stored(s, sum) ==
  [avg EXCEPT !.buf[avg.index] = s, !.sum = Wide(sum + s),
              !.index = IF avg.index + 1 >= avg.count THEN 0 ELSE avg.index + 1]

PushFilling(s) ==
  /\ avg.filled < avg.count
  /\ avg' = [Stored(s, avg.sum) EXCEPT !.filled = @ + 1]
  /\ mean' = Word(avg'.sum \div avg'.filled)

\* Faulty: the sample evicted is the newest one.
PushFullNewest(s) ==
  /\ avg.filled = avg.count
  /\ avg' = Stored(s, avg.sum - avg.buf[(avg.index + avg.count - 1) % avg.count])
  /\ mean' = Word(avg'.sum \div avg.count)

PushFull(s) ==
  /\ avg.filled = avg.count
  /\ avg' = Stored(s, avg.sum - avg.buf[avg.index])
  /\ mean' = Word(avg'.sum \div avg.count)

Push(s) ==
  /\ Len(pushed) < MaxPushes
  /\ PushFilling(s) \/ PushFull(s)
  /\ pushed' = Append(pushed, s)

Next == Again \/ \E s \in Samples : Push(s)
-----------------------------------------------------------------------------
\* The average returned is the mean of the last samples, as many as the window holds
\* or as have come, however often the ring went round and whatever its buffer held.
AverageIsMean ==
  LET n == IF Len(pushed) < avg.count THEN Len(pushed) ELSE avg.count
  IN pushed # <<>> => mean = Total(SubSeq(pushed, Len(pushed) - n + 1, Len(pushed))) \div n

\* Oversampling by n bits returns 2^n times the mean of its 4^n readings, where the
\* word holds that.
OversampleScales ==
  pushed = <<>> =>
    \A n \in 0 .. ExtraBits : \A readings \in [1 .. 4 ^ n -> Samples] :
      LET due == (2 ^ n * Total(readings)) \div 4 ^ n
      IN due < 2 ^ WordBits => Oversample(readings, n) = due
=============================================================================
