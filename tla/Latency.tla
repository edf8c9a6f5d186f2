------------------------------ MODULE Latency ------------------------------
(***************************************************************************)
(* The integrator's latency statistics (integrator/biz/integrate.go) as    *)
(* pure operators over a histogram tb of response counts per millisecond, *)
(* 0..MillisecondBucket: calculateLatencyDistribution and the latency map *)
(* calcTask writes into a report row.                                      *)
(* Percentages are kept in tenths of a percent, as pcs holds them; the    *)
(* float comparisons are exact on the small integers involved.            *)
(***************************************************************************)
EXTENDS Naturals, Sequences

CONSTANT MillisecondBucket

\* pcs: 10, 25, 50, 75, 90, 95, 99 and 99.9 percent, in tenths.
Pcs == <<100, 250, 500, 750, 900, 950, 990, 999>>

\* float64(cur) * 1000 / float64(totalNumRes) >= pcs[idx]
Reached(cur, total, pc) == cur * 1000 >= pc * total

\* Variant: an if where the code has the inner for, so at most one
\* percentile is recorded per millisecond.
AdvanceOnce(total, cur, ms, idx, data) ==
    IF idx <= Len(Pcs) /\ Reached(cur, total, Pcs[idx])
    THEN <<idx + 1, [data EXCEPT ![idx] = ms]>>
    ELSE <<idx, data>>

\* The inner loop: every percentile the cumulative count now reaches gets
\* this millisecond.  Returns <<idx, data>>.
RECURSIVE Advance(_, _, _, _, _)
Advance(total, cur, ms, idx, data) ==
    IF idx <= Len(Pcs) /\ Reached(cur, total, Pcs[idx])
    THEN Advance(total, cur, ms, idx + 1, [data EXCEPT ![idx] = ms])
    ELSE <<idx, data>>

\* The outer loop over ms, skipping empty buckets.
RECURSIVE Scan(_, _, _, _, _, _)
Scan(total, tb, ms, cur, idx, data) ==
    IF ms > MillisecondBucket THEN data
    ELSE IF tb[ms] <= 0 THEN Scan(total, tb, ms + 1, cur, idx, data)
    ELSE LET c == cur + tb[ms]
             r == Advance(total, c, ms, idx, data)
         IN  Scan(total, tb, ms + 1, c, r[1], r[2])

\* calculateLatencyDistribution: entry i is <<pcs[i], data[i]>>, or the
\* zero LatencyDistribution <<0, 0>> when data[i] is 0.
CalculateLatencyDistribution(total, tb) ==
    LET data == Scan(total, tb, 0, 0, 1, [i \in 1..Len(Pcs) |-> 0])
    IN  [i \in 1..Len(Pcs) |-> IF data[i] > 0 THEN <<Pcs[i], data[i]>> ELSE <<0, 0>>]

\* calcTask's latencyMap: formatted percentage -> latency.  "%.2f" is
\* injective on the percentages, so a key is kept as the percentage; every
\* zero entry lands on the one key "0.00" (here 0) with latency 0.
LatencyMap(total, tb) ==
    LET ld == CalculateLatencyDistribution(total, tb)
    IN  {ld[i] : i \in 1..Len(Pcs)}

\* bucketNum: the histogram has bucketNum + 1 buckets, 0..bucketNum.
BucketNum == 9

(***************************************************************************)
(* latencyCalculate's bucket marks: int(Fastest + bs*i) with bs =         *)
(* (Slowest - Fastest) / bucketNum, and Slowest last.  For every span of  *)
(* 0..MillisecondBucket the float product truncates to the integer        *)
(* quotient.  (An interval with no response, Fastest above Slowest,       *)
(* panics before, at AvgTotal / NumRes.)                                  *)
(***************************************************************************)
Marks(fastest, slowest) ==
    [i \in 0..BucketNum |->
        IF i = BucketNum THEN slowest ELSE fastest + ((slowest - fastest) * i) \div BucketNum]

\* Variant: the walk moves on at the mark itself (ms < buckets[bi]).
RECURSIVE FillStrict(_, _, _, _, _)
FillStrict(tb, marks, ms, bi, counts) ==
    IF ms > MillisecondBucket THEN counts
    ELSE IF ms < marks[bi] THEN FillStrict(tb, marks, ms + 1, bi, [counts EXCEPT ![bi] = @ + tb[ms]])
    ELSE IF bi < BucketNum THEN FillStrict(tb, marks, ms, bi + 1, counts)
    ELSE counts

\* The walk over ms: a millisecond up to the current mark is counted in
\* its bucket; past it the walk moves to the next mark, and past the last
\* one it stops.
RECURSIVE Fill(_, _, _, _, _)
Fill(tb, marks, ms, bi, counts) ==
    IF ms > MillisecondBucket THEN counts
    ELSE IF ms <= marks[bi] THEN Fill(tb, marks, ms + 1, bi, [counts EXCEPT ![bi] = @ + tb[ms]])
    ELSE IF bi < BucketNum THEN Fill(tb, marks, ms, bi + 1, counts)
    ELSE counts

\* latencyCalculate's histogram of an interval: [mark, count] per bucket.
\* Rps, Average and the buckets' Frequency are ratios formatted to two
\* decimals and are left out.
LatencyCalculate(tb, fastest, slowest) ==
    LET marks == Marks(fastest, slowest)
    IN  [marks |-> marks,
         counts |-> Fill(tb, marks, 0, 0, [i \in 0..BucketNum |-> 0])]

=============================================================================
