----------------------------- MODULE MCWorker -----------------------------
(***************************************************************************)
(* Worker for TLC: one task on one worker, with the live-rate path to the  *)
(* analytics rows.  Time is scaled down with the windows: KST and the pool *)
(* sizes shrink with the run so that evictions, a full pool and late       *)
(* results all happen within a few seconds.                                *)
(***************************************************************************)
EXTENDS Worker, TLC

\* A Constant task of 2 goroutines, and a Step task ramping from 1 to 2
\* goroutines over two intervals of one second.
ConstantTask == [step |-> FALSE, nums |-> <<2>>, si |-> StressTime]
StepTask     == [step |-> TRUE, nums |-> <<1, 2>>, si |-> 1]
BothTasks    == {ConstantTask, StepTask}
StepTasks    == {StepTask}

\* The results of second t the rows account for.
RowsOf(t) == SumFunction([i \in {j \in 1..Len(rows) : rows[j].ts = t} |-> rows[i].n])

TypeOK ==
    /\ task \in Tasks /\ now \in Times /\ stopFlag \in {NoEntry, TRUE, FALSE}
    /\ wpc \in {"init", "run", "closing", "released"}
    /\ spc \in {"loop", "flush", "done"} /\ ipc \in {"loop", "flush", "done"}
    /\ \A g \in Gs : gs[g].st \in {"none", "loop", "busy", "exit"}
    /\ Len(results) <= ChanCap /\ Len(wpool) <= PoolSize /\ Len(ipool) <= PoolSize
    /\ Cardinality(DOMAIN tars) <= KST /\ Cardinality(DOMAIN itars) <= KST
    /\ consumed \in [Times -> Nat]

(* Each response is counted in at most one analytics row: the worker's   *)
(* window hands every second's car to the push pool once and deletes it, *)
(* a late result opens a new car, and calcTask's window does the same, so *)
(* the rows of a second never add up to more than the worker measured.    *)
NoDoubleCount == \A t \in Times : RowsOf(t) <= consumed[t]

\* The spec's percentile: the first ms at which the cumulative count
\* reaches p * num_res.
Cum(tb, ms) == SumFunction([k \in 0..ms |-> tb[k]])
Percentile(total, tb, pc) ==
    CHOOSE ms \in 0..MillisecondBucket :
        /\ Cum(tb, ms) * 1000 >= pc * total
        /\ \A k \in 0..(ms - 1) : Cum(tb, k) * 1000 < pc * total

\* The latency map the spec's percentiles give: each percentile whose
\* latency is positive, and the zero entry if any is 0 ms.
RefLatencyMap(total, tb) ==
    LET ps == {Pcs[i] : i \in 1..Len(Pcs)}
    IN  {<<pc, Percentile(total, tb, pc)>> : pc \in {q \in ps : Percentile(total, tb, q) > 0}}
        \cup (IF \E q \in ps : Percentile(total, tb, q) = 0 THEN {<<0, 0>>} ELSE {})

(* Every row's latency map, computed by calculateLatencyDistribution's   *)
(* scan of the row's duration histogram, holds the spec's percentiles     *)
(* (10 .. 99.9 %) of that histogram, several of which may fall on one ms. *)
RowsCarryPercentiles ==
    \A i \in 1..Len(rows) : rows[i].lat = RefLatencyMap(rows[i].n, rows[i].durs)

\* The bucket of ms in the spec's histogram: the first whose mark is at
\* least ms (marks never decrease).
BucketOf(marks, ms) == CHOOSE i \in 0..BucketNum :
                           ms <= marks[i] /\ \A j \in 0..(i - 1) : ms > marks[j]

(* latencyCalculate's walk over the milliseconds puts every response into *)
(* the bucket of the first mark at or above its latency, so the buckets   *)
(* partition the responses: checked on the duration histograms workers   *)
(* produce (a row's, as aggregationStat merges them per interval), with   *)
(* Fastest and Slowest the least and greatest latency recorded.           *)
HistogramPartitionsResponses ==
    \A i \in 1..Len(rows) :
        LET tb   == rows[i].durs
            lat  == {ms \in 0..MillisecondBucket : tb[ms] > 0}
            h    == LatencyCalculate(tb, Min(lat), Max(lat))
        IN  /\ h.counts = [b \in 0..BucketNum |->
                              SumFunctionOnSet(tb, {ms \in lat : BucketOf(h.marks, ms) = b})]
            /\ SumFunction(h.counts) = rows[i].n

\* Every second's results are in rows, and the worker has released.
AllReported == wpc = "released" /\ \A t \in Times : RowsOf(t) = consumed[t]

(* A Constant run nobody stops gets every response into the analytics     *)
(* rows: the worker flushes its window before done, and calcTask keeps    *)
(* popping until its deadline, then flushes its own window.  (A Step      *)
(* Concurrency run outlives the deadline; see StepRampFollowsSchedule.)   *)
UnstoppedRatesReported == (<>[](~Step) /\ [](stopsSent = 0)) => <>AllReported

\* Request goroutines started so far.
Started == Cardinality({g \in Gs : gs[g].st # "none"})

(* Violation run.  The Step Concurrency driver follows Nums: once the run  *)
(* is in interval i (StepIntervalTime seconds each) and still within its  *)
(* duration, and the steps due in that second have been taken, Nums[i]    *)
(* request goroutines have been started.                                   *)
StepRampFollowsSchedule ==
    \A i \in 1..IntervalsLen :
        (wpc = "run" /\ ~Due /\ now >= (i - 1) * StepIntervalTime /\ now < StressTime)
            => Started >= Nums[i]

=============================================================================
