------------------------------ MODULE Worker ------------------------------
(***************************************************************************)
(* One task's run on one worker and the integrator's live-rate fiber for   *)
(* it.  Worker (pecker/biz): Request and init, the Concurrency drivers     *)
(* (runConcurrencyRequest, runStepConcurrencyRequest) and their request   *)
(* goroutines (goRequest), the stat goroutine of report with its KST      *)
(* window of per-second aggregates and its push pool, done, and Stop.     *)
(* Integrator (integrator/biz/integrate.go): calcTask, which pops the     *)
(* rate list, merges by second in its own KST window, and hands evicted   *)
(* seconds to a pool that computes their latency map and writes a row.    *)
(*                                                                         *)
(* Time is a clock of whole seconds since the run began.  Every step that *)
(* is not a wait (a goroutine's loop turn, the stat loop, a pool job, a   *)
(* pop of a non-empty list) takes far less than a second, so the clock    *)
(* only advances when none is pending.  A request goroutine issues at most *)
(* one request per second of the clock.                                   *)
(***************************************************************************)
EXTENDS Latency, Integers, SequencesExt

CONSTANTS Tasks,            \* Peck requests: [step, nums, si]
          StressTime,       \* seconds
          SecPerMin,        \* seconds in time.Minute
          KST,              \* window size of both stat loops
          PoolSize,         \* ReportGoroutineNum of both push pools
          ChanCap,          \* cap(results): min(maxNum, MaxResultChanSize)
          PopWait,          \* PopWaitSecond
          MaxDelay,         \* seconds a request may take (the task timeout)
          Durs,             \* response times in ms a request may record
          MaxTime,          \* last second the model explores
          MaxStops,         \* Stop calls in one behaviour
          NoEntry           \* stops has no entry for the task

ASSUME Durs \subseteq 0..MillisecondBucket /\ KST >= 1 /\ PoolSize >= 1

Gs == 1..Max({t.nums[Len(t.nums)] : t \in Tasks})
Times == 0..MaxTime

VARIABLES task,      \* the task the Peck carried
          now,       \* the clock
          wpc,       \* the run: init, run, closing (done waits on r.done), released
          drv,       \* the driver: its pc, the interval i it spawns, when it wakes
          gs,        \* request goroutines: none, loop, busy, exit; ts of the last request
          stopFlag,  \* stops[TaskId]: NoEntry, FALSE or TRUE
          stopsSent,
          results,   \* the results channel
          closed,
          spc,       \* the stat goroutine: loop, flush, done
          tars,      \* its window: second -> car
          ags,       \* its per-interval totals
          stopSeen,  \* its stop
          wpool,     \* cars handed to the worker's push pool, not yet pushed
          aggQ,      \* the task's aggregate list
          rateQ,     \* the task's rate list, oldest first
          ipc,       \* calcTask: loop, flush, done
          itars,     \* its window
          ipool,     \* cars handed to the report pool, not yet reported
          rows,      \* rows written to the analytics store
          consumed   \* results the stat goroutine took, per second (history)

vars == <<task, now, wpc, drv, gs, stopFlag, stopsSent, results, closed, spc, tars,
          ags, stopSeen, wpool, aggQ, rateQ, ipc, itars, ipool, rows, consumed>>

\* A task's fields: StressMode = Step, Nums (goroutines per interval) and
\* StepIntervalTime in seconds (StressTime in Constant mode).
Nums == task.nums
Step == task.step
StepIntervalTime == task.si
IntervalsLen == Len(Nums)

(***************************************************************************)
(* Per-second aggregates ("cars"): a count, the response times as a       *)
(* histogram over 0..MillisecondBucket, and the stop mark.                *)
(***************************************************************************)
NoDurs == [ms \in 0..MillisecondBucket |-> 0]
NewCar(ts) == [ts |-> ts, n |-> 0, durs |-> NoDurs, stop |-> FALSE]
NoCars == [t \in {} |-> NewCar(0)]

\* The car of second ts in window w, or a new one.
CarOf(w, ts) == IF ts \in DOMAIN w THEN w[ts] ELSE NewCar(ts)

\* Window w with car c stored under its second.
Put(w, c) == [t \in DOMAIN w \cup {c.ts} |-> IF t = c.ts THEN c ELSE w[t]]

Drop(w, ts) == [t \in DOMAIN w \ {ts} |-> w[t]]

OldestOf(w) == CHOOSE t \in DOMAIN w : \A u \in DOMAIN w : t <= u

(***************************************************************************)
(* Request, init and the request goroutine that runs the run.             *)
(***************************************************************************)
\* Request: init creates the results and done channels and stores a fresh
\* flag in stops; request starts the stat goroutine (report, with its
\* per-interval totals) and run.
Request(t) ==
    /\ wpc = "init"
    /\ task' = t
    /\ wpc' = "run" /\ stopFlag' = FALSE
    /\ drv' = [pc |-> "spawn", i |-> 1, wake |-> 0]
    /\ ags' = [i \in 1..Len(t.nums) |-> 0]
    /\ UNCHANGED <<now, gs, stopsSent, results, closed, spc, tars, stopSeen,
                   wpool, aggQ, rateQ, ipc, itars, ipool, rows, consumed>>

\* The goroutines alive before interval i's spawn: Nums[i-1] (preNum).
PreNum(i) == IF i = 1 THEN 0 ELSE Nums[i - 1]

\* run(num) of interval i: goroutines PreNum(i)+1 .. Nums[i] start.
Spawn(i) == [g \in Gs |-> IF g > PreNum(i) /\ g <= Nums[i]
                           THEN [st |-> "loop", ts |-> -1] ELSE gs[g]]

\* time.Sleep(time.Duration(r.StepIntervalTime) * time.Minute), with
\* StepIntervalTime already in seconds.
SleepTicks == StepIntervalTime * SecPerMin

\* The driver: runConcurrencyRequest starts Num goroutines; the Step
\* driver starts each interval's extra goroutines and sleeps after each.
DriverSpawn ==
    /\ wpc = "run" /\ drv.pc = "spawn"
    /\ gs' = Spawn(drv.i)
    /\ drv' = IF Step THEN [drv EXCEPT !.pc = "sleep", !.wake = now + SleepTicks]
                      ELSE [drv EXCEPT !.pc = "wait"]
    /\ UNCHANGED <<task, now, wpc, stopFlag, stopsSent, results, closed, spc, tars, ags,
                   stopSeen, wpool, aggQ, rateQ, ipc, itars, ipool, rows, consumed>>

DriverWake ==
    /\ wpc = "run" /\ drv.pc = "sleep" /\ now >= drv.wake
    /\ drv' = IF drv.i < IntervalsLen THEN [drv EXCEPT !.pc = "spawn", !.i = @ + 1]
                                      ELSE [drv EXCEPT !.pc = "wait"]
    /\ UNCHANGED <<task, now, wpc, gs, stopFlag, stopsSent, results, closed, spc, tars,
                   ags, stopSeen, wpool, aggQ, rateQ, ipc, itars, ipool, rows, consumed>>

\* elapsed > du, for an elapsed time somewhere within second now.
MayBeOver == now >= StressTime
MayGoOn   == now <= StressTime

\* One turn of a request goroutine's loop: it leaves when du has passed
\* or the flag is set, and otherwise starts goRequest (requestTime = now).
GoLoop(g) ==
    /\ wpc = "run" /\ gs[g].st = "loop"
    /\ \/ /\ MayBeOver \/ stopFlag = TRUE
          /\ gs' = [gs EXCEPT ![g].st = "exit"]
       \/ /\ MayGoOn /\ stopFlag = FALSE
          /\ gs[g].ts < now
          /\ gs' = [gs EXCEPT ![g] = [st |-> "busy", ts |-> now]]
    /\ UNCHANGED <<task, now, wpc, drv, stopFlag, stopsSent, results, closed, spc, tars,
                   ags, stopSeen, wpool, aggQ, rateQ, ipc, itars, ipool, rows, consumed>>

\* goRequest's end: the response (or error) within the timeout, its time
\* recorded, and the Result sent on the channel (blocking while it is
\* full) with Stop read from the flag.
GoResult(g) ==
    /\ gs[g].st = "busy" /\ Len(results) < ChanCap
    /\ \E d \in Durs :
          results' = Append(results, [ts |-> gs[g].ts, dur |-> d, stop |-> stopFlag = TRUE])
    /\ gs' = [gs EXCEPT ![g] = [st |-> "loop", ts |-> gs[g].ts]]
    /\ UNCHANGED <<task, now, wpc, drv, stopFlag, stopsSent, closed, spc, tars, ags,
                   stopSeen, wpool, aggQ, rateQ, ipc, itars, ipool, rows, consumed>>

\* Stop: stops[taskId].CompareAndSwap(false, true).  (Stop on a missing
\* entry dereferences nil; Gopeck's StopFindsFlag covers that order, so
\* here Stop arrives while the entry exists.)
Stop ==
    /\ stopFlag # NoEntry /\ stopsSent < MaxStops
    /\ stopFlag' = TRUE /\ stopsSent' = stopsSent + 1
    /\ UNCHANGED <<task, now, wpc, drv, gs, results, closed, spc, tars, ags, stopSeen,
                   wpool, aggQ, rateQ, ipc, itars, ipool, rows, consumed>>

(***************************************************************************)
(* The stat goroutine (report's stat) and the worker's push pool.         *)
(***************************************************************************)
\* interval := min(intervalsLen-1, costSecond / StepIntervalTime), 1-based.
IntervalOf(ts) == IF ts \div StepIntervalTime + 1 < IntervalsLen
                  THEN ts \div StepIntervalTime + 1 ELSE IntervalsLen

\* A result folded into car c.
AddResult(c, r) == [c EXCEPT !.n = @ + 1, !.durs[r.dur] = @ + 1,
                             !.stop = @ \/ r.stop]

\* Variant: Invoke never blocks.
PoolFreeAlways(pool) == TRUE

\* poolFunc.Invoke blocks while every pool goroutine is busy.
PoolFree(pool) == Len(pool) < PoolSize

\* Variant: the evicted car is pushed but stays in the window.
EvictKeep(w, pool, w2, pool2) ==
    IF Cardinality(DOMAIN w) > KST
    THEN /\ PoolFree(pool)
         /\ pool2 = Append(pool, w[OldestOf(w)])
         /\ w2 = w
    ELSE w2 = w /\ pool2 = pool

\* Past KST seconds in the window, the oldest is handed to the pool
\* (Invoke) and deleted from the window.
Evict(w, pool, w2, pool2) ==
    IF Cardinality(DOMAIN w) > KST
    THEN /\ PoolFree(pool)
         /\ pool2 = Append(pool, w[OldestOf(w)])
         /\ w2 = Drop(w, OldestOf(w))
    ELSE w2 = w /\ pool2 = pool

\* One turn of `for result := range r.results`: the result goes into its
\* second's car and its interval's total, and the window may evict.
StatLoop ==
    /\ spc = "loop" /\ results # <<>>
    /\ LET r == Head(results)
           w == Put(tars, AddResult(CarOf(tars, r.ts), r))
       IN  /\ Evict(w, wpool, tars', wpool')
           /\ ags' = [ags EXCEPT ![IntervalOf(r.ts)] = @ + 1]
           /\ stopSeen' = (stopSeen \/ r.stop)
           /\ consumed' = [consumed EXCEPT ![r.ts] = @ + 1]
    /\ results' = Tail(results)
    /\ UNCHANGED <<task, now, wpc, drv, gs, stopFlag, stopsSent, closed, spc, aggQ,
                   rateQ, ipc, itars, ipool, rows>>

\* Variant: the cars left in the window are never invoked.
StatFlushNoCars ==
    /\ spc = "loop" /\ closed /\ results = <<>>
    /\ aggQ' = aggQ \o [i \in 1..IntervalsLen |->
                  [interval |-> i, n |-> ags[i], stop |-> i = IntervalsLen /\ stopSeen]]
    /\ spc' = "done" /\ tars' = NoCars
    /\ UNCHANGED <<task, now, wpc, drv, gs, stopFlag, stopsSent, results, closed, ags,
                   stopSeen, wpool, rateQ, ipc, itars, ipool, rows, consumed>>

\* After the channel is closed and drained: every car left is invoked, in
\* map order; then one aggregate per interval is pushed, the last marked
\* stop if any result was, and r.done is signalled.
StatFlush ==
    /\ \/ spc = "loop" /\ closed /\ results = <<>>
       \/ spc = "flush"
    /\ IF DOMAIN tars # {}
       THEN \E t \in DOMAIN tars :
              /\ PoolFree(wpool)
              /\ wpool' = Append(wpool, tars[t])
              /\ tars' = Drop(tars, t)
              /\ spc' = "flush"
              /\ UNCHANGED aggQ
       ELSE /\ aggQ' = aggQ \o [i \in 1..IntervalsLen |->
                          [interval |-> i, n |-> ags[i],
                           stop |-> i = IntervalsLen /\ stopSeen]]
            /\ spc' = "done"
            /\ UNCHANGED <<tars, wpool>>
    /\ UNCHANGED <<task, now, wpc, drv, gs, stopFlag, stopsSent, results, closed, ags,
                   stopSeen, rateQ, ipc, itars, ipool, rows, consumed>>

\* A pool goroutine's RatePush of the car it was handed: LPUSH, so the
\* list's oldest entry is the first pushed.
RatePush(k) ==
    /\ k \in 1..Len(wpool)
    /\ rateQ' = Append(rateQ, wpool[k])
    /\ wpool' = RemoveAt(wpool, k)
    /\ UNCHANGED <<task, now, wpc, drv, gs, stopFlag, stopsSent, results, closed, spc,
                   tars, ags, stopSeen, aggQ, ipc, itars, ipool, rows, consumed>>

\* run returns once every request goroutine has left (wg.Wait); done
\* closes the results channel, ...
RunReturns ==
    /\ wpc = "run" /\ drv.pc = "wait"
    /\ \A g \in Gs : gs[g].st \in {"none", "exit"}
    /\ wpc' = "closing" /\ closed' = TRUE
    /\ UNCHANGED <<task, now, drv, gs, stopFlag, stopsSent, results, spc, tars, ags,
                   stopSeen, wpool, aggQ, rateQ, ipc, itars, ipool, rows, consumed>>

\* ... waits on r.done, releases the pool (its running pushes still
\* finish), deletes the stops entry and gives the cost back.
Done ==
    /\ wpc = "closing" /\ spc = "done"
    /\ wpc' = "released" /\ stopFlag' = NoEntry
    /\ UNCHANGED <<task, now, drv, gs, stopsSent, results, closed, spc, tars, ags,
                   stopSeen, wpool, aggQ, rateQ, ipc, itars, ipool, rows, consumed>>

(***************************************************************************)
(* The integrator's calcTask and its report pool.                         *)
(***************************************************************************)
\* time.Since(start) > stressTime + PopWaitSecond
Past == now > StressTime + PopWait

\* A popped aggregate merged into its second's car (the merged car keeps
\* no stop mark).
Merge(c, bar) == [c EXCEPT !.n = @ + bar.n,
                           !.durs = [ms \in 0..MillisecondBucket |-> @[ms] + bar.durs[ms]]]

\* queRepository.RatePop: RPOP of the list LPUSH fills, the oldest entry.
PopRate == [item |-> Head(rateQ), rest |-> Tail(rateQ)]

\* RateClear: DEL of the task's per-second list.
RateClear == rateQ' = <<>>

\* One turn of the loop: RatePop (RPOP, the oldest), then the deadline
\* check, which drops what was popped; an empty pop sleeps (no step); an
\* aggregate is merged, the window may evict, and a stop mark ends the
\* loop.
RatePop ==
    /\ ipc = "loop" /\ (rateQ # <<>> \/ Past)
    /\ IF Past
       THEN /\ ipc' = "flush"
            /\ rateQ' = IF rateQ = <<>> THEN rateQ ELSE PopRate.rest
            /\ UNCHANGED <<itars, ipool>>
       ELSE LET bar == PopRate.item
                w   == Put(itars, Merge(CarOf(itars, bar.ts), bar))
            IN  /\ Evict(w, ipool, itars', ipool')
                /\ rateQ' = PopRate.rest
                /\ ipc' = IF bar.stop THEN "flush" ELSE "loop"
    /\ UNCHANGED <<task, now, wpc, drv, gs, stopFlag, stopsSent, results, closed, spc,
                   tars, ags, stopSeen, wpool, aggQ, rows, consumed>>

\* After the loop: every car left is invoked, in map order; then
\* RateClear deletes the list and the pool is released.
CalcFlush ==
    /\ ipc = "flush"
    /\ IF DOMAIN itars # {}
       THEN \E t \in DOMAIN itars :
              /\ PoolFree(ipool)
              /\ ipool' = Append(ipool, itars[t])
              /\ itars' = Drop(itars, t)
              /\ UNCHANGED <<rateQ, ipc>>
       ELSE /\ RateClear /\ ipc' = "done"
            /\ UNCHANGED <<itars, ipool>>
    /\ UNCHANGED <<task, now, wpc, drv, gs, stopFlag, stopsSent, results, closed, spc,
                   tars, ags, stopSeen, wpool, aggQ, rows, consumed>>

\* A report pool goroutine: the car's duration histogram, its latency
\* distribution and map, and one row inserted (Report).
Report(k) ==
    /\ k \in 1..Len(ipool)
    /\ LET bar == ipool[k]
       IN  rows' = Append(rows, [ts |-> bar.ts, n |-> bar.n, durs |-> bar.durs,
                                 lat |-> LatencyMap(bar.n, bar.durs)])
    /\ ipool' = RemoveAt(ipool, k)
    /\ UNCHANGED <<task, now, wpc, drv, gs, stopFlag, stopsSent, results, closed, spc,
                   tars, ags, stopSeen, wpool, aggQ, rateQ, ipc, itars, consumed>>

(***************************************************************************)
(* The clock.                                                              *)
(***************************************************************************)
\* A step that takes no time is still due.
Due ==
    \/ wpc = "init"
    \/ wpc = "run" /\ drv.pc = "spawn"
    \/ wpc = "run" /\ drv.pc = "sleep" /\ now >= drv.wake
    \/ \E g \in Gs : gs[g].st = "loop" /\ (gs[g].ts < now \/ stopFlag = TRUE \/ now > StressTime)
    \/ \E g \in Gs : gs[g].st = "busy" /\ now - gs[g].ts >= MaxDelay
    \/ wpc = "run" /\ drv.pc = "wait" /\ \A g \in Gs : gs[g].st \in {"none", "exit"}
    \/ wpc = "closing" /\ spc = "done"
    \/ results # <<>> \/ (closed /\ spc # "done")
    \/ wpool # <<>> \/ ipool # <<>>
    \/ ipc = "loop" /\ (rateQ # <<>> \/ Past)
    \/ ipc = "flush"

Tick ==
    /\ now < MaxTime /\ ~Due
    /\ now' = now + 1
    /\ UNCHANGED <<task, wpc, drv, gs, stopFlag, stopsSent, results, closed, spc, tars,
                   ags, stopSeen, wpool, aggQ, rateQ, ipc, itars, ipool, rows, consumed>>

Init ==
    /\ task = CHOOSE t \in Tasks : TRUE
    /\ now = 0 /\ wpc = "init"
    /\ drv = [pc |-> "none", i |-> 1, wake |-> 0]
    /\ gs = [g \in Gs |-> [st |-> "none", ts |-> -1]]
    /\ stopFlag = NoEntry /\ stopsSent = 0
    /\ results = <<>> /\ closed = FALSE
    /\ spc = "loop" /\ tars = NoCars /\ ags = <<>>
    /\ stopSeen = FALSE /\ wpool = <<>> /\ aggQ = <<>> /\ rateQ = <<>>
    /\ ipc = "loop" /\ itars = NoCars /\ ipool = <<>> /\ rows = <<>>
    /\ consumed = [t \in Times |-> 0]

Next ==
    \/ \E t \in Tasks : Request(t)
    \/ DriverSpawn \/ DriverWake
    \/ \E g \in Gs : GoLoop(g) \/ GoResult(g)
    \/ Stop \/ StatLoop \/ StatFlush \/ \E k \in 1..PoolSize : RatePush(k)
    \/ RunReturns \/ Done
    \/ RatePop \/ CalcFlush \/ \E k \in 1..PoolSize : Report(k)
    \/ Tick

(* Every goroutine runs; the clock advances.  Stop is a user's call.       *)
Fairness ==
    /\ WF_vars(\E t \in Tasks : Request(t)) /\ WF_vars(DriverSpawn) /\ WF_vars(DriverWake)
    /\ \A g \in Gs : WF_vars(GoLoop(g)) /\ WF_vars(GoResult(g))
    /\ WF_vars(StatLoop) /\ WF_vars(StatFlush)
    /\ WF_vars(\E k \in 1..PoolSize : RatePush(k))
    /\ WF_vars(RunReturns) /\ WF_vars(Done)
    /\ WF_vars(RatePop) /\ WF_vars(CalcFlush)
    /\ WF_vars(\E k \in 1..PoolSize : Report(k))
    /\ WF_vars(Tick)

Spec == Init /\ [][Next]_vars /\ Fairness

=============================================================================
