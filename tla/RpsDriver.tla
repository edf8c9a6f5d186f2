----------------------------- MODULE RpsDriver -----------------------------
(***************************************************************************)
(* The Rps drivers of a worker (pecker/biz/request.go runRpsRequest and   *)
(* requestFromChan, step.go runStepRpsRequest) with the ConstantPacer     *)
(* they pace by (pacer.go): one scheduler loop that paces, sleeps, checks *)
(* the task's stop flag and hands a hit to an idle request goroutine over  *)
(* the unbuffered taskChan, spawning a goroutine when none is idle; then  *)
(* close(taskChan) and wg.Wait.                                           *)
(*                                                                         *)
(* Time is a clock of ticks, Per of them to a second.  The loop's own     *)
(* work takes no ticks, but a real clock has moved on by a positive       *)
(* instant whenever it is read (time.Sleep never returns early), so an    *)
(* elapsed time of k ticks reads as k plus that instant: "elapsed > du"   *)
(* holds from k = du on, and a wait of (h+1)*interval - elapsed ends at   *)
(* tick (h+1)*interval.  A request takes 1..MaxReq ticks; its result goes *)
(* to the results channel, which the stat goroutine drains (module        *)
(* Worker), and is left out here.                                         *)
(***************************************************************************)
EXTENDS Naturals, Sequences, Bags

CONSTANTS Per,         \* ticks in time.Second
          Tasks,       \* Peck requests: [step, nums, si]; nums[1] is Num
          StressTime,  \* seconds
          MaxReq,      \* ticks a request may take (the client's timeout)
          MaxStops     \* Stop calls in one behaviour

VARIABLES task,      \* the Requester
          now,       \* the clock, in ticks since the run began
          dpc,       \* the scheduler loop: top, sleep, send, close, wait, done
          began,     \* the pacer's origin (reset at each Step interval)
          start,     \* runStepRpsRequest's start
          count,     \* hits paced since began
          freq,      \* pacer.Freq
          cm,        \* the intervals whose rate has been set
          wakeAt,    \* the tick the loop's time.Sleep ends
          idle,      \* request goroutines blocked on taskChan
          busy,      \* request goroutines in goRequest: a bag of the ticks they finish
          spawned,   \* costGoroutineNums
          stop,      \* stops[TaskId]
          stopsSent,
          sent,      \* hits handed over: a bag of their ticks
          late       \* hits handed over after the stop flag was set

vars == <<task, now, dpc, began, start, count, freq, cm, wakeAt, idle, busy,
          spawned, stop, stopsSent, sent, late>>

Nums == task.nums
Step == task.step
Du   == StressTime * Per                 \* time.Duration(r.StressTime) * time.Second

GoMax(a, b) == IF a > b THEN a ELSE b
GoMin(a, b) == IF a < b THEN a ELSE b

(***************************************************************************)
(* ConstantPacer{freq, time.Second}.Pace(elapsed, hits): the elapsed time *)
(* at which the next hit is due.  Freq 0 is an infinite rate (no wait),   *)
(* a negative Freq stops.  The overflow stop, math.MaxInt64/interval <    *)
(* hits, needs some 10^9 hits and cannot happen within the model.        *)
(***************************************************************************)
Pace(f, elapsed, hits) ==
    CASE f = 0 -> [stop |-> FALSE, due |-> elapsed]
      [] f < 0 -> [stop |-> TRUE, due |-> elapsed]
      [] OTHER ->
           IF hits < f * (elapsed \div Per)
           THEN [stop |-> FALSE, due |-> elapsed]          \* running behind
           ELSE [stop |-> FALSE, due |-> (hits + 1) * (Per \div f)]

\* The tick a time.Sleep(due - elapsed) started now ends.
WakeAt(p, elapsed) == now + GoMax(0, p.due - elapsed)

\* The Step interval the loop is in: min(len-1, int(seconds)/StepIntervalTime),
\* counted from 1.
IntervalAt(cost) == GoMin(Len(Nums) - 1, (cost \div Per) \div task.si) + 1

Break == dpc' = "close"

(***************************************************************************)
(* runRpsRequest, the loop up to its sleep: break once elapsed > du or    *)
(* the pacer says stop; otherwise sleep for the pacer's wait.             *)
(***************************************************************************)
ConstantTop ==
    /\ dpc = "top" /\ ~Step
    /\ LET e == now - began
           p == Pace(freq, e, count)
       IN  IF e >= Du \/ p.stop THEN Break /\ UNCHANGED wakeAt
           ELSE dpc' = "sleep" /\ wakeAt' = WakeAt(p, e)
    /\ UNCHANGED <<task, now, began, start, count, freq, cm, idle, busy, spawned,
                   stop, stopsSent, sent, late>>

(***************************************************************************)
(* runStepRpsRequest, the loop up to its sleep: the pacer's wait is taken *)
(* first; break on stop or once cost > du; on entering a new interval the *)
(* pacer gets that interval's rate, count 0 and a new origin, and the     *)
(* loop then sleeps the wait computed before the switch.                  *)
(***************************************************************************)
StepTop ==
    /\ dpc = "top" /\ Step
    /\ LET e    == now - began
           p    == Pace(freq, e, count)
           cost == now - start
           k    == IntervalAt(cost)
       IN  IF p.stop \/ cost >= Du THEN Break /\ UNCHANGED <<began, count, freq, cm, wakeAt>>
           ELSE /\ dpc' = "sleep" /\ wakeAt' = WakeAt(p, e)
                /\ IF k \notin cm
                   THEN /\ freq' = Nums[k] /\ count' = 0 /\ began' = now
                        /\ cm' = cm \cup {k}
                   ELSE UNCHANGED <<began, count, freq, cm>>
    /\ UNCHANGED <<task, now, start, idle, busy, spawned, stop, stopsSent, sent, late>>

\* After time.Sleep: stops[r.TaskId].True() breaks the loop.
Wake ==
    /\ dpc = "sleep" /\ now = wakeAt
    /\ IF stop THEN Break ELSE dpc' = "send"
    /\ UNCHANGED <<task, now, began, start, count, freq, cm, wakeAt, idle, busy,
                   spawned, stop, stopsSent, sent, late>>

(***************************************************************************)
(* The select: an idle goroutine takes the hit; otherwise one more is     *)
(* spawned (wg.Add, costGoroutineNums++) and the blocking send hands the  *)
(* hit to a goroutine.  The goroutine runs goRequest for 1..MaxReq ticks. *)
(***************************************************************************)
Send ==
    /\ dpc = "send"
    /\ \E d \in 1..MaxReq :
          /\ busy' = busy (+) SetToBag({now + d})
          /\ IF idle > 0 THEN idle' = idle - 1 /\ UNCHANGED spawned
             ELSE spawned' = spawned + 1 /\ UNCHANGED idle
    /\ count' = count + 1
    /\ sent' = sent (+) SetToBag({now})
    /\ late' = IF stop THEN late + 1 ELSE late
    /\ dpc' = "top"
    /\ UNCHANGED <<task, now, began, start, freq, cm, wakeAt, stop, stopsSent>>

\* close(taskChan): the idle goroutines leave their range loop; then
\* wg.Wait returns once the busy ones have too.
Close ==
    /\ dpc = "close"
    /\ dpc' = "wait" /\ idle' = 0
    /\ UNCHANGED <<task, now, began, start, count, freq, cm, wakeAt, busy, spawned,
                   stop, stopsSent, sent, late>>

WaitDone ==
    /\ dpc = "wait" /\ busy = EmptyBag
    /\ dpc' = "done"
    /\ UNCHANGED <<task, now, began, start, count, freq, cm, wakeAt, idle, busy,
                   spawned, stop, stopsSent, sent, late>>

\* requestFromChan: a goroutine back from goRequest receives again, or
\* leaves once taskChan is closed.
GoDone ==
    /\ BagIn(now, busy)
    /\ busy' = busy (-) SetToBag({now})
    /\ idle' = IF dpc \in {"wait", "done"} THEN idle ELSE idle + 1
    /\ UNCHANGED <<task, now, dpc, began, start, count, freq, cm, wakeAt, spawned,
                   stop, stopsSent, sent, late>>

\* RequesterUsecase.Stop: stops[TaskId].CompareAndSwap(false, true).
Stop ==
    /\ stopsSent < MaxStops /\ dpc # "done"
    /\ stop' = TRUE /\ stopsSent' = stopsSent + 1
    /\ UNCHANGED <<task, now, dpc, began, start, count, freq, cm, wakeAt, idle, busy,
                   spawned, sent, late>>

\* Time passes while the loop sleeps or waits and no goroutine is due.
Tick ==
    /\ dpc \in {"sleep", "wait"}
    /\ dpc = "sleep" => now < wakeAt
    /\ dpc = "wait" => busy # EmptyBag
    /\ ~BagIn(now, busy)
    /\ now' = now + 1
    /\ UNCHANGED <<task, dpc, began, start, count, freq, cm, wakeAt, idle, busy,
                   spawned, stop, stopsSent, sent, late>>

(* A run as Request starts it: the first requestFromChan goroutine is     *)
(* idle on taskChan and the pacer is set to Num (Nums[0] in Step mode).   *)
Init ==
    /\ task \in Tasks
    /\ now = 0 /\ dpc = "top" /\ began = 0 /\ start = 0 /\ count = 0
    /\ freq = task.nums[1] /\ cm = {1} /\ wakeAt = 0
    /\ idle = 1 /\ busy = EmptyBag /\ spawned = 1
    /\ stop = FALSE /\ stopsSent = 0 /\ sent = EmptyBag /\ late = 0

Next ==
    \/ ConstantTop \/ StepTop \/ Wake \/ Send \/ Close \/ WaitDone
    \/ GoDone \/ Stop \/ Tick

(* The loop and the goroutines run whenever they can and the clock moves; *)
(* Stop is a request that may never come.                                 *)
Fairness == WF_vars(ConstantTop \/ StepTop \/ Wake \/ Send \/ Close \/ WaitDone \/ GoDone \/ Tick)

Spec == Init /\ [][Next]_vars /\ Fairness

=============================================================================
