------------------------------- MODULE Gopeck -------------------------------
(***************************************************************************)
(* Admission, dispatch, worker execution and stop of stress plans:        *)
(*   controller  internal/mods/admin/biz/biz_stress_start.go (StartStress) *)
(*               internal/mods/admin/biz/biz_stress_stop.go  (StopStress)  *)
(*               internal/mods/admin/biz/biz_stress_record.go (journal)    *)
(*               internal/mods/admin/biz/biz_node.go (UpdateNodeQuota)     *)
(*   worker      internal/mods/pecker/biz/request.go, stat.go              *)
(*   ledger      internal/mods/common/data/node.go (module NodeLedger)     *)
(*   queue       internal/mods/common/data/que.go (aggregate list only)    *)
(* Each StartStress call runs in its own HTTP handler goroutine; each     *)
(* Peck starts a run on a worker that drives load until its duration      *)
(* ends or its stop flag is set, pushes its per-interval aggregates and   *)
(* gives its share back to the ledger with a read-then-CAS.               *)
(***************************************************************************)
EXTENDS Integers, Sequences, FiniteSets, Placement, NodeLedger

CONSTANTS
    Nodes,          \* worker addresses registered under the pecker service
    NodeOrder,      \* the order GetService returns them in (etcd key order)
    Meta,           \* [Nodes -> [rpsQuota, gorQuota]]: registry metadata
    Plans,          \* plan ids of the StartStress calls
    Req,            \* [Plans -> [type, step, D, S, tasks]]; D, S in minutes
    AdminQuotas,    \* [Nodes -> the quota records an administrator may set]
    MaxPeckTries    \* the retry bound of sendRequest (3)

ASSUME NodeOrder \in Seq(Nodes) /\ {NodeOrder[i] : i \in DOMAIN NodeOrder} = Nodes
ASSUME MaxPeckTries \in Nat \ {0}

VARIABLES
    ledger,     \* etcd node_info records
    pc,         \* [Plans -> step of the StartStress goroutine]
    binds,      \* [Plans -> per task, the BindNode list of the walk]
    pending,    \* [Plans -> the connections still to Peck, in order]
    tries,      \* [Plans -> failed Peck attempts on the head connection]
    planRec,    \* [Plans -> status of the plan record]
    taskRec,    \* [Plans -> status of the batch of task records]
    integ,      \* [Plans -> the integrator received Integrate]
    runs,       \* set of worker runs
    flag,       \* [Nodes -> [Keys -> the worker's stops entry]]
    aggQ,       \* [Keys -> the aggregate list of the task]
    nilDeref,   \* some worker read a stops entry that was not there
    fib,        \* [Keys -> state of the task's aggregation fiber]
    rs,         \* [Keys -> per interval, the aggregates merged (NumRes > 0)]
    merged,     \* [Keys -> the aggregates the fiber popped, in order]
    taskDone,   \* [Keys -> the task record was set DONE with its summaries]
    resDone,    \* [Plans -> aggregationResult ran its final update]
    intPanic,   \* latencyCalculate divided by NumRes = 0
    pushed,     \* [Keys -> every aggregate pushed for the task] (history)
    stopPc,     \* [Plans -> step of the StopStress handler]
    stopLeft    \* [Plans -> the task records Stop has still to visit]

vars == <<ledger, pc, binds, pending, tries, planRec, taskRec, integ, runs,
          flag, aggQ, nilDeref, fib, rs, merged, taskDone, resDone, intPanic, pushed,
          stopPc, stopLeft>>

fiberVars == <<fib, rs, merged, taskDone, resDone, intPanic, pushed>>
stopVars  == <<stopPc, stopLeft>>

TaskIdx(p) == 1..Len(Req[p].tasks)
Keys       == UNION {{<<p, t>> : t \in TaskIdx(p)} : p \in Plans}

\* StartStress converts minutes to seconds, then derives intervalLen.
LenOf(p) == IntervalLen(Req[p].step, Req[p].D * 60, Req[p].S * 60)

\* taskParamSetting: a task takes the stress type and mode of its plan.
TaskOf(p, t) ==
    [type |-> Req[p].type, step |-> Req[p].step, num |-> Req[p].tasks[t].num,
     maxNum |-> Req[p].tasks[t].maxNum, stepNum |-> Req[p].tasks[t].stepNum]

\* GetService(Pecker): the instances registered under the service's prefix,
\* in etcd key order (the worker set is fixed; each carries Meta[n]).
GetService == NodeOrder

\* GetAllNodeInfo: the node_info records under the prefix that decode.
GetAllNodeInfo == {n \in Nodes : ledger[n] # None}

\* getNodeCostInfoByInstances over GetService and GetAllNodeInfo: a worker
\* without a record is charged nothing (UnExist).
Snapshot ==
    [i \in DOMAIN GetService |->
        LET n == GetService[i] IN NodeCostInfo(n, Meta[n], ledger[n], n \in GetAllNodeInfo)]

\* The updateNodes slice StartStress hands to UpdateNodeInfoList: its own
\* nil slice, as assignAndCalculateTask appends to a copy of it.
UpdateNodes(p) == <<>>

Conns(p) ==
    LET perTask(t) == [i \in DOMAIN binds[p][t] |-> <<t, i>>]
        RECURSIVE cat(_)
        cat(ts) == IF ts = {} THEN <<>>
                   ELSE LET t == CHOOSE x \in ts : \A y \in ts : x <= y
                        IN  perTask(t) \o cat(ts \ {t})
    IN  cat(TaskIdx(p))

BindOf(p, c) == binds[p][c[1]][c[2]]

(***************************************************************************)
(* Controller: StartStress.                                                *)
(***************************************************************************)

\* preCheck .. assignAndCalculateTask: snapshot, ids, intervals, placement.
Place(p) ==
    /\ pc[p] = "start"
    /\ LET res == [t \in TaskIdx(p) |-> AssignTask(TaskOf(p, t), LenOf(p), Snapshot)]
       IN  IF \A t \in TaskIdx(p) : res[t].assigned
           THEN /\ pc' = [pc EXCEPT ![p] = "placed"]
                /\ binds' = [binds EXCEPT ![p] = [t \in TaskIdx(p) |-> res[t].binds]]
           ELSE /\ pc' = [pc EXCEPT ![p] = "failed"]
                /\ UNCHANGED binds
    /\ UNCHANGED <<ledger, pending, tries, planRec, taskRec, integ, runs, flag, aggQ, nilDeref, fiberVars, stopVars>>

\* recordRepository.CreatePlan: the plan record, inserted DOING.
CreatePlan(p) == planRec' = [planRec EXCEPT ![p] = "DOING"]

\* recordRepository.UpdatePlanById: the plan record's new status.
UpdatePlanById(p, st) == planRec' = [planRec EXCEPT ![p] = st]

\* recordRepository.BatchCreateTasks: the plan's task records in one insert.
BatchCreateTasks(p) == taskRec' = [taskRec EXCEPT ![p] = "DOING"]

\* recordRepository.FindTaskListByPlanId: the tasks recorded for the plan.
FindTaskListByPlanId(p) == IF taskRec[p] = "none" THEN {} ELSE TaskIdx(p)

\* insertPlanTaskRecord: CreatePlan, then BatchCreateTasks; either may fail.
Journal(p) ==
    /\ pc[p] = "placed"
    /\ \/ /\ CreatePlan(p)
          /\ BatchCreateTasks(p)
          /\ pc' = [pc EXCEPT ![p] = "journaled"]
       \/ /\ CreatePlan(p)
          /\ pc' = [pc EXCEPT ![p] = "failed"]
          /\ UNCHANGED taskRec
       \/ /\ pc' = [pc EXCEPT ![p] = "failed"]
          /\ UNCHANGED <<planRec, taskRec, stopVars>>
    /\ UNCHANGED <<ledger, binds, pending, tries, integ, runs, flag, aggQ, nilDeref, fiberVars, stopVars>>

\* IntegrateReport on the integrator: one aggregation fiber per task.
StartFibers(p) ==
    /\ integ' = [integ EXCEPT ![p] = TRUE]
    /\ fib' = [k \in Keys |-> IF k[1] = p THEN "pop" ELSE fib[k]]

\* Variant: the error of receiveResults is logged and dispatch goes on.
IntegrateIgnoreErr(p) ==
    /\ pc[p] = "journaled"
    /\ \/ StartFibers(p)
       \/ UNCHANGED <<integ, fib, stopVars>>
    /\ pc' = [pc EXCEPT ![p] = "dispatch"]
    /\ pending' = [pending EXCEPT ![p] = Conns(p)]
    /\ UNCHANGED <<ledger, binds, tries, planRec, taskRec, runs, flag, aggQ, nilDeref,
                   rs, merged, taskDone, resDone, intPanic, pushed, stopVars>>

\* receiveResults: Integrate with a 3 s deadline.  The call may succeed, be
\* lost, or be served by the integrator after the deadline already failed it.
Integrate(p) ==
    /\ pc[p] = "journaled"
    /\ \/ /\ StartFibers(p)
          /\ pc' = [pc EXCEPT ![p] = "dispatch"]
          /\ pending' = [pending EXCEPT ![p] = Conns(p)]
       \/ /\ pc' = [pc EXCEPT ![p] = "failed"]
          /\ UNCHANGED <<integ, fib, pending, stopVars>>
       \/ /\ StartFibers(p)
          /\ pc' = [pc EXCEPT ![p] = "failed"]
          /\ UNCHANGED pending
    /\ UNCHANGED <<ledger, binds, tries, planRec, taskRec, runs, flag, aggQ, nilDeref,
                   rs, merged, taskDone, resDone, intPanic, pushed, stopVars>>

\* Peck handler (RequesterUsecase.Request -> init): the stops entry is
\* (re)set to false and a run of the task starts on the worker.
StartRun(p, c) ==
    LET b == BindOf(p, c)
        k == <<p, c[1]>>
    IN  /\ runs' = runs \cup {[p |-> p, t |-> c[1], n |-> b.addr, num |-> b.num,
                              nums |-> b.nums, copy |-> tries[p] + 1,
                              phase |-> "drive", stopSeen |-> FALSE, read |-> None]}
        /\ flag' = [flag EXCEPT ![b.addr][k] = "false"]

\* init sets the stops entry before it compiles the response check script;
\* a compile error fails the Peck and leaves the entry behind.
InitFails(p, c) ==
    /\ flag' = [flag EXCEPT ![BindOf(p, c).addr][<<p, c[1]>>] = "false"]
    /\ UNCHANGED runs

\* Variant: retryTimes is never reset, so it carries over to the next conn.
AfterFailureNoReset(p) ==
    /\ pending' = [pending EXCEPT ![p] = IF tries[p] + 1 = MaxPeckTries THEN Tail(@) ELSE @]
    /\ tries' = [tries EXCEPT ![p] = @ + 1]

\* A failed attempt: `continue` with retryTimes + 1, and after MaxPeckTries
\* failures the loop leaves the conn and moves to the next one.
AfterFailure(p) ==
    LET giveUp == tries[p] + 1 = MaxPeckTries IN
    /\ pending' = [pending EXCEPT ![p] = IF giveUp THEN Tail(@) ELSE @]
    /\ tries' = [tries EXCEPT ![p] = IF giveUp THEN 0 ELSE @ + 1]

\* One attempt of the retry loop of sendRequest on the head connection: the
\* reply arrives, or the attempt fails because the request is lost, the
\* reply is lost after the worker started the run, or the worker's init
\* failed.
Peck(p) ==
    /\ pc[p] = "dispatch"
    /\ pending[p] # <<>>
    /\ LET c == Head(pending[p]) IN
       \/ /\ StartRun(p, c)
          /\ pending' = [pending EXCEPT ![p] = Tail(@)]
          /\ tries' = [tries EXCEPT ![p] = 0]
       \/ /\ \/ StartRun(p, c)
             \/ UNCHANGED <<runs, flag, stopVars>>
             \/ InitFails(p, c)
          /\ AfterFailure(p)
    /\ UNCHANGED <<ledger, pc, binds, planRec, taskRec, integ, aggQ, nilDeref, fiberVars, stopVars>>

\* UpdateNodeInfoList(updateNodes) after every Peck; its commit may fail.
UpdateLedger(p) ==
    /\ pc[p] = "dispatch"
    /\ pending[p] = <<>>
    /\ LET res == CasBatch(ledger, UpdateNodes(p)) IN
       \/ /\ res.ok
          /\ ledger' = res.ledger
          /\ pc' = [pc EXCEPT ![p] = "ok"]
       \/ /\ pc' = [pc EXCEPT ![p] = "failed"]
          /\ UNCHANGED ledger
    /\ UNCHANGED <<binds, pending, tries, planRec, taskRec, integ, runs, flag, aggQ, nilDeref, fiberVars, stopVars>>

(***************************************************************************)
(* Controller: StopStress, and the administrator's UpdateNodeQuota.        *)
(***************************************************************************)

\* strings.Split(task.Nodes, ","): the worker addresses of a task record.
TaskNodes(p, t) == {binds[p][t][i].addr : i \in DOMAIN binds[p][t]}

\* StopStress: FindTaskListByPlanId; with no task it returns nil at once
\* (no step), otherwise it calls Stop for each task record in turn.  The
\* query has no ORDER BY, so the tasks come in any order.
StopStress(p) ==
    /\ stopPc[p] = "idle"
    /\ FindTaskListByPlanId(p) # {}
    /\ stopLeft' = [stopLeft EXCEPT ![p] = FindTaskListByPlanId(p)]
    /\ stopPc' = [stopPc EXCEPT ![p] = "rpc"]
    /\ UNCHANGED <<ledger, pc, binds, pending, tries, planRec, taskRec, integ, runs,
                   flag, aggQ, nilDeref, fiberVars>>

\* Stop's loop over task.Nodes: a Stop RPC to each address, best effort (a
\* dial or call error skips the address).  On the worker, Stop does
\* stops[taskId].CompareAndSwap(false, true); a missing entry is a nil
\* dereference.
StopRpcs(p) ==
    /\ stopPc[p] = "rpc"
    /\ \E t \in stopLeft[p] : \E reached \in SUBSET TaskNodes(p, t) :
         LET k == <<p, t>> IN
         /\ flag' = [n \in Nodes |->
                       IF n \in reached /\ flag[n][k] = "false"
                       THEN [flag[n] EXCEPT ![k] = "true"] ELSE flag[n]]
         /\ nilDeref' = (nilDeref \/ \E n \in reached : flag[n][k] = "absent")
         /\ stopLeft' = [stopLeft EXCEPT ![p] = @ \ {t}]
    /\ stopPc' = [stopPc EXCEPT ![p] = "update"]
    /\ UNCHANGED <<ledger, pc, binds, pending, tries, planRec, taskRec, integ, runs,
                   aggQ, fiberVars>>

\* The end of Stop: UpdatePlanById(STOP), whose error is only logged; then
\* the next task, or StopStress returns.
StopUpdate(p) ==
    /\ stopPc[p] = "update"
    /\ \/ UpdatePlanById(p, "STOP")
       \/ UNCHANGED planRec
    /\ stopPc' = [stopPc EXCEPT ![p] = IF stopLeft[p] = {} THEN "idle" ELSE "rpc"]
    /\ UNCHANGED <<ledger, pc, binds, pending, tries, taskRec, integ, runs,
                   flag, aggQ, nilDeref, stopLeft, fiberVars>>

SetQuota(n) ==
    /\ \E q \in AdminQuotas[n] : ledger' = [ledger EXCEPT ![n] = WithQuota(@, n, q)]
    /\ ledger' # ledger
    /\ UNCHANGED <<pc, binds, pending, tries, planRec, taskRec, integ, runs, flag, aggQ, nilDeref, fiberVars, stopVars>>

(***************************************************************************)
(* Worker.                                                                 *)
(***************************************************************************)
KeyOf(r) == <<r.p, r.t>>

\* A request of the run completes (goRequest): the result records
\* stops[TaskId].True(); reading a missing entry is a nil dereference.
Respond(r) ==
    /\ r.phase = "drive"
    /\ \/ /\ flag[r.n][KeyOf(r)] = "true"
          /\ ~r.stopSeen
          /\ runs' = (runs \ {r}) \cup {[r EXCEPT !.stopSeen = TRUE]}
          /\ UNCHANGED nilDeref
       \/ /\ flag[r.n][KeyOf(r)] = "absent"
          /\ ~nilDeref
          /\ nilDeref' = TRUE
          /\ UNCHANGED runs
    /\ UNCHANGED <<ledger, pc, binds, pending, tries, planRec, taskRec, integ, flag, aggQ, fiberVars, stopVars>>

\* report's stat goroutine pushes ags[0..len-1], the last one marked stop
\* when a result carried stop.
Aggregates(r) ==
    [j \in 1..Len(r.nums) |-> [n |-> r.n, copy |-> r.copy, interval |-> j,
                               stop |-> j = Len(r.nums) /\ r.stopSeen]]

\* AggregatePush of each aggregate in turn: LPUSH onto the task's list,
\* whose oldest entry is at the head here.
AggregatePush(k, as) == aggQ' = [aggQ EXCEPT ![k] = @ \o as]

\* AggregateClear: DEL of the task's list.
AggregateClear(k) == aggQ' = [aggQ EXCEPT ![k] = <<>>]

\* UpdateNodeCostNum's read: Get the node_info record and decode it; with
\* no record it returns an error before any transaction (None).
GetNodeCost(n) == ledger[n]

\* The driver loop ends (duration elapsed, or the stop flag was seen), the
\* results channel is closed and drained, the aggregates are pushed, the
\* stops entry is deleted and UpdateNodeCostNum reads the ledger record.
Finish(r) ==
    /\ r.phase = "drive"
    /\ AggregatePush(KeyOf(r), Aggregates(r))
    /\ pushed' = [pushed EXCEPT ![KeyOf(r)] = @ \cup Range(Aggregates(r))]
    /\ flag' = [flag EXCEPT ![r.n][KeyOf(r)] = "absent"]
    /\ runs' = IF GetNodeCost(r.n) = None
               THEN runs \ {r}
               ELSE (runs \ {r}) \cup {[r EXCEPT !.phase = "release", !.read = GetNodeCost(r.n)]}
    /\ UNCHANGED <<ledger, pc, binds, pending, tries, planRec, taskRec, integ, nilDeref,
                   fib, rs, merged, taskDone, resDone, intPanic, stopVars>>

\* UpdateNodeCostNum's transaction: put the released record if the value
\* is still the one read; a failed comparison is only logged.
Release(r) ==
    /\ r.phase = "release"
    /\ LET b   == [num |-> r.num, nums |-> r.nums]
           new == Released(r.read, Req[r.p].type, ReleasedCost(TaskOf(r.p, r.t), b))
       IN  ledger' = IF ledger[r.n] = r.read
                     THEN [ledger EXCEPT ![r.n] = new] ELSE ledger
    /\ runs' = runs \ {r}
    /\ UNCHANGED <<pc, binds, pending, tries, planRec, taskRec, integ, flag, aggQ, nilDeref, fiberVars, stopVars>>

(***************************************************************************)
(* Integrator: the aggregation fiber of each task (aggregationStat) and   *)
(* the plan's final update (aggregationResult).  The rate fiber           *)
(* (calcTask) reads the per-second list, which is not modelled.           *)
(***************************************************************************)

\* aggregationStat's summaries: one per interval, none merged yet (NumRes 0).
NewSummaries(k) == [j \in 1..LenOf(k[1]) |-> 0]

\* updateTaskRecord: the task record set DONE with its summaries (StatExt).
UpdateTaskRecord(k) == taskDone' = [taskDone EXCEPT ![k] = TRUE]

\* AggregatePop: RPOP of a list filled by LPUSH takes the oldest entry.
PopAggregate(k) == [item |-> Head(aggQ[k]), rest |-> Tail(aggQ[k])]

\* The fiber's deadline is StressTime + 10 s after IntegrateReport.  A run
\* drives for StressTime from its Peck, so the deadline is taken to pass
\* once dispatch is over and no run of the task is still driving.
RunsOver(k) ==
    /\ pc[k[1]] # "dispatch"
    /\ ~\E r \in runs : KeyOf(r) = k /\ r.phase = "drive"

\* One turn of the pop loop that gets an aggregate: merge it into its
\* interval and leave the loop if it is marked stop.  (An empty pop only
\* sleeps.)
AggPop(k) ==
    /\ fib[k] = "pop"
    /\ aggQ[k] # <<>>
    /\ LET a == PopAggregate(k).item IN
       /\ aggQ' = [aggQ EXCEPT ![k] = PopAggregate(k).rest]
       /\ rs' = [rs EXCEPT ![k][a.interval] = @ + 1]
       /\ merged' = [merged EXCEPT ![k] = Append(@, a)]
       /\ fib' = IF a.stop THEN [fib EXCEPT ![k] = "calc"] ELSE fib
    /\ UNCHANGED <<ledger, pc, binds, pending, tries, planRec, taskRec, integ, runs,
                   flag, nilDeref, taskDone, resDone, intPanic, pushed, stopVars>>

\* Variant: the pop loop has no deadline and waits for a stop mark only.
AggTimeoutNever(k) == FALSE

\* The turn on which the deadline has passed: the aggregate just popped, if
\* any, is dropped and the loop ends.
AggTimeout(k) ==
    /\ fib[k] = "pop"
    /\ RunsOver(k)
    /\ aggQ' = [aggQ EXCEPT ![k] = IF @ = <<>> THEN @ ELSE PopAggregate(k).rest]
    /\ fib' = [fib EXCEPT ![k] = "calc"]
    /\ UNCHANGED <<ledger, pc, binds, pending, tries, planRec, taskRec, integ, runs,
                   flag, nilDeref, rs, merged, taskDone, resDone, intPanic, pushed, stopVars>>

\* AggregateClear, latencyCalculate for every interval, updateTaskRecord.
\* AvgTotal / NumRes is an int64 division: an interval with no response
\* panics the fiber's goroutine, which ends the integrator process and
\* every fiber in it.
AggCalc(k) ==
    /\ fib[k] = "calc"
    /\ AggregateClear(k)
    /\ IF \E j \in DOMAIN rs[k] : rs[k][j] = 0
       THEN /\ intPanic' = TRUE
            /\ fib' = [x \in Keys |-> IF fib[x] \in {"pop", "calc"} THEN "dead" ELSE fib[x]]
            /\ UNCHANGED taskDone
       ELSE /\ UpdateTaskRecord(k)
            /\ fib' = [fib EXCEPT ![k] = "done"]
            /\ UNCHANGED intPanic
    /\ UNCHANGED <<ledger, pc, binds, pending, tries, planRec, taskRec, integ, runs,
                   flag, nilDeref, rs, merged, resDone, pushed, stopVars>>

\* aggregationResult after every fiber of the plan: UpdateTaskById with
\* the plan id, which matches no task row and leaves the plan record.
AggregationResult(p) ==
    /\ integ[p]
    /\ ~resDone[p]
    /\ \A t \in TaskIdx(p) : fib[<<p, t>>] = "done"
    /\ resDone' = [resDone EXCEPT ![p] = TRUE]
    /\ UNCHANGED <<ledger, pc, binds, pending, tries, planRec, taskRec, integ, runs,
                   flag, aggQ, nilDeref, fib, rs, merged, taskDone, intPanic, pushed, stopVars>>

(***************************************************************************)
(* Specification.                                                          *)
(***************************************************************************)
Init ==
    /\ ledger = [n \in Nodes |-> None]
    /\ pc = [p \in Plans |-> "start"]
    /\ binds = [p \in Plans |-> [t \in TaskIdx(p) |-> <<>>]]
    /\ pending = [p \in Plans |-> <<>>]
    /\ tries = [p \in Plans |-> 0]
    /\ planRec = [p \in Plans |-> "none"]
    /\ taskRec = [p \in Plans |-> "none"]
    /\ integ = [p \in Plans |-> FALSE]
    /\ runs = {}
    /\ flag = [n \in Nodes |-> [k \in Keys |-> "absent"]]
    /\ aggQ = [k \in Keys |-> <<>>]
    /\ nilDeref = FALSE
    /\ fib = [k \in Keys |-> "none"]
    /\ rs = [k \in Keys |-> NewSummaries(k)]
    /\ merged = [k \in Keys |-> <<>>]
    /\ taskDone = [k \in Keys |-> FALSE]
    /\ resDone = [p \in Plans |-> FALSE]
    /\ intPanic = FALSE
    /\ pushed = [k \in Keys |-> {}]
    /\ stopPc = [p \in Plans |-> "idle"]
    /\ stopLeft = [p \in Plans |-> {}]

Controller(p) ==
    Place(p) \/ Journal(p) \/ Integrate(p) \/ Peck(p) \/ UpdateLedger(p)

Worker(r) == Respond(r) \/ Finish(r) \/ Release(r)

Fiber(k) == AggPop(k) \/ AggTimeout(k) \/ AggCalc(k)

Next ==
    \/ \E p \in Plans : Controller(p)
    \/ \E p \in Plans : StopStress(p) \/ StopRpcs(p) \/ StopUpdate(p)
    \/ \E n \in Nodes : SetQuota(n)
    \/ \E r \in runs : Worker(r)
    \/ \E k \in Keys : Fiber(k)
    \/ \E p \in Plans : AggregationResult(p)

(* Each StartStress goroutine runs to its end; each run ends because its  *)
(* driver loop is bounded by the stress duration; each fiber goroutine    *)
(* keeps popping until its deadline; a StopStress handler, once called,  *)
(* runs to its end.  Stop calls, quota changes and request completions    *)
(* are made by users and servers at will.                                  *)
Fairness ==
    /\ \A p \in Plans : WF_vars(Controller(p))
    /\ WF_vars(\E r \in runs : Finish(r) \/ Release(r))
    /\ \A k \in Keys : WF_vars(Fiber(k))
    /\ \A p \in Plans : WF_vars(AggregationResult(p))
    /\ \A p \in Plans : WF_vars(StopRpcs(p) \/ StopUpdate(p))

Spec == Init /\ [][Next]_vars /\ Fairness

=============================================================================
