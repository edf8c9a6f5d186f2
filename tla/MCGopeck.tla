----------------------------- MODULE MCGopeck -------------------------------
(***************************************************************************)
(* Two workers and up to two concurrent StartStress calls.  Plan p1 is a *)
(* Constant Rps plan of one task with 2 rps; plan p2 a Step Rps plan      *)
(* (2 minutes, a step every minute, so two intervals) of one task ramping *)
(* from 1 to 2 rps.  Worker n1 advertises quotas of 1 and n2 quotas of 2, *)
(* so p2 is split over both workers and p1 fits on n2 alone; both plans   *)
(* fit together only if the ledger is charged.  The administrator may    *)
(* take n2 out of service (UpdateNodeQuota to zero), so that admission   *)
(* can find the nodes busy.  The overload run admits both plans; the     *)
(* other runs admit p2 alone, the safety and duplicate-run runs with two  *)
(* Peck attempts per connection and the others with one.                 *)
(***************************************************************************)
EXTENDS Gopeck, FiniteSetsExt, TLC

CONSTANTS n1, n2, p1, p2

MCNodes     == {n1, n2}
MCNodeOrder == <<n1, n2>>
MCMeta      == n1 :> [rpsQuota |-> 1, gorQuota |-> 1] @@ n2 :> [rpsQuota |-> 2, gorQuota |-> 2]
MCPlans     == {p1, p2}
MCOnePlan   == {p2}
MCConstPlan == {p1}
MCReq       ==
    p1 :> [type |-> Rps, step |-> FALSE, D |-> 1, S |-> 0,
           tasks |-> <<[num |-> 2, maxNum |-> 0, stepNum |-> 0]>>]
 @@ p2 :> [type |-> Rps, step |-> TRUE, D |-> 2, S |-> 1,
           tasks |-> <<[num |-> 1, maxNum |-> 2, stepNum |-> 1]>>]
MCAdminQuotas == n1 :> {} @@ n2 :> {[rpsQuota |-> 0, gorQuota |-> 0]}
MCMaxPeckTries == 2
MCOneTry       == 1

Finished(p) == pc[p] \in {"ok", "failed"}
RunsOf(p)   == {r \in runs : r.p = p}

TypeOK ==
    /\ ledger \in [Nodes -> {None} \cup
                   [addr : Nodes, rpsCost : Int, gorCost : Int,
                    rpsQuota : Int, gorQuota : Int, running : Int]]
    /\ pc \in [Plans -> {"start", "placed", "journaled", "dispatch", "ok", "failed"}]
    /\ tries \in [Plans -> 0..(MaxPeckTries - 1)]
    /\ planRec \in [Plans -> {"none", "DOING", "STOP"}]
    /\ taskRec \in [Plans -> {"none", "DOING"}]
    /\ integ \in [Plans -> BOOLEAN]
    /\ \A r \in runs : r.p \in Plans /\ r.n \in Nodes
                       /\ r.phase \in {"drive", "release"}
                       /\ r.copy \in 1..MaxPeckTries
    /\ flag \in [Nodes -> [Keys -> {"absent", "false", "true"}]]
    /\ nilDeref \in BOOLEAN
    /\ fib \in [Keys -> {"none", "pop", "calc", "done", "dead"}]
    /\ \A k \in Keys : rs[k] \in [1..LenOf(k[1]) -> Nat]
    /\ taskDone \in [Keys -> BOOLEAN]
    /\ resDone \in [Plans -> BOOLEAN]
    /\ intPanic \in BOOLEAN
    /\ stopPc \in [Plans -> {"idle", "rpc", "update"}]
    /\ \A p \in Plans : stopLeft[p] \subseteq TaskIdx(p)

(* No worker runs a task whose plan and task records were not written and *)
(* whose integrator fiber was not started: StartStress journals and calls *)
(* Integrate before the first Peck, and gives up on an error of either.   *)
DispatchFollowsJournal ==
    \A r \in runs : planRec[r.p] # "none" /\ taskRec[r.p] # "none" /\ integ[r.p]

(* Every aggregation fiber that IntegrateReport starts ends: it leaves   *)
(* its pop loop on a stop mark or at its deadline, then computes and       *)
(* writes (or its process fails).                                          *)
FiberEnds ==
    \A k \in Keys : (fib[k] = "pop") ~> (fib[k] \in {"done", "dead"})

(* Violation run.  P2: the rps a worker drives at once, over all the runs *)
(* on it, stays within the quota its registry metadata advertises;        *)
(* admission is meant to charge each share to the ledger before it binds  *)
(* the next plan.                                                          *)
NodeLoadWithinQuota ==
    \A n \in Nodes :
        MapThenSumSet(LAMBDA r : IF r.n = n /\ r.phase = "drive" THEN r.num ELSE 0, runs)
            <= Meta[n].rpsQuota

(* Violation run.  A StartStress call that returns an error leaves no     *)
(* trace: no plan record, no integrator fiber and no worker runs.          *)
FailedAdmissionLeavesNoTrace ==
    \A p \in Plans :
        pc[p] = "failed" => planRec[p] = "none" /\ ~integ[p] /\ RunsOf(p) = {}

(* Violation run.  A Stop RPC always finds the stops entry of the task on *)
(* the worker, and a running request always finds it: Stop and goRequest  *)
(* dereference stops[taskId] without checking it exists.                  *)
StopFindsFlag == ~nilDeref

(* Violation run.  A worker runs a bound task at most once: each binding   *)
(* of the walk is dispatched by one Peck.                                  *)
OneRunPerBinding ==
    \A r1, r2 \in runs : (r1.p = r2.p /\ r1.t = r2.t /\ r1.n = r2.n) => r1 = r2

(* Violation run.  Every aggregate a worker pushes for a task is merged  *)
(* into the task's summaries: the stop-marked aggregate is meant to be     *)
(* consumed after all earlier aggregates of the task before the list is   *)
(* cleared.                                                                 *)
AggregatesNotLost ==
    \A k \in Keys : fib[k] = "done" => pushed[k] \subseteq Range(merged[k])

(* Violation run.  latencyCalculate never divides by NumRes = 0: every     *)
(* interval of a task the fiber summarises has at least one response.      *)
NoEmptyInterval == ~intPanic

(* Violation run.  A plan whose results were all aggregated ends up DONE   *)
(* (or STOP) in the plan records: aggregationResult's final update.        *)
PlanEventuallyClosed ==
    \A p \in Plans : resDone[p] ~> (planRec[p] \in {"DONE", "STOP"})

=============================================================================
