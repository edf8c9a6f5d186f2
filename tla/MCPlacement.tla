---------------------------- MODULE MCPlacement ----------------------------
(***************************************************************************)
(* Checks the placement walk of Placement over every small input: a      *)
(* snapshot of NodeCount worker records with quotas and costs up to      *)
(* MaxQuota, and every task with loads up to MaxLoad.  The two actions   *)
(* only move between inputs; each state is one call of                   *)
(* assignAndCalculateTask for one task.                                   *)
(***************************************************************************)
EXTENDS Placement, FiniteSets

CONSTANTS NodeCount, MaxQuota, MaxLoad, MaxMinutes

ASSUME NodeCount \in 1..3 /\ MaxQuota \in 1..4 /\ MaxLoad \in 1..4
ASSUME MaxMinutes \in 1..3

VARIABLES task, nodes
vars == <<task, nodes>>

Quotas == 0..MaxQuota

(* A ledger record as the ledger keeps it: at most one kind of cost      *)
(* (pinning); the cost may exceed the quota, since UpdateNodeQuota        *)
(* (node.go:188) overwrites the quotas and keeps the costs.  Or a live    *)
(* instance with no record yet.                                           *)
NodeRecords(i) ==
    {r \in {[addr |-> i, rpsCost |-> rc, gorCost |-> gc, rpsQuota |-> rq,
             gorQuota |-> gq, running |-> IF rc + gc > 0 THEN 1 ELSE 0,
             unExist |-> FALSE] :
               rq \in Quotas, gq \in Quotas, rc \in Quotas, gc \in Quotas} :
        r.rpsCost = 0 \/ r.gorCost = 0}
    \cup {NodeCostInfo(i, [rpsQuota |-> rq, gorQuota |-> gq], "none", FALSE) :
            rq \in Quotas, gq \in Quotas}

(* A task after admission: Step tasks keep MaxNum >= Num and StepNum > 0, *)
(* durations are whole minutes converted to seconds, and the step        *)
(* interval is at most the duration.                                     *)
\* <<duration, step interval>> in minutes, the interval within the duration.
Schedules == {ds \in (1..MaxMinutes) \X (1..MaxMinutes) : ds[2] <= ds[1]}

Tasks ==
    {[type |-> ty, step |-> FALSE, num |-> n, maxNum |-> 0, stepNum |-> 0,
      len |-> 1] : ty \in {Rps, Concurrency}, n \in 1..MaxLoad}
    \cup
    {t \in {[type |-> ty, step |-> TRUE, num |-> n, maxNum |-> mx, stepNum |-> s,
             len |-> IntervalLen(TRUE, ds[1] * 60, ds[2] * 60)] :
               ty \in {Rps, Concurrency}, n \in 1..MaxLoad, mx \in 1..MaxLoad,
               s \in 1..2, ds \in Schedules} :
        t.maxNum >= t.num}

Init ==
    /\ task \in Tasks
    /\ nodes = [i \in 1..NodeCount |->
                 NodeCostInfo(i, [rpsQuota |-> MaxQuota, gorQuota |-> MaxQuota],
                              "none", FALSE)]

PickTask == \E t \in Tasks : task' = t /\ UNCHANGED nodes

PickNode == \E i \in 1..NodeCount : \E r \in NodeRecords(i) :
                nodes' = [nodes EXCEPT ![i] = r] /\ UNCHANGED task

Next == PickTask \/ PickNode
Spec == Init /\ [][Next]_vars

Result == AssignTask(task, task.len, nodes)
Binds  == Result.binds
Node(b) == nodes[b.addr]

\* The capacity of a node for a task kind as the ledger states it.
Free(n, type) == IF type = Rps THEN n.rpsQuota - n.rpsCost ELSE n.gorQuota - n.gorCost

TypeOK ==
    /\ Result.assigned \in BOOLEAN
    /\ \A i \in 1..Len(Binds) :
          /\ Binds[i].addr \in 1..NodeCount
          /\ Binds[i].num \in Int
          /\ Binds[i].nums \in [1..task.len -> Int]

(* P1, Constant and Step: when assignAndCalculateTask binds a task, the   *)
(* shares of the bound nodes add up to curNum (Num, or max(Num, MaxNum)).  *)
SharesSumToTotal ==
    Result.assigned =>
        SumFunction([i \in 1..Len(Binds) |-> Binds[i].num]) = TotNums(task)

(* P1, Step: for every interval the per-node rates add up exactly to the  *)
(* ramp value of that interval, after the round-down split and the last   *)
(* node's remainder.                                                       *)
IntervalSharesMatchRamp ==
    (Result.assigned /\ task.step) =>
        \A j \in 1..task.len :
            SumFunction([i \in 1..Len(Binds) |-> Binds[i].nums[j]])
                = Ramp(task, task.len)[j]

(* P3: a node never ends up carrying both rps and goroutine cost: a node  *)
(* pinned to one kind is skipped by tasks of the other kind.              *)
PinningRespected ==
    \A i \in 1..Len(Binds) : Binds[i].new.rpsCost = 0 \/ Binds[i].new.gorCost = 0

(* "nodes are busy" is returned exactly when the usable nodes, together,  *)
(* have less free capacity than the task needs, as long as no record is  *)
(* over its quota (for one that is, see SharesNonNegative).               *)
BusyOnlyWhenShort ==
    LET usable == {i \in 1..NodeCount : Usable(nodes[i], task.type)}
        cap    == SumFunction([i \in usable |-> Free(nodes[i], task.type)])
    IN  (\A i \in 1..NodeCount : Free(nodes[i], task.type) >= 0) =>
            (~Result.assigned <=> cap < TotNums(task))

(* Violation run.  An Rps task never hands a worker a pacer frequency of  *)
(* zero: ConstantPacer.Pace returns (0, false) for Freq = 0, so the Rps   *)
(* driver would send without any pause on that node.                      *)
NoUnthrottledShare ==
    task.type = Rps => \A i \in 1..Len(Binds) : \A f \in PacerFreqs(task, Binds[i]) : f > 0

(* Violation run.  P5: what a worker gives back to its ledger record when *)
(* the task ends (done -> UpdateNodeCostNum) is what admission added for   *)
(* it (addCostNum), so the record returns to its pre-admission value.      *)
ReleaseMatchesShare ==
    \A i \in 1..Len(Binds) : ReleasedCost(task, Binds[i]) = Binds[i].num

(* Violation check (MCPlacement_SharesNonNegative.cfg).  P2: the walk     *)
(* never binds a negative share.  After UpdateNodeQuota lowers a quota    *)
(* below the node's cost, leftNum (biz_stress_start.go:150/155) is        *)
(* negative, addCostNum = min(curNum, leftNum) is too, and the node is    *)
(* bound with it: its Peck asks for a negative rate and the ledger record *)
(* is written with its cost lowered.                                       *)
SharesNonNegative ==
    \A i \in 1..Len(Binds) : Binds[i].num >= 0

=============================================================================
