----------------------------- MODULE Placement -----------------------------
(***************************************************************************)
(* The controller's placement of one plan's tasks on worker nodes, as     *)
(* pure operators: internal/mods/admin/biz/biz_stress_start.go            *)
(* (getNodeCostInfoByInstances, the interval schedule of StartStress and  *)
(* assignAndCalculateTask) and pkg/numx.CeilDiv.                           *)
(*                                                                         *)
(* A snapshot is the sequence of NodeInstanceCost records in the order    *)
(* the registry returned the worker instances.  A task is a record        *)
(* [type, step, num, maxNum, stepNum].  The walk returns the BindNode     *)
(* list of the task and whether the task was fully assigned.              *)
(***************************************************************************)
EXTENDS Integers, Sequences, Functions

Rps         == 1     \* enums.Rps
Concurrency == 2     \* enums.Concurrency

GoMin(a, b) == IF a < b THEN a ELSE b
GoMax(a, b) == IF a > b THEN a ELSE b

\* Go's integer division truncates toward zero.
GoQuo(a, b) ==
    LET q == (IF a < 0 THEN -a ELSE a) \div (IF b < 0 THEN -b ELSE b)
    IN  IF (a < 0) # (b < 0) THEN -q ELSE q

\* numx.CeilDiv
CeilDiv(a, b) == (a + b - 1) \div b

\* StartStress: intervalLen is 1 in Constant mode, max(1, ceil(D/S)) in Step mode.
IntervalLen(step, D, S) == IF step THEN GoMax(1, CeilDiv(D, S)) ELSE 1

(***************************************************************************)
(* The ramp the walk splits in Step mode: startNum begins at task.Num and *)
(* after each interval becomes min(startNum + StepNum, MaxNum).           *)
(***************************************************************************)
Ramp(t, len) ==
    LET f[j \in 1..len] == IF j = 1 THEN t.num
                           ELSE GoMin(f[j-1] + t.stepNum, t.maxNum)
    IN  f

\* curNum before the walk: Num, or max(Num, MaxNum) in Step mode.
TotNums(t) == IF t.step THEN GoMax(t.num, t.maxNum) ELSE t.num

(***************************************************************************)
(* getNodeCostInfoByInstances: a live instance with a ledger record takes *)
(* its costs and quotas from the record; one without starts from zero     *)
(* costs and the quotas of its registry metadata, and is marked UnExist.  *)
(***************************************************************************)
NodeCostInfo(addr, meta, rec, exists) ==
    IF exists
    THEN [addr |-> addr, rpsCost |-> rec.rpsCost, gorCost |-> rec.gorCost,
          rpsQuota |-> rec.rpsQuota, gorQuota |-> rec.gorQuota,
          running |-> rec.running, unExist |-> FALSE]
    ELSE [addr |-> addr, rpsCost |-> 0, gorCost |-> 0,
          rpsQuota |-> meta.rpsQuota, gorQuota |-> meta.gorQuota,
          running |-> 0, unExist |-> TRUE]

(***************************************************************************)
(* A node already carrying rps cost is only usable by an Rps task, one    *)
(* carrying goroutine cost only by a Concurrency task (the `continue`s).  *)
(***************************************************************************)
\* Variant: the pinned-node `continue`s dropped.
UsableAnyNode(node, type) == TRUE

Usable(node, type) ==
    IF node.rpsCost > 0 THEN type = Rps
    ELSE IF node.gorCost > 0 THEN type = Concurrency
    ELSE TRUE

\* Variant: leftNum taken as the bare quota, the cost not subtracted.
LeftNumNoCost(node, type) ==
    IF type = Rps THEN node.rpsQuota ELSE node.gorQuota

LeftNum(node, type) ==
    IF node.rpsCost > 0 THEN node.rpsQuota - node.rpsCost
    ELSE IF node.gorCost > 0 THEN node.gorQuota - node.gorCost
    ELSE IF type = Rps THEN node.rpsQuota ELSE node.gorQuota

\* Variant: addCostNum = leftNum, the min with curNum dropped.
AddCostNoMin(cur, node, type) == LeftNum(node, type)

\* addCostNum = min(curNum, leftNum)
AddCost(cur, node, type) == GoMin(cur, LeftNum(node, type))

(***************************************************************************)
(* The per-interval split of one node's share: round down                 *)
(* startNum * addCost / totNums, except that the node that completes the  *)
(* assignment (rest <= 0) takes startNum minus what earlier nodes took.    *)
(* Returns the node's nums and the updated running totals `costs`.        *)
(***************************************************************************)
\* Variant: the interval loop stops one interval short.
SplitShareShort(sched, add, tot, rest, costs) ==
    LET nums == [j \in 1..(Len(sched) - 1) |-> GoQuo(sched[j] * add, tot)]
    IN  [nums |-> nums, costs |-> costs]

\* Variant: the last node gets its rounded-down share, not the remainder.
SplitShareNoRemainder(sched, add, tot, rest, costs) ==
    LET nums == [j \in 1..Len(sched) |-> GoQuo(sched[j] * add, tot)]
    IN  [nums |-> nums, costs |-> [j \in 1..Len(sched) |-> costs[j] + nums[j]]]

SplitShare(sched, add, tot, rest, costs) ==
    LET len  == Len(sched)
        nums == [j \in 1..len |-> IF rest <= 0 THEN sched[j] - costs[j]
                                  ELSE GoQuo(sched[j] * add, tot)]
    IN  [nums  |-> nums,
         costs |-> IF rest <= 0 THEN costs
                   ELSE [j \in 1..len |-> costs[j] + nums[j]]]

\* The updated ledger record (newNodeInfo) for a node given a share.
NewNodeInfo(node, type, add) ==
    [addr |-> node.addr,
     rpsCost |-> IF type = Rps THEN node.rpsCost + add ELSE node.rpsCost,
     gorCost |-> IF type = Concurrency THEN node.gorCost + add ELSE node.gorCost,
     rpsQuota |-> node.rpsQuota, gorQuota |-> node.gorQuota,
     running |-> node.running + 1]

PrevNodeInfo(node) ==
    [addr |-> node.addr, rpsCost |-> node.rpsCost, gorCost |-> node.gorCost,
     rpsQuota |-> node.rpsQuota, gorQuota |-> node.gorQuota,
     running |-> node.running]

(***************************************************************************)
(* The loop over nodeCostInfos of assignAndCalculateTask for one task.    *)
(* Each bound node yields [addr, num, nums, prev, new]; prev is "none"    *)
(* for a node without a ledger record (the nil half of the CAS pair).     *)
(***************************************************************************)
RECURSIVE WalkFrom(_, _, _, _, _, _, _)
WalkFrom(t, sched, nodes, i, cur, costs, binds) ==
    IF i > Len(nodes) THEN [assigned |-> FALSE, binds |-> binds]
    ELSE
      LET node == nodes[i] IN
      IF ~Usable(node, t.type)
      THEN WalkFrom(t, sched, nodes, i + 1, cur, costs, binds)
      ELSE
        LET add   == AddCost(cur, node, t.type)
            rest  == cur - add
            split == IF t.step
                     THEN SplitShare(sched, add, TotNums(t), rest, costs)
                     ELSE [nums |-> [j \in 1..Len(sched) |-> 0], costs |-> costs]
            bind  == [addr |-> node.addr, num |-> add, nums |-> split.nums,
                      prev |-> IF node.unExist THEN "none" ELSE PrevNodeInfo(node),
                      new  |-> NewNodeInfo(node, t.type, add)]
            binds2 == Append(binds, bind)
        IN  IF rest <= 0
            THEN [assigned |-> TRUE, binds |-> binds2]
            ELSE WalkFrom(t, sched, nodes, i + 1, rest, split.costs, binds2)

\* Variant: curNum starts at Num in Step mode too, without max(Num, MaxNum).
AssignTaskFromNum(t, len, nodes) ==
    LET sched == Ramp(t, len) IN
    WalkFrom(t, sched, nodes, 1, t.num, [j \in 1..len |-> 0], <<>>)

AssignTask(t, len, nodes) ==
    LET sched == Ramp(t, len) IN
    WalkFrom(t, sched, nodes, 1, TotNums(t), [j \in 1..len |-> 0], <<>>)

(***************************************************************************)
(* What the worker makes of a bound share (pecker/biz request.go, step.go).*)
(* The Rps drivers pace with ConstantPacer{Num} in Constant mode and with *)
(* ConstantPacer{Nums[interval]} in Step mode; ConstantPacer.Pace treats  *)
(* Freq = 0 as an unbounded rate.  On completion, done() gives back Num,  *)
(* or the last entry of Nums in Step mode, to the node's ledger record.   *)
(***************************************************************************)
PacerFreqs(t, b) ==
    IF t.step THEN {b.nums[j] : j \in DOMAIN b.nums} ELSE {b.num}

ReleasedCost(t, b) ==
    IF t.step /\ Len(b.nums) > 0 THEN b.nums[Len(b.nums)] ELSE b.num

=============================================================================
