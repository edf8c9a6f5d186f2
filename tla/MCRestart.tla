----------------------------- MODULE MCRestart -----------------------------
(***************************************************************************)
(* Checks the journal and restart of Restart over every small plan: each  *)
(* state is one plan as the API accepts it (its binding rules: a stress   *)
(* type and mode in 1..2, a duration of at least one minute, Num >= 1).   *)
(***************************************************************************)
EXTENDS Restart, FiniteSets

CONSTANTS k1, k2, v1, v2, MaxMinutes, MaxNum, MaxTasks

VARIABLE in
vars == <<in>>

EntryLists == {<<>>, <<<<k1, v1>>>>, <<<<k1, v1>>, <<k2, v2>>>>, <<<<k1, v1>>, <<k1, v2>>>>}

TaskInputs ==
    [num : 1..MaxNum, maxNum : 0..MaxNum, stepNum : 0..1, hdr : EntryLists,
     type : {0}, mode : {0}, headers : {Null},
     options : {<<>>, <<H2>>, <<DisableRedirects>>}, flags : {{}}]

Inputs ==
    UNION {[type : {ty}, mode : {mo}, S : 1..MaxMinutes, I : 1..MaxMinutes,
            tasks : UNION {[1..n -> TaskInputs] : n \in 1..MaxTasks}] :
             ty \in {Rps, Concurrency}, mo \in {Constants, Step}}

Init == in \in Inputs
Next == \E x \in Inputs : in' = x
Spec == Init /\ [][Next]_vars

\* What a restart must reproduce of an admitted plan.
Shape(a) ==
    [type |-> a.type, mode |-> a.mode, S |-> a.S, I |-> a.I, len |-> a.len,
     tasks |-> {[num |-> t.num, maxNum |-> t.maxNum, stepNum |-> t.stepNum,
                 headers |-> t.headers, flags |-> t.flags] : t \in {a.tasks[i] : i \in DOMAIN a.tasks}}]

(* RestartStress re-runs a plan: for a plan StartStress admitted and      *)
(* journalled, reading back its plan record and task records (in any      *)
(* order: they share one create_time) gives a plan that passes preCheck   *)
(* and is admitted with the same type, mode, duration, step schedule and  *)
(* tasks, headers and options included.                                   *)
RestartReproducesPlan ==
    PreCheck(in) =>
        LET a   == Admit(in)
            trs == [i \in DOMAIN a.tasks |-> TaskRecordOf(a, a.tasks[i])]
            r   == RestartStress(PlanRecordOf(a), trs)
        IN  /\ r.ok
            /\ PreCheck(r.plan)
            /\ Shape(Admit(r.plan)) = Shape(a)


(* Copying a plan in the UI and submitting the copy runs the same test:   *)
(* for a plan StartStress admitted and journalled, the plan               *)
(* QueryPlanAndTaskRecords returns (in the API's units, minutes, as the  *)
(* spec gives them) passes preCheck and is admitted with the same shape.  *)
CopyReproducesPlan ==
    PreCheck(in) =>
        LET a   == Admit(in)
            trs == [i \in DOMAIN a.tasks |-> TaskRecordOf(a, a.tasks[i])]
            c   == QueryPlanAndTaskRecords(PlanRecordOf(a), trs)
        IN  PreCheck(c) /\ Shape(Admit(c)) = Shape(a)

P == INSTANCE Placement

(* The task report shows, for each interval, the Num the task ran at:     *)
(* QueryPlanTaskRecords's per-interval Num is the ramp placement split    *)
(* (startNum raised by StepNum each interval, capped at MaxNum), for a    *)
(* task whose MaxNum is at least its Num.                                 *)
ReportNumsFollowRamp ==
    PreCheck(in) /\ in.mode = Step =>
        LET a   == Admit(in)
            trs == [i \in DOMAIN a.tasks |-> TaskRecordOf(a, a.tasks[i])]
        IN  \A i \in DOMAIN a.tasks :
                a.tasks[i].maxNum >= a.tasks[i].num =>
                    QueryPlanTaskRecords(trs, a.len)[i] = P!Ramp(a.tasks[i], a.len)
=============================================================================
