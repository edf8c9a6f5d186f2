------------------------------ MODULE Restart ------------------------------
(***************************************************************************)
(* A plan's journal and its restart (admin/biz/biz_stress_record.go and   *)
(* biz_stress_restart.go) as pure operators.  StartStress normalises the  *)
(* plan (minutes to seconds, the interval count, the task parameters),    *)
(* insertPlanTaskRecord writes the plan record and one task record per    *)
(* task, and RestartStress reads them back into a new Plan that it hands  *)
(* to StartStress again.                                                  *)
(*                                                                         *)
(* Data kept: the stress type and mode, the duration and step interval,   *)
(* the interval count, each task's Num, MaxNum and StepNum, and its       *)
(* headers, and its options (the Options list and the four flags it      *)
(* sets).  A header entry is a <<key, value>> pair.  A JSON value is a  *)
(* record tagged with its JSON kind, so that decoding it into a Go map    *)
(* fails on an array as encoding/json does.  URL, body and scripts are    *)
(* stored and read back verbatim and are left out.                        *)
(***************************************************************************)
EXTENDS Naturals, Sequences

CONSTANT MaxTaskCount   \* maxTaskCount of preCheck

Rps == 1
Concurrency == 2
Constants == 1
Step == 2

\* enums.SupportStressType: a member of systemSupportStressType.
SupportStressType(t) == t \in {Rps, Concurrency}

\* numx.CeilDiv(a, b), for b > 0.
CeilDiv(a, b) == (a + b - 1) \div b

\* A JSON value: null, an object (a Go map), or an array of entries.
Null == [json |-> "null"]
Object(m) == [json |-> "object", map |-> m]
Array(l) == [json |-> "array", items |-> l]

\* parseEntryList: nil for no entries; otherwise the map in which a later
\* entry of a key overwrites an earlier one.
ParseEntryList(l) ==
    IF l = <<>> THEN Null
    ELSE LET keys == {l[i][1] : i \in DOMAIN l}
             last(k) == CHOOSE i \in DOMAIN l : l[i][1] = k /\ \A j \in DOMAIN l : l[j][1] = k => j <= i
         IN  Object([k \in keys |-> l[last(k)][2]])

\* The option names of the UI's Options list.
DisableCompression == "disableCompression"
DisableKeepAlive == "disableKeepAlive"
DisableRedirects == "disableRedirect"
H2 == "enableHttp2"
OptionNames == {DisableKeepAlive, DisableCompression, DisableRedirects, H2}

\* parseOtherOptions: whether option o is in the list.
ParseOtherOptions(opts, o) == \E i \in DOMAIN opts : opts[i] = o

\* preCheck: the stress type and the task count (the URLs, bodies and
\* scripts of the inputs pass their checks).
PreCheck(in) == SupportStressType(in.type) /\ Len(in.tasks) <= MaxTaskCount

\* taskParamSetting: the plan's parameters copied into the task, and its
\* entry lists parsed into its maps, and each flag (here the set of the
\* flags that are true) set from the Options list.
TaskParamSetting(a, t) ==
    [t EXCEPT !.type = a.type, !.mode = a.mode, !.headers = ParseEntryList(t.hdr),
              !.flags = {o \in OptionNames : ParseOtherOptions(t.options, o)}]

(***************************************************************************)
(* StartStress up to placement: durations to seconds and the interval     *)
(* count (a Constant plan has one interval as long as the plan), then     *)
(* taskParamSetting for every task.                                       *)
(***************************************************************************)
Admit(in) ==
    LET S    == in.S * 60
        step == in.mode = Step
        I    == IF step THEN in.I * 60 ELSE S
        len  == IF step THEN IF CeilDiv(S, I) > 1 THEN CeilDiv(S, I) ELSE 1 ELSE 1
    IN  [type |-> in.type, mode |-> in.mode, S |-> S, I |-> I, len |-> len,
         tasks |-> [i \in DOMAIN in.tasks |-> TaskParamSetting(in, in.tasks[i])]]

(***************************************************************************)
(* insertPlanTaskRecord: the plan record keeps the plan's shape; a task   *)
(* record is copier.Copy of the task (same-named fields: the nums, the    *)
(* type) with the plan's mode, and its header column is the JSON of the   *)
(* headers map, or of the entry list when the request had entries.  The   *)
(* flag columns are int8: copier does not convert a bool into one, and    *)
(* the code sets three of them by cast.ToInt8, all but H2, which stays 0. *)
(***************************************************************************)
PlanRecordOf(a) == [type |-> a.type, mode |-> a.mode, S |-> a.S, I |-> a.I, len |-> a.len]

TaskRecordOf(a, t) ==
    [num |-> t.num, maxNum |-> t.maxNum, stepNum |-> t.stepNum, type |-> t.type,
     mode |-> a.mode, header |-> IF t.hdr # <<>> THEN Array(t.hdr) ELSE t.headers,
     flags |-> t.flags \ {H2}]

(***************************************************************************)
(* RestartStress: a task is copied back from its record and its header    *)
(* column decoded into a map (an error ends the restart) and its flags    *)
(* set from the flag columns (a record has no Options); the new Plan      *)
(* carries the record's StressTime, the user and name, and the tasks, and *)
(* nothing else.  Returns [ok, plan] with plan a StartStress input.       *)
(***************************************************************************)
TaskOfRecord(tr) ==
    [num |-> tr.num, maxNum |-> tr.maxNum, stepNum |-> tr.stepNum, type |-> tr.type,
     mode |-> tr.mode, hdr |-> <<>>, options |-> <<>>, flags |-> tr.flags,
     headers |-> IF tr.header.json = "object" THEN tr.header ELSE Null]

RestartStress(pr, trs) ==
    IF \E i \in DOMAIN trs : trs[i].header.json = "array"
    THEN [ok |-> FALSE]
    ELSE [ok |-> TRUE,
          plan |-> [type |-> 0, mode |-> 0, S |-> pr.S, I |-> 0,
                    tasks |-> [i \in DOMAIN trs |-> TaskOfRecord(trs[i])]]]


(***************************************************************************)
(* QueryPlanAndTaskRecords (the UI's copy of a plan): copier.Copy of the  *)
(* plan record with StressTime back in minutes; each task copied from its *)
(* record, its header entries decoded from the header column.  The plan  *)
(* reaches the client as JSON, which drops the json:"-" fields (a task's  *)
(* type and mode, its Headers map, its flags), and comes back as a        *)
(* StartStress input; its Options list is rebuilt from the flag columns.  *)
(***************************************************************************)
\* getFromEntryList: the entries of a JSON array; nil for anything else.
GetFromEntryList(j) == IF j.json = "array" THEN j.items ELSE <<>>

\* getTaskOption: the options of the flag columns that are 1, in this order.
GetTaskOption(tr) ==
    SelectSeq(<<DisableKeepAlive, DisableCompression, DisableRedirects, H2>>,
              LAMBDA o : o \in tr.flags)

CopyTask(tr) ==
    [num |-> tr.num, maxNum |-> tr.maxNum, stepNum |-> tr.stepNum, type |-> 0,
     mode |-> 0, hdr |-> GetFromEntryList(tr.header), headers |-> Null,
     options |-> GetTaskOption(tr), flags |-> {}]

QueryPlanAndTaskRecords(pr, trs) ==
    [type |-> pr.type, mode |-> pr.mode, S |-> pr.S \div 60, I |-> pr.I,
     tasks |-> [i \in DOMAIN trs |-> CopyTask(trs[i])]]

\* QueryPlanTaskRecords: report j of a task (one per interval of its
\* summary) shows Num + (j-1) * StepNum as the interval's Num.
ReportNums(tr, len) == [j \in 1..len |-> tr.num + (j - 1) * tr.stepNum]

\* QueryPlanTaskRecords: the plan's task records, each with its reports
\* (the record's summary, one per interval, decoded from StatExt).
QueryPlanTaskRecords(trs, len) == [i \in DOMAIN trs |-> ReportNums(trs[i], len)]
=============================================================================
