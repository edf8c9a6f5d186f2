----------------------------- MODULE NodeReport -----------------------------
(***************************************************************************)
(* A worker's node reports and its shutdown (pecker/server/pecker.go), the *)
(* node state lists in Redis they write (common/data/node.go), and the    *)
(* admin's QueryNodes chart (admin/biz/biz_node.go).                       *)
(*                                                                         *)
(* Run starts the gRPC server and the ReportNodeTask goroutine, whose     *)
(* ticker pushes a sample every 5 s until the process exits: one MULTI of *)
(* LPUSH, LTRIM 0..KeepLen-1 and EXPIRE on node_state:<addr>.  A signal   *)
(* runs the cleanup (gracefulStop, then deleteNodeInfo: the node_info key *)
(* in etcd, then DeleteNodeStateInfo) and os.Exit; the ticker goroutine   *)
(* is never stopped.  A worker restarts under the same address.           *)
(*                                                                         *)
(* Redis is a list per key; an empty list is an absent key.  A key is a  *)
(* record [ns, key]: cachex's getKey(ns, key) is ns ":" key, and the raw  *)
(* pipelines of nodeRepository use the key with no namespace (ns "").     *)
(* A sample is [run, n]: the worker's run and its count of reports.  The  *)
(* one-day TTL ends a list only once its writer is gone.                  *)
(***************************************************************************)
EXTENDS Naturals, Sequences, SequencesExt

CONSTANTS Addrs,       \* the workers' endpoints
          KeepLen,     \* nodeStatusKeepLength
          QueryLen,    \* nodeStatusQueryLength
          NodeNs,      \* NodeNs, the namespace DeleteNodeStateInfo passes
          MaxReports,  \* reports of one address in a behaviour
          MaxBoots     \* runs of one address in a behaviour

VARIABLES proc,    \* per address: down, up, closing, deleting, exiting
          boots,   \* per address: runs started
          sent,    \* per address: reports pushed
          store,   \* Redis: key -> list, head first
          hist,    \* key -> every sample pushed since the list was created
          info,    \* addresses with a node_info key in etcd
          shown    \* per address: the samples the last QueryNodes returned

vars == <<proc, boots, sent, store, hist, info, shown>>

Keys == [ns : {"", NodeNs}, key : Addrs]

\* fmt.Sprintf(nodeStateKey, addr), used raw by the pipelines.
NodeStateKey(a) == [ns |-> "", key |-> a]

\* cachex getKey(ns, key).
GetKey(ns, k) == [k EXCEPT !.ns = ns]

\* The first n entries: LRANGE key 0 n-1 and LTRIM key 0 n-1.
LRange(s, n) == SubSeq(s, 1, IF n < Len(s) THEN n ELSE Len(s))

\* The last n entries of a sequence, in order.
LastN(s, n) == SubSeq(s, Len(s) - (IF n < Len(s) THEN n ELSE Len(s)) + 1, Len(s))

Clear(k) == /\ store' = [store EXCEPT ![k] = <<>>]
            /\ hist' = [hist EXCEPT ![k] = <<>>]

\* Run: go grpcServer.Start() and go ReportNodeTask().
Boot(a) ==
    /\ proc[a] = "down" /\ boots[a] < MaxBoots
    /\ proc' = [proc EXCEPT ![a] = "up"]
    /\ boots' = [boots EXCEPT ![a] = @ + 1]
    /\ sent' = [sent EXCEPT ![a] = 0]
    /\ UNCHANGED <<store, hist, info, shown>>

\* ReportNodeInfo's MULTI on the node's list.
ReportNodeInfo(a, s) ==
    LET k == NodeStateKey(a) IN
    /\ store' = [store EXCEPT ![k] = LRange(<<s>> \o @, KeepLen)]
    /\ hist' = [hist EXCEPT ![k] = Append(@, s)]

\* A tick of ReportNodeTask: GetNodeState, then ReportNodeInfo.
ReportNodeTask(a) ==
    /\ proc[a] # "down" /\ sent[a] < MaxReports
    /\ ReportNodeInfo(a, [run |-> boots[a], n |-> sent[a] + 1])
    /\ sent' = [sent EXCEPT ![a] = @ + 1]
    /\ UNCHANGED <<proc, boots, info, shown>>

\* A signal other than SIGHUP ends GracefulRun's loop: cleanFn's gracefulStop.
Signal(a) ==
    /\ proc[a] = "up"
    /\ proc' = [proc EXCEPT ![a] = "closing"]
    /\ UNCHANGED <<boots, sent, store, hist, info, shown>>

\* deleteNodeInfo: DeleteNodeInfo deletes the etcd key ...
DeleteNodeInfo(a) ==
    /\ proc[a] = "closing"
    /\ info' = info \ {a}
    /\ proc' = [proc EXCEPT ![a] = "deleting"]
    /\ UNCHANGED <<boots, sent, store, hist, shown>>

\* ... then DeleteNodeStateInfo: cachex Delete(NodeNs, key) deletes
\* getKey(NodeNs, key) if it exists.
DeleteNodeStateInfo(a) ==
    /\ proc[a] = "deleting"
    /\ LET k == GetKey(NodeNs, NodeStateKey(a))
       IN  IF store[k] # <<>> THEN Clear(k) ELSE UNCHANGED <<store, hist>>
    /\ proc' = [proc EXCEPT ![a] = "exiting"]
    /\ UNCHANGED <<boots, sent, info, shown>>

\* time.Sleep(100 ms) and os.Exit: the ticker goroutine dies with the process.
Exit(a) ==
    /\ proc[a] = "exiting"
    /\ proc' = [proc EXCEPT ![a] = "down"]
    /\ UNCHANGED <<boots, sent, store, hist, info, shown>>

\* EXPIRE: a day with no report, which needs the writer gone.
Expire(k) ==
    /\ store[k] # <<>> /\ proc[k.key] = "down"
    /\ Clear(k)
    /\ UNCHANGED <<proc, boots, sent, info, shown>>

\* NodeUsecase.UpdateNodeQuota: Put a new node_info, or CAS the quota into it.
UpdateNodeQuota(a) ==
    /\ info' = info \cup {a}
    /\ UNCHANGED <<proc, boots, sent, store, hist, shown>>

\* BatchGetNodeState of one address: LRANGE 0..QueryLen-1, head first.
BatchGetNodeState(a) == LRange(store[NodeStateKey(a)], QueryLen)

\* NodeUsecase.QueryNodes: the states reversed to oldest first.
QueryNodes(a) ==
    /\ shown' = [shown EXCEPT ![a] = Reverse(BatchGetNodeState(a))]
    /\ UNCHANGED <<proc, boots, sent, store, hist, info>>

Init ==
    /\ proc = [a \in Addrs |-> "down"] /\ boots = [a \in Addrs |-> 0]
    /\ sent = [a \in Addrs |-> 0]
    /\ store = [k \in Keys |-> <<>>] /\ hist = [k \in Keys |-> <<>>]
    /\ info = {} /\ shown = [a \in Addrs |-> <<>>]

Next ==
    \/ \E a \in Addrs :
          \/ Boot(a) \/ ReportNodeTask(a) \/ Signal(a) \/ DeleteNodeInfo(a)
          \/ DeleteNodeStateInfo(a) \/ Exit(a) \/ UpdateNodeQuota(a) \/ QueryNodes(a)
    \/ \E k \in Keys : Expire(k)

Spec == Init /\ [][Next]_vars

-----------------------------------------------------------------------------
\* GetNodeState's sample, reduced to the run and report it came from.
Samples == [run : 1..MaxBoots, n : 1..MaxReports]

TypeOK ==
    /\ proc \in [Addrs -> {"down", "up", "closing", "deleting", "exiting"}]
    /\ boots \in [Addrs -> 0..MaxBoots] /\ sent \in [Addrs -> 0..MaxReports]
    /\ store \in [Keys -> Seq(Samples)] /\ hist \in [Keys -> Seq(Samples)]
    /\ info \subseteq Addrs /\ shown \in [Addrs -> Seq(Samples)]

\* QueryNodes charts the latest QueryLen samples of the node, oldest first:
\* LPUSH with LTRIM to KeepLen, LRANGE 0..QueryLen-1 and the reversal in
\* QueryNodes compose to the tail of what ReportNodeInfo pushed.
QueryShowsLatest ==
    [][\A a \in Addrs :
         shown'[a] # shown[a] => shown'[a] = LastN(hist[NodeStateKey(a)], QueryLen)]_vars

\* deleteNodeInfo removes the node's state list when the worker shuts down:
\* a worker that has exited has none (until it runs again).
StateGoneAfterExit ==
    \A a \in Addrs : proc[a] = "down" => store[NodeStateKey(a)] = <<>>

=============================================================================
