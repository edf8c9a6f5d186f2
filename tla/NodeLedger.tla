----------------------------- MODULE NodeLedger -----------------------------
(***************************************************************************)
(* The node cost ledger kept in etcd under /node/node_info_m4/<addr>      *)
(* (internal/mods/common/data/node.go).  A ledger is a function from      *)
(* worker addresses to a record [addr, rpsCost, gorCost, rpsQuota,        *)
(* gorQuota, running] or None when the key does not exist.  The JSON      *)
(* value compared by the transactions is the whole record, so a record    *)
(* equality stands for the value comparison.                              *)
(***************************************************************************)
EXTENDS Integers, Sequences

CONSTANT None

(***************************************************************************)
(* UpdateNodeInfoList: one transaction whose conditions are "value equals *)
(* the previous record" (or "version = 0" when the previous record is     *)
(* nil) and whose effects put the new records.  etcd refuses a            *)
(* transaction that puts the same key twice.  Returns [ok, ledger].       *)
(***************************************************************************)
CasBatch(led, pairs) ==
    LET keys == {pairs[i][2].addr : i \in DOMAIN pairs}
        cond == \A i \in DOMAIN pairs :
                    IF pairs[i][1] = "none" THEN led[pairs[i][2].addr] = None
                    ELSE led[pairs[i][2].addr] = pairs[i][1]
        dup  == \E i, j \in DOMAIN pairs : i # j /\ pairs[i][2].addr = pairs[j][2].addr
        put  == [a \in DOMAIN led |->
                    IF a \in keys
                    THEN (CHOOSE i \in DOMAIN pairs : pairs[i][2].addr = a)[2]
                    ELSE led[a]]
    IN  IF ~dup /\ cond THEN [ok |-> TRUE, ledger |-> put]
        ELSE [ok |-> FALSE, ledger |-> led]

(***************************************************************************)
(* UpdateNodeCostNum, the value it writes back: the read record with the  *)
(* task's cost taken off the field of its stress type and one running     *)
(* task less.                                                              *)
(***************************************************************************)
Released(rec, type, num) ==
    [rec EXCEPT !.rpsCost = IF type = 1 THEN @ - num ELSE @,
                !.gorCost = IF type = 1 THEN @ ELSE @ - num,
                !.running = @ - 1]

(***************************************************************************)
(* UpdateNodeQuota: a missing key is created with the quotas and zero     *)
(* costs; an existing record keeps its costs and gets the new quotas.     *)
(***************************************************************************)
WithQuota(rec, addr, q) ==
    IF rec = None
    THEN [addr |-> addr, rpsCost |-> 0, gorCost |-> 0,
          rpsQuota |-> q.rpsQuota, gorQuota |-> q.gorQuota, running |-> 0]
    ELSE [rec EXCEPT !.rpsQuota = q.rpsQuota, !.gorQuota = q.gorQuota]

=============================================================================
