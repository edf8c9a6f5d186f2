----------------------------- MODULE MCRegistry -----------------------------
(***************************************************************************)
(* One server registering with etcd.  The heartbeat retries maxRetry      *)
(* times (MaxRetry); etcd fails at most MaxFaults times.  The pass run    *)
(* lets etcd fail more often than the heartbeat retries; its liveness     *)
(* property speaks of the behaviours with at most MaxRetry failures.      *)
(***************************************************************************)
EXTENDS Registry

TypeOK ==
    /\ srv \in {"init", "serving", "notServing", "closed"}
    /\ hb \in {"none", "start", "keep", "retry", "drain", "blocked", "returned"}
    /\ lid \in 0..MaxLeases /\ cur \in 0..MaxLeases
    /\ kac \in [l : 0..MaxLeases, open : BOOLEAN]
    /\ cnt \in 0..MaxRetry
    /\ cancelled \in BOOLEAN
    /\ leases \subseteq 1..MaxLeases /\ key \in 0..MaxLeases
    /\ granted \in 0..MaxLeases /\ faults \in 0..MaxFaults

(* While heartBeat sits in its select with an open keep-alive channel, the *)
(* server's key exists and is attached to the very lease being kept alive: *)
(* Unregister cancels the heartbeat before deleting the key, and every     *)
(* re-registration keeps alive the lease it just put the key on.           *)
KeptLeaseHoldsKey ==
    (hb = "keep" /\ kac.open) => key = kac.l

(* A running heartbeat whose key has gone (its lease lost or expired)     *)
(* puts it back, unless the server is unregistered: the retry loop         *)
(* re-registers after a closed keep-alive channel or a KeepAlive error.    *)
HeartbeatRestoresKey ==
    (hb \in {"start", "keep", "retry", "drain"} /\ key = 0) ~> (key # 0 \/ cancelled)

(* Within its retry budget the heartbeat keeps the server registered: in  *)
(* every behaviour in which etcd fails no more than maxRetry times, a key *)
(* that is lost while heartBeat runs is put back (HeartbeatRestoresKey).  *)
(* Beyond that budget the loop gives up, which is the hazard at etcd.go's *)
(* receive after the loop.                                                *)
HeartbeatRestoresKeyWithinRetries ==
    [](faults <= MaxRetry) => HeartbeatRestoresKey

(* After Unregister cancels its context, the heartbeat goroutine ends.    *)
HeartbeatEndsOnUnregister ==
    cancelled ~> (hb \in {"none", "returned"})

(* Violation run.  A server whose Start returned nil serves and is        *)
(* registered, until it is closed.                                          *)
StartedServerServes ==
    <>(srv \in {"serving", "closed"})

=============================================================================
