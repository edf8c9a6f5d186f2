------------------------------ MODULE Registry ------------------------------
(***************************************************************************)
(* Service registration of one gRPC server (pkg/registry): GrpcServer     *)
(* Start and Close, EtcdRegistry Register and Unregister, and the         *)
(* heartBeat goroutine with its re-registration loop.  etcd is a set of   *)
(* live leases and the server's key, attached to one lease or absent (0). *)
(* A lease that nobody keeps alive expires after its TTL and takes its    *)
(* key with it.  etcd misbehaves at most MaxFaults times: a failed Grant  *)
(* or Put, a failed KeepAlive call, or a kept lease lost.                 *)
(***************************************************************************)
EXTENDS Naturals

CONSTANTS MaxRetry,   \* EtcdRegistry options.maxRetry
          MaxLeases,  \* lease ids 1..MaxLeases that etcd can grant
          MaxFaults   \* etcd failures in one behaviour

VARIABLES srv,        \* GrpcServer: init, serving, notServing, closed
          hb,         \* heartBeat's place: none, start, keep, retry, drain, blocked, returned
          lid,        \* heartBeat's leaseID parameter
          cur,        \* curLeaseID (0: none)
          kac,        \* the keep-alive channel: its lease (0: nil channel) and whether open
          cnt,        \* retryCnt
          cancelled,  \* hCtx cancelled by Unregister
          leases,     \* live leases in etcd
          key,        \* lease the server's key is attached to (0: no key)
          granted,    \* last lease id granted
          faults

ASSUME MaxRetry \in 1..4 /\ MaxFaults \in 0..4 /\ MaxLeases >= MaxFaults + 2

vars == <<srv, hb, lid, cur, kac, cnt, cancelled, leases, key, granted, faults>>

\* The next lease etcd grants, and one more etcd failure.
NewLease == granted + 1
CanGrant == granted < MaxLeases
Fault    == faults < MaxFaults /\ faults' = faults + 1

\* Variant: the loop condition admits one turn more than maxRetry.
InLoopInclusive == cnt <= MaxRetry

\* The retry loop's condition, retryCnt < maxRetry.
InLoop == cnt < MaxRetry

\* registerWithKV: Grant a lease and Put the key attached to it.
RegisterKV(l) ==
    /\ leases' = leases \cup {l}
    /\ key' = l
    /\ granted' = l

\* KeepAlive(ctx, l) that returns a channel: open while the lease lives
\* and the context is not cancelled (a lease already expired closes it).
KeepAliveOn(l, live) == [l |-> l, open |-> ~cancelled /\ live]

\* EtcdRegistry.Register: a new lease client, registerWithKV, and the
\* heartBeat goroutine started on the lease.
Register ==
    /\ CanGrant
    /\ RegisterKV(NewLease)
    /\ hb' = "start" /\ lid' = NewLease /\ cur' = NewLease

\* GrpcServer.Start: Register with a 2 s context; on success the server
\* serves.  A Register error is only logged, and Start returns nil
\* without serving.
Start ==
    /\ srv = "init"
    /\ \/ /\ Register
          /\ srv' = "serving"
          /\ UNCHANGED faults
       \/ /\ Fault
          /\ srv' = "notServing"
          /\ UNCHANGED <<hb, lid, cur, leases, key, granted>>
    /\ UNCHANGED <<kac, cnt, cancelled>>

\* Variant: a KeepAlive error leaves curLeaseID as it was.
HbStartNoReset ==
    /\ hb = "start"
    /\ \/ /\ kac' = KeepAliveOn(lid, lid \in leases) /\ hb' = "keep"
          /\ UNCHANGED faults
       \/ /\ Fault
          /\ hb' = "keep"
          /\ UNCHANGED kac
    /\ UNCHANGED <<srv, lid, cur, cnt, cancelled, leases, key, granted>>

\* heartBeat's first KeepAlive; an error sets curLeaseID to 0, so the
\* loop starts in the re-registration branch.
HbStart ==
    /\ hb = "start"
    /\ \/ /\ kac' = KeepAliveOn(lid, lid \in leases) /\ hb' = "keep"
          /\ UNCHANGED <<cur, cnt, faults>>
       \/ /\ Fault
          /\ cur' = 0 /\ cnt' = 0 /\ hb' = "retry"
          /\ UNCHANGED kac
    /\ UNCHANGED <<srv, lid, cancelled, leases, key, granted>>

\* Variant: a closed keep-alive channel always ends the heartbeat.
KeepGivesUp ==
    /\ hb = "keep" /\ kac.l # 0 /\ ~kac.open
    /\ hb' = "returned"
    /\ UNCHANGED <<srv, lid, cur, kac, cnt, cancelled, leases, key, granted, faults>>

\* The select on kac (a nil channel is never ready): a closed channel
\* ends heartBeat if hCtx was cancelled, and otherwise resets curLeaseID
\* to re-register.  (A keep-alive response changes nothing.)
Keep ==
    /\ hb = "keep"
    /\ kac.l # 0 /\ ~kac.open
    /\ IF cancelled THEN hb' = "returned" /\ UNCHANGED <<cur, cnt>>
                    ELSE hb' = "retry" /\ cur' = 0 /\ cnt' = 0
    /\ UNCHANGED <<srv, lid, kac, cancelled, leases, key, granted, faults>>

\* One turn of the retry loop.  Past maxRetry turns the loop falls
\* through to the receive on kac.  A cancelled context returns.  The
\* registration runs in a goroutine awaited for 3 s: it times out or
\* fails, or it yields a lease, on which KeepAlive is called; a KeepAlive
\* error backs off and retries, success breaks out of the loop.
Retry ==
    /\ hb = "retry"
    /\ \/ /\ ~InLoop
          /\ hb' = "drain"
          /\ UNCHANGED <<cur, kac, cnt, leases, key, granted, faults>>
       \/ /\ InLoop /\ cancelled
          /\ hb' = "returned"
          /\ UNCHANGED <<cur, kac, cnt, leases, key, granted, faults>>
       \/ /\ InLoop /\ ~cancelled
          /\ \/ /\ Fault
                /\ cnt' = cnt + 1
                /\ UNCHANGED <<hb, cur, kac, leases, key, granted>>
             \/ /\ CanGrant
                /\ RegisterKV(NewLease)
                /\ cur' = NewLease
                /\ \/ /\ kac' = KeepAliveOn(NewLease, TRUE) /\ hb' = "drain"
                      /\ UNCHANGED <<cnt, faults>>
                   \/ /\ Fault
                      /\ cnt' = cnt + 1
                      /\ UNCHANGED <<hb, kac>>
    /\ UNCHANGED <<srv, lid, cancelled>>

\* The receive on kac after the loop: a nil channel blocks for ever, a
\* closed one returns ("retry failed"), a response goes back to the loop.
Drain ==
    /\ hb = "drain"
    /\ hb' = CASE kac.l = 0 -> "blocked"
               [] ~kac.open -> "returned"
               [] OTHER     -> "keep"
    /\ UNCHANGED <<srv, lid, cur, kac, cnt, cancelled, leases, key, granted, faults>>

\* Variant: Unregister finds no cancel function for the instance.
UnregisterNoCancel ==
    /\ key' = 0
    /\ UNCHANGED <<cancelled, kac>>

\* EtcdRegistry.Unregister: cancel the heartbeat's context (which closes
\* kac), delete the key, and close the lease client.
Unregister ==
    /\ cancelled' = TRUE
    /\ kac' = [kac EXCEPT !.open = FALSE]
    /\ key' = 0

\* GrpcServer.Close: Unregister, then GracefulStop.
Close ==
    /\ srv \in {"serving", "notServing"}
    /\ srv' = "closed"
    /\ Unregister
    /\ UNCHANGED <<hb, lid, cur, cnt, leases, granted, faults>>

\* etcd: a lease no keep-alive refreshes expires after its TTL, and its
\* key is deleted with it.  Register's lease is kept alive as soon as
\* heartBeat starts, far within the TTL.
Expire(l) ==
    /\ l \in leases
    /\ ~(kac.l = l /\ kac.open)
    /\ ~(hb = "start" /\ lid = l)
    /\ leases' = leases \ {l}
    /\ key' = IF key = l THEN 0 ELSE key
    /\ UNCHANGED <<srv, hb, lid, cur, kac, cnt, cancelled, granted, faults>>

\* etcd: the kept lease is lost (keep-alives not delivered for a TTL); the
\* keep-alive channel is closed.  A TTL of missed keep-alives only passes
\* while heartBeat waits in its select: the first response to a new
\* KeepAlive arrives well within the TTL.
KeptLeaseLost ==
    /\ hb = "keep"
    /\ kac.open /\ kac.l \in leases
    /\ Fault
    /\ leases' = leases \ {kac.l}
    /\ key' = IF key = kac.l THEN 0 ELSE key
    /\ kac' = [kac EXCEPT !.open = FALSE]
    /\ UNCHANGED <<srv, hb, lid, cur, cnt, cancelled, granted>>

Init ==
    /\ srv = "init" /\ hb = "none" /\ lid = 0 /\ cur = 0
    /\ kac = [l |-> 0, open |-> FALSE] /\ cnt = 0 /\ cancelled = FALSE
    /\ leases = {} /\ key = 0 /\ granted = 0 /\ faults = 0

Heartbeat == HbStart \/ Keep \/ Retry \/ Drain

Next ==
    \/ Start \/ Heartbeat \/ Close \/ KeptLeaseLost
    \/ \E l \in 1..MaxLeases : Expire(l)

(* The server process starts; the heartbeat goroutine keeps running; etcd *)
(* expires every unrefreshed lease.  Close is an operator's decision, and  *)
(* etcd's failures are not forced.                                          *)
Fairness ==
    /\ WF_vars(Start)
    /\ WF_vars(Heartbeat)
    /\ \A l \in 1..MaxLeases : WF_vars(Expire(l))

Spec == Init /\ [][Next]_vars /\ Fairness

=============================================================================
