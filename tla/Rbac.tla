-------------------------------- MODULE Rbac --------------------------------
(***************************************************************************)
(* Access control of the admin API (internal/mods/admin/biz): the role,   *)
(* menu and user writes, the user cache that ParseUserID and Login fill,  *)
(* the "sync:casbin" stamp that role and menu writes set, and the         *)
(* autoLoad goroutine that rebuilds the Casbin enforcer when it sees a    *)
(* newer stamp.  A menu stands for its resources; the enforcer holds      *)
(* pairs <<role, menu>>.  One admin request writes at a time: trans.Exec  *)
(* runs the body (where the cache is written) and commits later, so the   *)
(* loader and the users' requests can run between the two.                *)
(***************************************************************************)
EXTENDS Naturals, FiniteSets

CONSTANTS Roles, Menus, Users,
          Parent,          \* a menu's parent, or NoMenu (the tree behind ParentPath)
          NoMenu, NoTx, Nil,
          DenyDeleteMenu,  \* conf.DenyDeleteMenu
          MaxTime,         \* writes begin and commit before this second
          MaxWrites,       \* admin writes in one behaviour
          MaxFaults        \* failed policy queries in one behaviour

VARIABLES db,          \* the committed records: role, roleMenus, menu, userRoles, user
          pend,        \* the records a transaction will commit, or NoTx
          stamp,       \* the cached sync:casbin value, a Unix second (0: absent)
          ucache,      \* CacheNSForUser: the role ids cached per user
          clock,       \* time.Now().Unix()
          lastTick,    \* the second of autoLoad's last tick
          lastUpdated, \* autoLoad's lastUpdated
          enforcer,    \* the stored enforcer's policy, or Nil
          writes, faults,
          ver,         \* commits so far
          loadVer,     \* commits seen by the last load that returned nil
          lost         \* roles whose resources that load failed to query

vars == <<db, pend, stamp, ucache, clock, lastTick, lastUpdated, enforcer,
          writes, faults, ver, loadVer, lost>>

ASSUME /\ NoMenu \notin Menus
       /\ Parent \in [Menus -> Menus \cup {NoMenu}]
       /\ MaxTime \in Nat \ {0} /\ MaxWrites \in Nat /\ MaxFaults \in Nat

Status  == {"enabled", "disabled"}
MaxClock == MaxTime + MaxFaults   \* the loader keeps one second per failed load
Miss    == [has |-> FALSE, roles |-> {}, exp |-> FALSE]

\* The menus on a menu's ParentPath.
RECURSIVE Ancestors(_)
Ancestors(m) == IF Parent[m] = NoMenu THEN {} ELSE {Parent[m]} \cup Ancestors(Parent[m])

\* The menus whose ParentPath starts with the menu's own path.
Descendants(m) == {d \in Menus : m \in Ancestors(d)}

\* Live role and menu records.
Exists(s) == s \in Status

-----------------------------------------------------------------------------
(* The admin writes.  Each checks its record outside the transaction,    *)
(* runs the transaction body, which writes the cache, and leaves the     *)
(* records to the commit.                                                *)

Begin(new) ==
    /\ pend = NoTx /\ writes < MaxWrites /\ clock < MaxTime
    /\ pend' = new
    /\ writes' = writes + 1
    /\ UNCHANGED <<db, clock, lastTick, lastUpdated, enforcer, faults, ver, loadVer, lost>>

\* syncToCasbin: cache.Set(sync:casbin, time.Now().Unix()).
SyncToCasbin == stamp' = clock

RoleCreate(r, ms, st) ==
    /\ db.role[r] = "none"
    /\ Begin([db EXCEPT !.role[r] = st, !.roleMenus[r] = ms])
    /\ SyncToCasbin
    /\ UNCHANGED ucache

RoleUpdate(r, ms, st) ==
    /\ Exists(db.role[r])
    /\ Begin([db EXCEPT !.role[r] = st, !.roleMenus[r] = ms])
    /\ SyncToCasbin
    /\ UNCHANGED ucache

\* Delete removes the role, its menus and its user_role rows; no user's
\* cached role ids are touched.
RoleDelete(r) ==
    /\ Exists(db.role[r])
    /\ Begin([db EXCEPT !.role[r] = "deleted", !.roleMenus[r] = {},
                        !.userRoles = [u \in Users |-> @[u] \ {r}]])
    /\ SyncToCasbin
    /\ UNCHANGED ucache

\* Update sets the menu's status, and the status of every menu under its
\* old path when the status changed (UpdateStatusByParentPath).
MenuUpdate(m, st) ==
    /\ Exists(db.menu[m])
    /\ LET cascade == IF db.menu[m] # st THEN Descendants(m) ELSE {}
       IN Begin([db EXCEPT !.menu = [d \in Menus |->
                   IF d = m \/ (d \in cascade /\ Exists(@[d])) THEN st ELSE @[d]]])
    /\ SyncToCasbin
    /\ UNCHANGED ucache

\* Delete removes the menu and the children found by its path prefix,
\* with their resources and role_menu rows.
MenuDelete(m) ==
    /\ ~DenyDeleteMenu
    /\ Exists(db.menu[m])
    /\ LET gone == {m} \cup Descendants(m)
       IN Begin([db EXCEPT !.menu = [d \in Menus |-> IF d \in gone THEN "none" ELSE @[d]],
                           !.roleMenus = [r \in Roles |-> @[r] \ gone]])
    /\ SyncToCasbin
    /\ UNCHANGED ucache

\* User Update rewrites the user's roles and deletes the user's cache
\* entry inside the transaction.
UserUpdate(u, rs, st) ==
    /\ db.user[u] \in {"activated", "frozen"}
    /\ Begin([db EXCEPT !.userRoles[u] = rs, !.user[u] = st])
    /\ ucache' = [ucache EXCEPT ![u] = Miss]
    /\ UNCHANGED stamp

UserDelete(u) ==
    /\ db.user[u] \in {"activated", "frozen"}
    /\ Begin([db EXCEPT !.userRoles[u] = {}, !.user[u] = "none"])
    /\ ucache' = [ucache EXCEPT ![u] = Miss]
    /\ UNCHANGED stamp

\* trans.Exec commits the transaction.
Commit ==
    /\ pend # NoTx /\ clock < MaxTime
    /\ db' = pend /\ pend' = NoTx
    /\ ver' = ver + 1
    /\ UNCHANGED <<stamp, ucache, clock, lastTick, lastUpdated, enforcer,
                   writes, faults, loadVer, lost>>

-----------------------------------------------------------------------------
(* The Casbin loader.                                                     *)

\* roleRepository.Query: the roles every filter the parameters set admits
\* (InIDs, Status; the name and update-time filters no caller here sets).
RoleQuery(f) ==
    {r \in Roles : /\ db.role[r] # "none"
                   /\ "ids" \in DOMAIN f => r \in f.ids
                   /\ "status" \in DOMAIN f => db.role[r] = f.status}

EnabledRoles == RoleQuery([status |-> "enabled"])

\* queryRoleResources: the role's enabled menus and every menu on their
\* ParentPath, whatever that menu's status.
QueryRoleResources(r) ==
    LET own == {m \in db.roleMenus[r] : db.menu[m] = "enabled"}
    IN  own \cup UNION {Ancestors(m) : m \in own}

\* The policy lines written to the buffer when the roles in skip fail
\* their resource query (logged and skipped).
LoadPolicy(skip) ==
    {p \in (EnabledRoles \ skip) \X Menus : p[2] \in QueryRoleResources(p[1])}

\* autoLoad's test, lastUpdated < updated.
Newer(updated) == lastUpdated < updated

LoadFails ==
    /\ faults < MaxFaults /\ faults' = faults + 1
    /\ UNCHANGED <<lastUpdated, enforcer, loadVer, lost>>

\* load returns nil, and autoLoad sets lastUpdated = updated.  No enabled
\* role returns before the queue is built; an empty buffer is not stored.
LoadReturns(updated) ==
    /\ lastUpdated' = updated /\ loadVer' = ver
    /\ \/ /\ EnabledRoles = {}
          /\ lost' = {}
          /\ UNCHANGED <<enforcer, faults>>
       \/ /\ EnabledRoles # {}
          /\ \E skip \in SUBSET EnabledRoles :
               /\ faults + Cardinality(skip) <= MaxFaults
               /\ faults' = faults + Cardinality(skip)
               /\ enforcer' = IF LoadPolicy(skip) = {} THEN enforcer ELSE LoadPolicy(skip)
               /\ lost' = skip

\* Variant: lastUpdated records the time of the load.
LoadAtNow(updated) == LoadFails \/ LoadReturns(clock)

\* load as autoLoad runs it for the stamp value updated.
Load(updated) == LoadFails \/ LoadReturns(updated)

\* One tick of autoLoad's ticker (at most one a second): a missing stamp,
\* or one not newer than lastUpdated, is skipped.
AutoLoad ==
    /\ lastTick < clock
    /\ lastTick' = clock
    /\ IF stamp # 0 /\ Newer(stamp) THEN Load(stamp)
       ELSE UNCHANGED <<lastUpdated, enforcer, faults, loadVer, lost>>
    /\ UNCHANGED <<db, pend, stamp, ucache, clock, writes, ver>>

\* A second passes once the ticker (every AutoLoadInterval = 1 s) fired in
\* it; a begun transaction commits before MaxTime.
Tick ==
    /\ clock < MaxClock
    /\ lastTick = clock
    /\ ~(pend # NoTx /\ clock + 1 = MaxTime)
    /\ clock' = clock + 1
    /\ UNCHANGED <<db, pend, stamp, ucache, lastTick, lastUpdated, enforcer,
                   writes, faults, ver, loadVer, lost>>

-----------------------------------------------------------------------------
(* The users' requests.                                                   *)

\* ParseUserID on a cache miss: a user that is not activated is refused;
\* otherwise GetRoleIDs is cached with no expiration.  (A hit changes
\* nothing.)
ParseUserID(u) ==
    /\ ~ucache[u].has
    /\ db.user[u] = "activated"
    /\ ucache' = [ucache EXCEPT ![u] = [has |-> TRUE, roles |-> db.userRoles[u], exp |-> FALSE]]

\* Login of an activated user caches its role ids for UserCacheExp hours.
Login(u) ==
    /\ db.user[u] = "activated"
    /\ ucache' = [ucache EXCEPT ![u] = [has |-> TRUE, roles |-> db.userRoles[u], exp |-> TRUE]]

\* Logout deletes the user's cache entry.
Logout(u) ==
    /\ ucache[u].has
    /\ ucache' = [ucache EXCEPT ![u] = Miss]

\* The cache drops an entry set with an expiration.
CacheExpire(u) ==
    /\ ucache[u].exp
    /\ ucache' = [ucache EXCEPT ![u] = Miss]

UserRequest(u) == ParseUserID(u) \/ Login(u) \/ Logout(u) \/ CacheExpire(u)

\* The role ids a request of u carries: the cached ones, or on a miss the
\* committed ones of an activated user (any other is refused).
SubjectRoles(u) ==
    IF ucache[u].has THEN ucache[u].roles
    ELSE IF db.user[u] = "activated" THEN db.userRoles[u] ELSE {}

\* The Casbin middleware: no enforcer denies; any subject allowed passes.
Allowed(u, m) == enforcer # Nil /\ \E r \in SubjectRoles(u) : <<r, m>> \in enforcer

-----------------------------------------------------------------------------

\* A fresh installation: no role, every menu enabled, the users activated
\* with no role; Load at start finds no enabled role and stores nothing.
Init ==
    /\ db = [role |-> [r \in Roles |-> "none"], roleMenus |-> [r \in Roles |-> {}],
             menu |-> [m \in Menus |-> "enabled"], userRoles |-> [u \in Users |-> {}],
             user |-> [u \in Users |-> "activated"]]
    /\ pend = NoTx /\ stamp = 0 /\ ucache = [u \in Users |-> Miss]
    /\ clock = 1 /\ lastTick = 0 /\ lastUpdated = 0 /\ enforcer = Nil
    /\ writes = 0 /\ faults = 0 /\ ver = 0 /\ loadVer = 0 /\ lost = {}

AdminWrite ==
    \/ \E r \in Roles, ms \in SUBSET Menus, st \in Status :
          RoleCreate(r, ms, st) \/ RoleUpdate(r, ms, st)
    \/ \E r \in Roles : RoleDelete(r)
    \/ \E m \in Menus, st \in Status : MenuUpdate(m, st)
    \/ \E m \in Menus : MenuDelete(m)
    \/ \E u \in Users, rs \in SUBSET Roles, st \in {"activated", "frozen"} :
          UserUpdate(u, rs, st)
    \/ \E u \in Users : UserDelete(u)

Next ==
    \/ AdminWrite \/ Commit \/ AutoLoad \/ Tick
    \/ \E u \in Users : UserRequest(u) /\ UNCHANGED <<db, pend, stamp, clock, lastTick,
                          lastUpdated, enforcer, writes, faults, ver, loadVer, lost>>

(* A begun transaction commits; the ticker fires every second; time       *)
(* passes; an entry set with an expiration expires.  Admins and users act *)
(* at will.                                                                *)
Fairness ==
    /\ WF_vars(Commit) /\ WF_vars(AutoLoad) /\ WF_vars(Tick)
    /\ \A u \in Users : WF_vars(CacheExpire(u) /\ UNCHANGED <<db, pend, stamp, clock,
          lastTick, lastUpdated, enforcer, writes, faults, ver, loadVer, lost>>)

Spec == Init /\ [][Next]_vars /\ Fairness

=============================================================================
