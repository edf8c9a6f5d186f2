------------------------------- MODULE MCRbac -------------------------------
(***************************************************************************)
(* Model checking of Rbac: two roles, a menu under another menu, one user. *)
(***************************************************************************)
EXTENDS Rbac, TLC

CONSTANTS r1, r2, m1, m2, u1

MCRoles  == {r1, r2}
MCMenus  == {m1, m2}
MCUsers  == {u1}
MCParent == (m1 :> NoMenu) @@ (m2 :> m1)

UserCacheEntry == [has : BOOLEAN, roles : SUBSET Roles, exp : BOOLEAN]

TypeOK ==
    /\ db \in [role : [Roles -> {"none", "deleted"} \cup Status],
               roleMenus : [Roles -> SUBSET Menus],
               menu : [Menus -> {"none"} \cup Status],
               userRoles : [Users -> SUBSET Roles],
               user : [Users -> {"none", "activated", "frozen"}]]
    /\ pend = NoTx \/ pend \in [role : [Roles -> {"none", "deleted"} \cup Status],
                                roleMenus : [Roles -> SUBSET Menus],
                                menu : [Menus -> {"none"} \cup Status],
                                userRoles : [Users -> SUBSET Roles],
                                user : [Users -> {"none", "activated", "frozen"}]]
    /\ ucache \in [Users -> UserCacheEntry]
    /\ clock \in 1..MaxClock /\ lastTick \in 0..clock
    /\ stamp \in 0..MaxTime /\ lastUpdated \in 0..stamp
    /\ enforcer = Nil \/ enforcer \subseteq Roles \X Menus
    /\ writes \in 0..MaxWrites /\ faults \in 0..MaxFaults
    /\ ver \in 0..writes /\ loadVer \in 0..ver /\ lost \subseteq Roles

\* What the committed records grant: an enabled role may use an enabled
\* menu it holds and every menu that menu lies under.
DBPolicy ==
    {p \in Roles \X Menus :
        /\ db.role[p[1]] = "enabled"
        /\ \E o \in db.roleMenus[p[1]] :
              db.menu[o] = "enabled" /\ (o = p[2] \/ p[2] \in Ancestors(o))}

DBAllows(u, m) ==
    db.user[u] = "activated" /\ \E r \in db.userRoles[u] : <<r, m>> \in DBPolicy

AccessConverges ==
    <>[](\A u \in Users, m \in Menus : Allowed(u, m) <=> DBAllows(u, m))

=============================================================================
