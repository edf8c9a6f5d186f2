------------------------------- MODULE Users -------------------------------
(***************************************************************************)
(* User accounts of the admin API (internal/mods/admin/biz/biz_user.go and *)
(* the account half of biz_login.go): the user table, the user_role rows, *)
(* the CacheNSForUser entries, and the handlers that write them.  Each    *)
(* handler runs its checks (ExistsUsername, Exists, Get, GetByUsername)   *)
(* in one step and its writes (one trans.Exec, or one repository call) in *)
(* a later step, so the handlers of several admins and users interleave   *)
(* between the two.                                                       *)
(*                                                                         *)
(* A username is a record [word, pad]: pad says whether it carries        *)
(* surrounding white space, which strings.TrimSpace removes.  A password  *)
(* hash is Hash(p); bcrypt's CompareHashAndPassword succeeds exactly on   *)
(* the hash of the same password.  The user repository's implementation   *)
(* is not in the repository: its calls are modelled from the interface    *)
(* (biz/repo_user.go): Get and Exists by id, ExistsUsername and           *)
(* GetByUsername by username (FindOne: some row with that username),      *)
(* Update and UpdatePasswordByID by id (no row, no change).               *)
(***************************************************************************)
EXTENDS Naturals, FiniteSets

CONSTANTS Ids,             \* the ids common.NewXID hands out
          Words,           \* the words a username is made of
          Pwds,            \* passwords a form may carry
          Roles,
          Handlers,        \* the requests served at the same time
          RootUsername, RootPassword, DefaultLoginPwd  \* conf.Rbac

VARIABLES user,      \* id -> [username, password, status]: the user table
          userRole,  \* the user_role rows, <<user id, role id>>
          cache,     \* CacheNSForUser: id -> the role ids cached for it
          used,      \* the ids handed out so far
          hs,        \* per handler: Idle, or what its checks left for its writes
          tokens     \* ids some access token was issued to (genUserToken)

vars == <<user, userRole, cache, used, hs, tokens>>

Status    == {"activated", "freezed"}
Usernames == [word : Words, pad : BOOLEAN]
NoPwd     == ""                 \* a form without a password
Idle      == [op |-> "idle"]

\* strings.TrimSpace
TrimSpace(n) == [n EXCEPT !.pad = FALSE]

\* hash.GeneratePassword and hash.CompareHashAndPassword.
Hash(p) == [bcrypt |-> p]
CompareHashAndPassword(h, p) == h = Hash(p)

ExistsUsername(n) == \E i \in DOMAIN user : user[i].username = n

\* userRoleRepository.Query: the user_role rows every filter the
\* parameters set admits (InUserIDs, UserID, RoleID).
UserRoleQuery(f) ==
    {x \in userRole : /\ "users" \in DOMAIN f => x[1] \in f.users
                      /\ "user" \in DOMAIN f => x[1] = f.user
                      /\ "role" \in DOMAIN f => x[2] = f.role}

\* GetRoleIDs: the role ids of the user's user_role rows.
GetRoleIDs(i) == {x[2] : x \in UserRoleQuery([user |-> i])}

\* cache.Get(CacheNSForUser, i): whether the user has a cache entry.
CacheHit(i) == i \in DOMAIN cache

\* genUserToken: a token naming i is issued.
GenUserToken(i) == tokens' = tokens \cup {i}

DropCache(i) == [j \in DOMAIN cache \ {i} |-> cache[j]]

\* UserForm.FillTo: the form's username and status, and its password
\* hashed when there is one (else the record's password stays).
FillTo(rec, n, p, st) ==
    [username |-> n, status |-> st,
     password |-> IF p # NoPwd THEN Hash(p) ELSE rec.password]

\* Users created in one behaviour: one per id of Ids (NewXID never repeats).
MaxUsers == Cardinality(Ids)

Begin(h, st) == hs[h] = Idle /\ hs' = [hs EXCEPT ![h] = st]
Done(h)      == hs' = [hs EXCEPT ![h] = Idle]

-----------------------------------------------------------------------------
(* UserUsecase.Create: the username must be new; an empty password is    *)
(* DefaultLoginPwd.  The transaction inserts the user under a new id and *)
(* a user_role row per role of the form.                                 *)
CreateCheck(h, n, p, st, rs) ==
    /\ Cardinality(used) + Cardinality({g \in Handlers : hs[g].op = "create"}) < MaxUsers
    /\ ~ExistsUsername(n)
    /\ Begin(h, [op |-> "create", rec |-> FillTo([password |-> NoPwd], n,
                    IF p = NoPwd THEN DefaultLoginPwd ELSE p, st), roles |-> rs])
    /\ UNCHANGED <<user, userRole, cache, used, tokens>>

CreateExec(h) ==
    /\ hs[h].op = "create"
    /\ \E i \in Ids \ used :
          /\ user' = [j \in DOMAIN user \cup {i} |-> IF j = i THEN hs[h].rec ELSE user[j]]
          /\ userRole' = userRole \cup {<<i, r>> : r \in hs[h].roles}
          /\ used' = used \cup {i}
    /\ Done(h)
    /\ UNCHANGED <<cache, tokens>>

(* UserUsecase.Update: Get the user; a changed username must be new.  The *)
(* transaction writes the record read, filled from the form, replaces    *)
(* the user's user_role rows and deletes its cache entry.                *)
UpdateCheck(h, i, n, p, st, rs) ==
    /\ i \in DOMAIN user
    /\ user[i].username # n => ~ExistsUsername(n)
    /\ Begin(h, [op |-> "update", id |-> i, rec |-> FillTo(user[i], n, p, st), roles |-> rs])
    /\ UNCHANGED <<user, userRole, cache, used, tokens>>

UpdateExec(h) ==
    /\ hs[h].op = "update"
    /\ LET i == hs[h].id IN
          /\ user' = IF i \in DOMAIN user THEN [user EXCEPT ![i] = hs[h].rec] ELSE user
          /\ userRole' = {x \in userRole : x[1] # i} \cup {<<i, r>> : r \in hs[h].roles}
          /\ cache' = DropCache(i)
    /\ Done(h)
    /\ UNCHANGED <<used, tokens>>

(* UserUsecase.Delete: the user must exist; the transaction deletes it,  *)
(* its user_role rows and its cache entry.                               *)
DeleteCheck(h, i) ==
    /\ i \in DOMAIN user
    /\ Begin(h, [op |-> "delete", id |-> i])
    /\ UNCHANGED <<user, userRole, cache, used, tokens>>

DeleteExec(h) ==
    /\ hs[h].op = "delete"
    /\ LET i == hs[h].id IN
          /\ user' = [j \in DOMAIN user \ {i} |-> user[j]]
          /\ userRole' = {x \in userRole : x[1] # i}
          /\ cache' = DropCache(i)
    /\ Done(h)
    /\ UNCHANGED <<used, tokens>>

(* UserUsecase.ResetPassword (Exists, then UpdatePasswordByID with the   *)
(* default password) and LoginUsecase.UpdatePassword (the caller's own   *)
(* record, which must exist and match the old password; root may not).   *)
ResetPasswordCheck(h, i) ==
    /\ i \in DOMAIN user
    /\ Begin(h, [op |-> "password", id |-> i, pwd |-> DefaultLoginPwd])
    /\ UNCHANGED <<user, userRole, cache, used, tokens>>

UpdatePasswordCheck(h, i, old, new) ==
    /\ i \in DOMAIN user
    /\ CompareHashAndPassword(user[i].password, old)
    /\ Begin(h, [op |-> "password", id |-> i, pwd |-> new])
    /\ UNCHANGED <<user, userRole, cache, used, tokens>>

UpdatePasswordByID(h) ==
    /\ hs[h].op = "password"
    /\ LET i == hs[h].id IN
          user' = IF i \in DOMAIN user
                  THEN [user EXCEPT ![i].password = Hash(hs[h].pwd)] ELSE user
    /\ Done(h)
    /\ UNCHANGED <<userRole, cache, used, tokens>>

(* LoginUsecase.Login of the trimmed username: root's username logs in   *)
(* as root (or fails) without reading the table.  Otherwise GetByUsername *)
(* must find an activated user whose hash matches; GetRoleIDs is read,   *)
(* and cache.Set stores the role ids later, then genUserToken issues the *)
(* token.                                                                *)
LoginCheck(h, n, p) ==
    LET name == TrimSpace(n) IN
    /\ name # RootUsername
    /\ \E i \in DOMAIN user :
          /\ user[i].username = name
          /\ user[i].status = "activated"
          /\ CompareHashAndPassword(user[i].password, p)
          /\ Begin(h, [op |-> "login", id |-> i, roles |-> GetRoleIDs(i), token |-> TRUE])
    /\ UNCHANGED <<user, userRole, cache, used, tokens>>

LoginSetCache(h) ==
    /\ hs[h].op = "login"
    /\ cache' = [j \in DOMAIN cache \cup {hs[h].id} |->
                    IF j = hs[h].id THEN hs[h].roles ELSE cache[j]]
    /\ IF hs[h].token THEN GenUserToken(hs[h].id) ELSE UNCHANGED tokens
    /\ Done(h)
    /\ UNCHANGED <<user, userRole, used>>

(* LoginUsecase.ParseUserID of a request carrying a token issued to i    *)
(* (the JWT names i; it is not revoked when the user is frozen or         *)
(* deleted): a cache entry lets it through; on a miss the user must exist *)
(* and be activated, GetRoleIDs is read, and cache.Set, with no           *)
(* expiration, stores the role ids later.                                 *)
ParseUserIDCheck(h, i) ==
    /\ i \in tokens /\ ~CacheHit(i)
    /\ i \in DOMAIN user /\ user[i].status = "activated"
    /\ Begin(h, [op |-> "login", id |-> i, roles |-> GetRoleIDs(i), token |-> FALSE])
    /\ UNCHANGED <<user, userRole, cache, used, tokens>>

(* LoginUsecase.Logout: DestroyToken, then cache.Delete of the caller's   *)
(* entry.  Tokens are kept per id, so the caller's other tokens (and the  *)
(* id in tokens) survive.                                                 *)
Logout(i) ==
    /\ i \in tokens
    /\ cache' = DropCache(i)
    /\ UNCHANGED <<user, userRole, used, hs, tokens>>

-----------------------------------------------------------------------------
Init ==
    /\ user = <<>> /\ userRole = {} /\ cache = <<>> /\ used = {}
    /\ hs = [h \in Handlers |-> Idle] /\ tokens = {}

FormPwds == Pwds \cup {NoPwd}

Next ==
    \/ \E h \in Handlers :
          \/ \E n \in Usernames, p \in FormPwds, st \in Status, rs \in SUBSET Roles :
                \/ CreateCheck(h, n, p, st, rs)
                \/ \E i \in DOMAIN user : UpdateCheck(h, i, n, p, st, rs)
          \/ \E i \in DOMAIN user :
                \/ DeleteCheck(h, i) \/ ResetPasswordCheck(h, i)
                \/ \E old, new \in Pwds : UpdatePasswordCheck(h, i, old, new)
          \/ \E n \in Usernames, p \in Pwds : LoginCheck(h, n, p)
          \/ \E i \in tokens : ParseUserIDCheck(h, i)
          \/ CreateExec(h) \/ UpdateExec(h) \/ DeleteExec(h)
          \/ UpdatePasswordByID(h) \/ LoginSetCache(h)
    \/ \E i \in tokens : Logout(i)

Spec == Init /\ [][Next]_vars

=============================================================================
