------------------------------- MODULE MCUsers -------------------------------
(***************************************************************************)
(* Model checking of Users: two ids, the words of one user name and of     *)
(* root's, each bare or padded with white space, two passwords (one the   *)
(* default), one role.                                                     *)
(***************************************************************************)
EXTENDS Users

CONSTANTS i1, i2, r1, h1, h2

MCIds      == {i1, i2}
MCRoles    == {r1}
MCWords    == {"alice", "admin"}
MCPwds     == {"secret", "123456"}
MCRootName == [word |-> "admin", pad |-> FALSE]

TypeOK ==
    /\ user \in [DOMAIN user -> [username : Usernames,
                                  password : {Hash(p) : p \in Pwds},
                                  status : Status]]
    /\ DOMAIN user \subseteq used /\ used \subseteq Ids
    /\ userRole \subseteq Ids \X Roles
    /\ DOMAIN cache \subseteq Ids /\ \A i \in DOMAIN cache : cache[i] \subseteq Roles
    /\ tokens \subseteq Ids
    /\ \A h \in Handlers : hs[h].op \in {"idle", "create", "update", "delete", "password", "login"}

(* Create and Update: no two accounts share a username (Login's          *)
(* GetByUsername returns one row, so the other could never log in).      *)
UsernameUnique ==
    \A i, j \in DOMAIN user : i # j => user[i].username # user[j].username

(* Login: every account can be logged into, that is, some login form's   *)
(* trimmed username is its username, is not root's, and names no other   *)
(* account.                                                              *)
AccountsReachable ==
    \A i \in DOMAIN user :
        \E n \in Usernames :
            /\ TrimSpace(n) = user[i].username
            /\ TrimSpace(n) # RootUsername
            /\ \A j \in DOMAIN user \ {i} : user[j].username # user[i].username

(* Login's cache.Set and Update's and Delete's cache.Delete: a cached    *)
(* user exists and is activated (ParseUserID lets a cached user through   *)
(* without reading its status).                                          *)
CacheOnlyActive ==
    \A i \in DOMAIN cache : i \in DOMAIN user /\ user[i].status = "activated"

=============================================================================
