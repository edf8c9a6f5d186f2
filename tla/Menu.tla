-------------------------------- MODULE Menu --------------------------------
(***************************************************************************)
(* The admin menu tree (internal/mods/admin/biz/biz_menu.go and           *)
(* admin/data/menu.go).  A menu row keeps its parent_id and its           *)
(* parent_path, the ids of its ancestors from the root, each followed by  *)
(* ".": here a sequence of ids, so that a LIKE 'prefix%' on the string is *)
(* IsPrefix on the sequence (xids have one length and no ".").  The       *)
(* menu table is a function whose domain is the set of live ids.          *)
(*                                                                         *)
(* Create, Update and Delete read outside the transaction (Get, Exists,   *)
(* the children query) and write in trans.Exec: each handler takes a read *)
(* step and a commit step, and other handlers may run between the two.    *)
(* The seeding command (cmd/generate_menus.go) runs CreateInBatchByParent *)
(* in one transaction, one step.  Resources and syncToCasbin are left to  *)
(* Rbac; a failed query or statement returns with nothing written.        *)
(***************************************************************************)
EXTENDS Naturals, FiniteSets, SequencesExt

CONSTANTS Ids,          \* the xids NewXID can return
          Codes,        \* menu codes
          Root,         \* parent_id "" of a top-level menu
          Handlers,     \* admin requests served at once
          Files,        \* menu.json contents: sequences of [code, children]
          MaxOps,       \* requests and seedings in one behaviour
          DenyDeleteMenu,
          IntoSubtree   \* whether a client may move a menu under its own subtree

VARIABLES menu,   \* the menu table: id -> [parent, path, code, status]
          h,      \* each handler: its operation and what it read
          used,   \* the xids handed out
          ops

vars == <<menu, h, used, ops>>

Status == {"enabled", "disabled"}
Row(p, path, c, s) == [parent |-> p, path |-> path, code |-> c, status |-> s]
Idle == [pc |-> "idle", id |-> Root, row |-> Row(Root, <<>>, CHOOSE c \in Codes : TRUE, "enabled"),
         old |-> <<>>, oldStatus |-> "enabled", kids |-> <<>>]

\* The table with row r stored under id (a Create), or written over it.
Put(t, id, r) == [d \in DOMAIN t \cup {id} |-> IF d = id THEN r ELSE t[d]]

\* parent.ParentPath + parent.ID + "."
PathUnder(t, p) == IF p = Root THEN <<>> ELSE t[p].path \o <<p>>

\* menuRepository.Query: the rows every filter the parameters set admits:
\* InIDs, Status, ParentPathPrefix (parent_path LIKE prefix + '%'), and
\* UserID, the menus of the user's role_menu rows (grants).
RepoQuery(t, f) ==
    {d \in DOMAIN t :
        /\ "ids" \in DOMAIN f => d \in f.ids
        /\ "status" \in DOMAIN f => t[d].status = f.status
        /\ "prefix" \in DOMAIN f => IsPrefix(f.prefix, t[d].path)
        /\ "grants" \in DOMAIN f => d \in f.grants}

\* Query with ParentPathPrefix.
WithPrefix(t, prefix) == RepoQuery(t, [prefix |-> prefix])

\* menuRepository.Get: FindOne by id, nil when no row has it.
Found(t, id) == id \in DOMAIN t

\* menuRepository.Delete of each id (the row by id; none, nothing).
DeleteRows(t, ids) == [d \in DOMAIN t \ ids |-> t[d]]

\* menuRepository.UpdateParentPath: only the row's parent_path changes.
UpdateParentPath(r, pp) == [r EXCEPT !.path = pp]

\* ExistsCodeByParentID(code, parentID)
CodeTaken(t, c, p) == \E d \in DOMAIN t : t[d].code = c /\ t[d].parent = p

\* Variant: an id generator that may repeat.
NewXIDAny(u) == CHOOSE x \in Ids : TRUE

\* common.NewXID(): an id never handed out before.
NewXID(u) == CHOOSE x \in Ids \ u : TRUE

\* menuRepository.Update: the whole row (Select("*")) where id matches.
UpdateRow(t, id, r) == IF id \in DOMAIN t THEN [t EXCEPT ![id] = r] ELSE t

\* MenuForm.FillTo: code, status and parent_id from the form (the other
\* fields are not modelled); ParentPath is left as it was.
FillTo(cur, p, c, s) == [cur EXCEPT !.parent = p, !.code = c, !.status = s]

\* Variant: parent_path = prefix (a LIKE without the '%'), the direct
\* children only.
UpdateStatusByParentPathExact(t, prefix, s) ==
    [d \in DOMAIN t |-> IF t[d].path = prefix THEN [t[d] EXCEPT !.status = s] ELSE t[d]]

\* UpdateStatusByParentPath(parentPath, status): every row under the prefix.
UpdateStatusByParentPath(t, prefix, s) ==
    [d \in DOMAIN t |-> IF d \in WithPrefix(t, prefix) THEN [t[d] EXCEPT !.status = s] ELSE t[d]]

-----------------------------------------------------------------------------
(* Seeding: CreateInBatchByParent(items, parent).  A file item carries no *)
(* id and no parent_path; one whose code already exists under the parent  *)
(* takes the existing id and keeps its empty ParentPath, which is what    *)
(* its children are then created under.                                   *)

RECURSIVE ItemsIn(_)
ItemsIn(items) ==
    IF items = <<>> THEN 0 ELSE 1 + ItemsIn(Head(items).children) + ItemsIn(Tail(items))

\* st is [menu, used]; par is the parent item as [id, path], or Root.
RECURSIVE CreateInBatchByParent(_, _, _)
CreateInBatchByParent(items, par, st) ==
    IF items = <<>> THEN st
    ELSE LET it    == Head(items)
             pid   == IF par = Root THEN Root ELSE par.id
             same  == {d \in DOMAIN st.menu : st.menu[d].code = it.code /\ st.menu[d].parent = pid}
             exist == same # {}
             id    == IF exist THEN CHOOSE d \in same : TRUE ELSE NewXID(st.used)
             path  == IF exist \/ par = Root THEN <<>> ELSE par.path \o <<pid>>
             st1   == IF exist THEN st
                      ELSE [menu |-> Put(st.menu, id, Row(pid, path, it.code, "enabled")),
                            used |-> st.used \cup {id}]
             st2   == CreateInBatchByParent(it.children, [id |-> id, path |-> path], st1)
         IN  CreateInBatchByParent(Tail(items), par, st2)

\* The command is run by an operator between admin requests.
Seed(f) ==
    /\ \A hd \in Handlers : h[hd].pc = "idle"
    /\ ops < MaxOps /\ ItemsIn(f) <= Cardinality(Ids \ used)
    /\ LET st == CreateInBatchByParent(f, Root, [menu |-> menu, used |-> used])
       IN  menu' = st.menu /\ used' = st.used
    /\ ops' = ops + 1
    /\ UNCHANGED h

-----------------------------------------------------------------------------
(* The admin API.  A request that ends in an error (not found, code taken, *)
(* deletion denied) counts but changes nothing.                           *)

Begin(hd) == h[hd].pc = "idle" /\ ops < MaxOps /\ ops' = ops + 1
Finish(hd) == h' = [h EXCEPT ![hd] = Idle]

\* Create: the parent is read for its path, the code checked at its level.
CreateRead(hd, p, c, s) ==
    /\ Begin(hd) /\ used # Ids
    /\ IF (p # Root /\ ~Found(menu, p)) \/ CodeTaken(menu, c, p)
       THEN UNCHANGED <<h, used>>
       ELSE LET id == NewXID(used)
            IN  /\ h' = [h EXCEPT ![hd] = [Idle EXCEPT !.pc = "create", !.id = id,
                                            !.row = Row(p, PathUnder(menu, p), c, s)]]
                /\ used' = used \cup {id}
    /\ UNCHANGED menu

CreateCommit(hd) ==
    /\ h[hd].pc = "create"
    /\ menu' = Put(menu, h[hd].id, h[hd].row)
    /\ Finish(hd)
    /\ UNCHANGED <<used, ops>>

\* The menus a client is offered as a new parent: any, or (the tree UI)
\* none in the menu's own subtree.
Offered(m, p) ==
    \/ IntoSubtree \/ p = Root \/ m \notin DOMAIN menu \/ p \notin DOMAIN menu
    \/ m \in DOMAIN menu /\ p # m /\ p \notin WithPrefix(menu, menu[m].path \o <<m>>)

\* Update: Get the menu; if its parent changes, Get the new parent for
\* the new ParentPath and query the children under the old one; if its
\* code changes, check the code at the new level; FillTo.
UpdateRead(hd, m, p, c, s) ==
    /\ Begin(hd) /\ Offered(m, p)
    /\ IF ~Found(menu, m) THEN UNCHANGED h
       ELSE LET cur   == menu[m]
                moved == cur.parent # p
            IN  IF \/ moved /\ p # Root /\ ~Found(menu, p)
                   \/ cur.code # c /\ CodeTaken(menu, c, p)
                THEN UNCHANGED h
                ELSE h' = [h EXCEPT ![hd] =
                           [pc |-> "update", id |-> m,
                            row |-> FillTo([cur EXCEPT !.path = IF moved THEN PathUnder(menu, p)
                                                                    ELSE cur.path], p, c, s),
                            old |-> cur.path, oldStatus |-> cur.status,
                            kids |-> IF moved
                                     THEN [d \in WithPrefix(menu, cur.path \o <<m>>) |-> menu[d].path]
                                     ELSE <<>>]]
    /\ UNCHANGED <<menu, used>>

\* Variant: the children's paths rewritten to the new ParentPath without
\* the menu's own id.
ChildPathNoSelf(t, cp) == ReplaceFirstSubSeq(t.row.path, t.old \o <<t.id>>, cp)

\* strings.Replace(child.ParentPath, oldPath, newPath, 1), the child's
\* path as the children query returned it.
ChildPath(t, cp) == ReplaceFirstSubSeq(t.row.path \o <<t.id>>, t.old \o <<t.id>>, cp)

\* The transaction: the status of every row under the old path when the
\* status changed, UpdateParentPath of each child read, and Update of the
\* whole row as read and filled (Select("*")).  A row deleted meanwhile
\* is updated nowhere.
UpdateCommit(hd) ==
    /\ h[hd].pc = "update"
    /\ LET t  == h[hd]
           t1 == IF t.oldStatus # t.row.status
                 THEN UpdateStatusByParentPath(menu, t.old \o <<t.id>>, t.row.status)
                 ELSE menu
           t2 == [d \in DOMAIN t1 |-> IF d \in DOMAIN t.kids
                                     THEN UpdateParentPath(t1[d], ChildPath(t, t.kids[d]))
                                     ELSE t1[d]]
       IN  menu' = UpdateRow(t2, t.id, t.row)
    /\ Finish(hd)
    /\ UNCHANGED <<used, ops>>

\* Delete: denied by configuration, or Get the menu and query the
\* children under its path.
DeleteRead(hd, m) ==
    /\ Begin(hd)
    /\ IF DenyDeleteMenu \/ ~Found(menu, m) THEN UNCHANGED h
       ELSE h' = [h EXCEPT ![hd] = [Idle EXCEPT !.pc = "delete", !.id = m,
                     !.kids = [d \in WithPrefix(menu, menu[m].path \o <<m>>) |-> menu[d].path]]]
    /\ UNCHANGED <<menu, used>>

\* The transaction deletes the menu and every child read.
DeleteCommit(hd) ==
    /\ h[hd].pc = "delete"
    /\ menu' = DeleteRows(menu, {h[hd].id} \cup DOMAIN h[hd].kids)
    /\ Finish(hd)
    /\ UNCHANGED <<used, ops>>

-----------------------------------------------------------------------------
(* LoginUsecase.QueryMenus for a user who is not root: the enabled menus  *)
(* the user's roles grant (G, the role_menu rows), the ancestors their    *)
(* parent_path names that the result lacks (queried by id, any status),   *)
(* and Menus.ToTree over the lot.  Reads only.                            *)

\* Menus.SplitParentIDs: an item already met (as an item or as a parent)
\* is skipped; otherwise each id on its path not met yet is a parent id.
\* The items are taken in one order (the query's sequence order).
RECURSIVE SplitFrom(_, _, _, _)
SplitFrom(t, items, met, pids) ==
    IF items = {} THEN pids
    ELSE LET d   == CHOOSE x \in items : TRUE
             new == Range(t[d].path) \ (met \cup {d})
         IN  IF d \in met THEN SplitFrom(t, items \ {d}, met, pids)
             ELSE SplitFrom(t, items \ {d}, met \cup {d} \cup new, pids \cup new)

SplitParentIDs(t, items) == SplitFrom(t, items, {}, {})

\* Menus.ToTree: the menus reachable from a top-level one through parents
\* present in the list (an item whose parent is absent is dropped).
RECURSIVE Attached(_, _, _)
Attached(t, rows, acc) ==
    LET more == {d \in rows : t[d].parent \in acc} \ acc
    IN  IF more = {} THEN acc ELSE Attached(t, rows, acc \cup more)

ToTree(t, rows) == Attached(t, rows, {d \in rows : t[d].parent = Root})

\* Variant: the result's tree without the missing parents filled in.
QueryMenusNoFill(t, G) ==
    ToTree(t, RepoQuery(t, [status |-> "enabled", grants |-> G]))

QueryMenus(t, G) ==
    LET items == RepoQuery(t, [status |-> "enabled", grants |-> G])
        miss  == SplitParentIDs(t, items) \ items
    IN  ToTree(t, items \cup RepoQuery(t, [ids |-> miss]))

-----------------------------------------------------------------------------
(* MenuUsecase.Query with a CodePath (the admin tree filtered to the menu  *)
(* a code path names): fillQueryParam resolves the path one code at a     *)
(* time, the rows under the resolved menu are queried, and appendChildren *)
(* adds the children of each row and the parents its path names.  A code  *)
(* path is a sequence of codes (empty segments are skipped).  Reads only; *)
(* returns [ok, tree].                                                    *)

\* GetByCodeAndParentID: FindOne where code and parent_id match.
GetByCodeAndParentID(t, c, p) ==
    LET found == {d \in DOMAIN t : t[d].code = c /\ t[d].parent = p}
    IN  IF found = {} THEN Root ELSE CHOOSE d \in found : TRUE

\* lastMenu, a zero Menu at first, as [id, parent, path].
NoMenu == [id |-> Root, parent |-> Root, path |-> <<>>]

\* fillQueryParam's loop: each code is looked up under lastMenu.ParentID.
\* Returns the last menu, or Root's record with ok FALSE (NotFound).
RECURSIVE ResolveFrom(_, _, _)
ResolveFrom(t, codes, last) ==
    IF codes = <<>> THEN [ok |-> TRUE, last |-> last]
    ELSE LET d == GetByCodeAndParentID(t, Head(codes), last.parent)
         IN  IF d = Root THEN [ok |-> FALSE, last |-> last]
             ELSE ResolveFrom(t, Tail(codes), [id |-> d, parent |-> t[d].parent, path |-> t[d].path])

\* ParentPathPrefix = lastMenu.ParentPath + lastMenu.ID + "."
FillQueryParam(t, codes) ==
    LET r == ResolveFrom(t, codes, NoMenu)
    IN  [ok |-> r.ok, prefix |-> r.last.path \o <<r.last.id>>]

\* appendChildren: nothing for no rows; else each row's children by its
\* path, then the parents SplitParentIDs names that exist.
AppendChildren(t, data) ==
    IF data = {} THEN data
    ELSE LET kids == UNION {WithPrefix(t, t[d].path \o <<d>>) : d \in data}
             all  == data \cup kids
         IN  all \cup (SplitParentIDs(t, all) \cap DOMAIN t)

MenuQuery(t, codes) ==
    LET f == FillQueryParam(t, codes)
    IN  IF ~f.ok THEN [ok |-> FALSE]
        ELSE [ok |-> TRUE, tree |-> ToTree(t, AppendChildren(t, WithPrefix(t, f.prefix)))]

-----------------------------------------------------------------------------
Init ==
    /\ menu = <<>> /\ h = [hd \in Handlers |-> Idle] /\ used = {} /\ ops = 0

Next ==
    \/ \E f \in Files : Seed(f)
    \/ \E hd \in Handlers :
          \/ \E p \in Ids \cup {Root}, c \in Codes, s \in Status :
                CreateRead(hd, p, c, s)
          \/ \E m \in Ids, p \in Ids \cup {Root}, c \in Codes, s \in Status :
                UpdateRead(hd, m, p, c, s)
          \/ \E m \in Ids : DeleteRead(hd, m)
          \/ CreateCommit(hd) \/ UpdateCommit(hd) \/ DeleteCommit(hd)

Spec == Init /\ [][Next]_vars

=============================================================================
