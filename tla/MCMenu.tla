------------------------------- MODULE MCMenu -------------------------------
EXTENDS Menu, TLC

CONSTANTS i1, i2, i3, i4, i5, c1, c2, a1, a2

MCIds == {i1, i2, i3, i4, i5}
MCCodes == {c1, c2}

\* configs/menu.json: one top-level menu c1 with one child c2.
MCFile == << [code |-> c1, children |-> << [code |-> c2, children |-> <<>>] >>] >>
MCFiles == {MCFile}

\* The same file grown by a third level, c1 > c2 > c1.
MCDeepFile == << [code |-> c1, children |-> << [code |-> c2, children |->
                  << [code |-> c1, children |-> <<>>] >>] >>] >>
MCDeepFiles == {MCFile, MCDeepFile}

MCOneHandler == {a1}
MCTwoHandlers == {a1, a2}

Rows == [parent : Ids \cup {Root}, path : Seq(Ids), code : Codes, status : Status]

(* The menu table holds rows of the schema; every live id, and the id a    *)
(* pending Create will insert, was handed out by NewXID, and that id is    *)
(* not yet live.                                                           *)
TypeOK ==
    /\ DOMAIN menu \subseteq used /\ used \subseteq Ids
    /\ \A d \in DOMAIN menu : menu[d] \in Rows
    /\ \A hd \in Handlers :
          /\ h[hd].pc \in {"idle", "create", "update", "delete"}
          /\ h[hd].pc = "create" => h[hd].id \in used \ DOMAIN menu
    /\ ops \in 0..MaxOps

(* The tree as parent_path and parent_id describe it agrees: a top-level  *)
(* menu has an empty path, and any other's parent is live and its path is *)
(* the parent's path followed by the parent (queryRoleResources grants    *)
(* the menus on a path, the tree UI follows parent_id).  Together this    *)
(* also rules out cycles and orphans.                                     *)
TreeConsistent ==
    \A d \in DOMAIN menu :
        IF menu[d].parent = Root THEN menu[d].path = <<>>
        ELSE /\ menu[d].parent \in DOMAIN menu
             /\ menu[d].path = menu[menu[d].parent].path \o <<menu[d].parent>>

(* The code of a menu is unique at its level (the Code field's comment;   *)
(* Create and Update check it with ExistsCodeByParentID).                 *)
CodeUniquePerLevel ==
    \A d, e \in DOMAIN menu :
        d # e /\ menu[d].parent = menu[e].parent => menu[d].code # menu[e].code

\* The menus the parent links lead to from S, S included.
RECURSIVE UpClosure(_, _)
UpClosure(S, n) ==
    LET up == S \cup {menu[d].parent : d \in {x \in S : menu[x].parent \in DOMAIN menu}}
    IN  IF n = 0 \/ up = S THEN S ELSE UpClosure(up, n - 1)

(* The menu tree a user is shown (QueryMenus, built from parent_path and  *)
(* then linked by parent_id) is, whatever menus the user's roles grant,   *)
(* exactly the granted enabled menus and all their ancestors.             *)
UserMenusShown ==
    \A G \in SUBSET DOMAIN menu :
        QueryMenus(menu, G) =
            UpClosure({d \in G : menu[d].status = "enabled"}, Cardinality(Ids))


\* The tree the menu table stands for: each row's parent_id and status.
Tree == INSTANCE MenuTree WITH
            tree <- [d \in DOMAIN menu |-> [parent |-> menu[d].parent, status |-> menu[d].status]]

(* With one admin request at a time, every step of the menu API and of    *)
(* the seeding command is a step of the abstract tree: a move never       *)
(* leaves the forest, a status change reaches the whole subtree that      *)
(* parent_id describes, a delete removes exactly that subtree, and a      *)
(* seeding only adds enabled menus.                                       *)
MenuRefinesTree == Tree!Spec


\* The code path of menu m: the codes of its ancestors from the top, then
\* its own.
CodePathOf(m) ==
    [i \in 1..(Len(menu[m].path) + 1) |->
        IF i <= Len(menu[m].path) THEN menu[menu[m].path[i]].code ELSE menu[m].code]

(* Querying the admin menu list by the code path of a menu that has       *)
(* children shows that menu's subtree (with the ancestors that link it to *)
(* the top) and nothing else, while codes are unique per level so that    *)
(* the path names one menu.                                               *)
CodePathQueryShowsSubtree ==
    CodeUniquePerLevel =>
        \A m \in DOMAIN menu :
            LET below == {d \in DOMAIN menu : d # m /\ m \in UpClosure({d}, Cardinality(Ids))}
                q     == MenuQuery(menu, CodePathOf(m))
            IN  below # {} =>
                    /\ q.ok
                    /\ below \subseteq q.tree
                    /\ q.tree \subseteq below \cup UpClosure({m}, Cardinality(Ids))
=============================================================================
