------------------------------ MODULE MenuTree ------------------------------
(***************************************************************************)
(* What the admin menu API promises of the menu tree, with no paths, no   *)
(* codes and no transactions: a forest of menus linked by parent, each    *)
(* enabled or disabled.  A menu is created under a live menu or at the    *)
(* top; it is moved anywhere outside its own subtree, and a change of its *)
(* status is a change of the whole subtree's; it is deleted with its      *)
(* subtree; and seeding grows the forest by enabled menus, leaving the    *)
(* menus already there as they were.  Menu implements this tree when one  *)
(* admin request runs at a time (see MCMenu).                             *)
(***************************************************************************)
EXTENDS Naturals, FiniteSets

CONSTANTS Ids, Root

VARIABLE tree   \* id -> [parent, status]

Status == {"enabled", "disabled"}

\* The menus of m's subtree other than m: children, their children, and
\* so on (a tree of n menus is at most n deep).
RECURSIVE Below(_, _, _)
Below(t, S, n) ==
    LET more == S \cup {d \in DOMAIN t : t[d].parent \in S}
    IN  IF n = 0 \/ more = S THEN S ELSE Below(t, more, n - 1)

Descendants(t, m) == Below(t, {m}, Cardinality(DOMAIN t)) \ {m}

\* Every parent is live or the top, and no menu is its own ancestor.
IsForest(t) ==
    /\ \A d \in DOMAIN t : t[d].parent \in DOMAIN t \cup {Root}
    /\ \A d \in DOMAIN t : d \notin Descendants(t, d)

Create(id, p, s) ==
    /\ id \notin DOMAIN tree /\ p \in DOMAIN tree \cup {Root}
    /\ tree' = [d \in DOMAIN tree \cup {id} |->
                  IF d = id THEN [parent |-> p, status |-> s] ELSE tree[d]]

Update(m, p, s) ==
    /\ m \in DOMAIN tree /\ p \in DOMAIN tree \cup {Root}
    /\ p \notin Descendants(tree, m) \cup {m}
    /\ LET sub == IF tree[m].status # s THEN Descendants(tree, m) ELSE {}
       IN  tree' = [d \in DOMAIN tree |->
                      IF d = m THEN [parent |-> p, status |-> s]
                      ELSE IF d \in sub THEN [tree[d] EXCEPT !.status = s]
                      ELSE tree[d]]

Delete(m) ==
    /\ m \in DOMAIN tree
    /\ LET gone == {m} \cup Descendants(tree, m)
       IN  tree' = [d \in DOMAIN tree \ gone |-> tree[d]]

\* Seeding, stated of the tree before and after (it is checked as a step
\* of the implementation, not enumerated).
Grow ==
    /\ DOMAIN tree \subseteq DOMAIN tree' /\ DOMAIN tree' \subseteq Ids
    /\ \A d \in DOMAIN tree : tree'[d] = tree[d]
    /\ \A d \in DOMAIN tree' \ DOMAIN tree : tree'[d].status = "enabled"
    /\ IsForest(tree')

Init == tree = <<>>

Next ==
    \/ \E id \in Ids, p \in Ids \cup {Root}, s \in Status : Create(id, p, s)
    \/ \E m \in Ids, p \in Ids \cup {Root}, s \in Status : Update(m, p, s)
    \/ \E m \in Ids : Delete(m)
    \/ Grow

Spec == Init /\ [][Next]_tree

=============================================================================
