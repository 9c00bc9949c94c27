-------------------------------- MODULE HmpRbtree --------------------------------
(***************************************************************************)
(* The red-black tree of hmp_rbtree.c, pointer by pointer.  The fix-up loops *)
(* of insertion and removal take one step per turn, so that what holds       *)
(* between two turns can be stated.  The two mirror-image halves of every    *)
(* function are one definition, with the side as a parameter.                *)
(***************************************************************************)
EXTENDS Naturals, FiniteSets

CONSTANT MaxKey   \* nodes are named by their keys, 1 .. MaxKey

ASSUME MaxKeyAssumption == MaxKey \in Nat \ {0}

Node == 1 .. MaxKey
NULL == 0
Pointer == Node \cup {NULL}
Side == {"left", "right"}
Other(d) == IF d = "left" THEN "right" ELSE "left"

VARIABLES
  root,    \* root->rb_node
  child,   \* child[d][n]: n's rb_left and rb_right
  parent,  \* parent[n], red[n]: n's rb_parent_color
  red,
  pc,      \* "idle", or the loop the current call is in
  node,    \* the loops' variables: where the tree still has a defect,
  above,   \* and, while a node is removed, its parent
  keys     \* the nodes that were inserted and not removed

vars == <<root, child, parent, red, pc, node, above, keys>>

Tree == [root |-> root, child |-> child, parent |-> parent, red |-> red]
BecomeTree(new) ==
  \E t \in {new} : root' = t.root /\ child' = t.child /\ parent' = t.parent /\ red' = t.red

Init ==
  /\ root = NULL
  /\ child = [d \in Side |-> [n \in Node |-> NULL]]
  /\ parent = [n \in Node |-> NULL] /\ red = [n \in Node |-> FALSE]
  /\ pc = "idle" /\ node = NULL /\ above = NULL
  /\ keys = {}

-----------------------------------------------------------------------------
(* Operators on trees *)

SetParent(t, n, p) == IF n = NULL THEN t ELSE [t EXCEPT !.parent[n] = p]
SetRed(t, n, r) == IF n = NULL THEN t ELSE [t EXCEPT !.red[n] = r]
IsRed(t, n) == n # NULL /\ t.red[n]
SideOf(t, p, n) == IF t.child["left"][p] = n THEN "left" ELSE "right"

\* Whatever pointed to n from above, its parent p or the root, points to m.
Redirect(t, p, n, m) ==
  IF p = NULL THEN [t EXCEPT !.root = m]
  ELSE [t EXCEPT !.child[SideOf(t, p, n)][p] = m]

\* __rb_rotate_left and __rb_rotate_right: n goes down on side d, and its child
\* on the other side takes its place.
Rotate(t, n, d) ==
  LET m == t.child[Other(d)][n]
      inner == t.child[d][m]
      linked == SetParent([t EXCEPT !.child[Other(d)][n] = inner, !.child[d][m] = n], inner, n)
  IN SetParent(Redirect(SetParent(linked, m, t.parent[n]), t.parent[n], n, m), n, m)

\* The last node on the way from n to side d.
Outermost(t, n, d) ==
  LET f[x \in Node] == IF t.child[d][x] = NULL THEN x ELSE f[t.child[d][x]] IN f[n]

\* rb_first and rb_last: d is "left" or "right".
Extreme(t, d) == IF t.root = NULL THEN NULL ELSE Outermost(t, t.root, d)

\* Wrong: it stops at the first ancestor.
NeighbourNear(t, n, d) ==
  IF t.child[d][n] # NULL THEN Outermost(t, t.child[d][n], Other(d)) ELSE t.parent[n]

\* rb_next and rb_prev: down the child on that side, or up to the first
\* ancestor that has the node on its other side.
Neighbour(t, n, d) ==
  LET up[x \in Node] ==
        LET p == t.parent[x] IN IF p # NULL /\ x = t.child[d][p] THEN up[p] ELSE p
  IN IF t.child[d][n] # NULL THEN Outermost(t, t.child[d][n], Other(d)) ELSE up[n]

-----------------------------------------------------------------------------
(* Insertion *)

Max0(S) == CHOOSE x \in S : \A y \in S : y <= x
Below(k) == {x \in keys : x < k}
Above(k) == {x \in keys : x > k}
Succ(k) == IF Above(k) = {} THEN NULL ELSE CHOOSE x \in Above(k) : \A y \in Above(k) : x <= y
Pred(k) == IF Below(k) = {} THEN NULL ELSE Max0(Below(k))

\* Where a caller's search for k ends (external): below the neighbour that has
\* room on that side.
Place(k) ==
  CHOOSE e \in {<<Pred(k), "right">>, <<Succ(k), "left">>} :
    e[1] # NULL /\ child[e[2]][e[1]] = NULL

\* rb_link_node, with which a caller adds the new node as a red leaf.
LinkNode(t, k, p, d) ==
  LET fresh == [t EXCEPT !.parent[k] = p, !.red[k] = TRUE,
                         !.child["left"][k] = NULL, !.child["right"][k] = NULL]
  IN IF p = NULL THEN [fresh EXCEPT !.root = k] ELSE [fresh EXCEPT !.child[d][p] = k]

Insert(k) ==
  /\ pc = "idle" /\ k \notin keys
  /\ IF keys = {} THEN BecomeTree(LinkNode(Tree, k, NULL, "left"))
     ELSE \E e \in {Place(k)} : BecomeTree(LinkNode(Tree, k, e[1], e[2]))
  /\ pc' = "insert" /\ node' = k /\ keys' = keys \cup {k}
  /\ UNCHANGED above

\* The loop of rb_insert_color goes on while the parent is red.
RedParent == pc = "insert" /\ IsRed(Tree, parent[node])
Gparent == parent[parent[node]]
ParentSide == SideOf(Tree, Gparent, parent[node])
Uncle == child[Other(ParentSide)][Gparent]

\* A red uncle: the defect moves up two levels.
Recolour ==
  /\ RedParent /\ IsRed(Tree, Uncle)
  /\ BecomeTree(SetRed(SetRed(SetRed(Tree, Uncle, FALSE), parent[node], FALSE), Gparent, TRUE))
  /\ node' = Gparent
  /\ UNCHANGED <<pc, above, keys>>

\* A black uncle: if the node is an inner grandchild, a rotation makes it an
\* outer one; then the grandparent is rotated.
RotateInsert ==
  LET p == parent[node] g == Gparent d == ParentSide
      inner == child[Other(d)][p] = node
      t1 == IF inner THEN Rotate(Tree, p, d) ELSE Tree
      p1 == IF inner THEN node ELSE p
  IN
  /\ RedParent /\ ~IsRed(Tree, Uncle)
  /\ BecomeTree(Rotate(SetRed(SetRed(t1, p1, FALSE), g, TRUE), g, Other(d)))
  /\ node' = IF inner THEN p ELSE node
  /\ UNCHANGED <<pc, above, keys>>

\* The loop ends, and the root is made black.
InsertDone ==
  /\ pc = "insert" /\ ~IsRed(Tree, parent[node])
  /\ BecomeTree(SetRed(Tree, root, FALSE))
  /\ pc' = "idle" /\ node' = NULL
  /\ UNCHANGED <<above, keys>>

-----------------------------------------------------------------------------
(* Removal *)

\* A node leaves the tree: its only child c, or NULL, takes its place.
SpliceOut(t, n, c) == Redirect(SetParent(t, c, t.parent[n]), t.parent[n], n, c)

\* Node m takes the place, the links and the colour of node n.
TakePlace(t, n, m) ==
  LET own == [t EXCEPT !.parent[m] = t.parent[n], !.red[m] = t.red[n],
                       !.child["left"][m] = t.child["left"][n],
                       !.child["right"][m] = t.child["right"][n]]
  IN SetParent(SetParent(Redirect(own, t.parent[n], n, m), t.child["left"][n], m),
               t.child["right"][n], m)

\* A node that left the tree is its caller's, and free to be linked again.
Forget(t, k) ==
  [t EXCEPT !.parent[k] = NULL, !.red[k] = FALSE,
            !.child["left"][k] = NULL, !.child["right"][k] = NULL]

\* After the node is out, the loop follows only if it was black.
Removed(k, t, c, p, wasRed) ==
  /\ BecomeTree(Forget(t, k)) /\ keys' = keys \ {k}
  /\ IF wasRed THEN pc' = "idle" /\ node' = NULL /\ above' = NULL
               ELSE pc' = "erase" /\ node' = c /\ above' = p

\* rb_erase of a node with at most one child.
EraseSimple(k) ==
  LET c == IF child["left"][k] = NULL THEN child["right"][k] ELSE child["left"][k] IN
  /\ pc = "idle" /\ k \in keys
  /\ child["left"][k] = NULL \/ child["right"][k] = NULL
  /\ Removed(k, SpliceOut(Tree, k, c), c, parent[k], red[k])

\* Wrong: the parent of the hole is the removed node when that was the
\* successor's parent.
EraseInnerStale(k) ==
  /\ pc = "idle" /\ k \in keys
  /\ child["left"][k] # NULL /\ child["right"][k] # NULL
  /\ LET s == Outermost(Tree, child["right"][k], "left")
         c == child["right"][s]
     IN Removed(k, TakePlace(SpliceOut(Tree, s, c), k, s), c, parent[s], red[s])

\* Wrong: the successor is always taken for a left child.
EraseInnerLeft(k) ==
  /\ pc = "idle" /\ k \in keys
  /\ child["left"][k] # NULL /\ child["right"][k] # NULL
  /\ LET s == Outermost(Tree, child["right"][k], "left")
         c == child["right"][s]
         out == SetParent([Tree EXCEPT !.child["left"][parent[s]] = c], c, parent[s])
     IN Removed(k, TakePlace(out, k, s), c, parent[s], red[s])

\* rb_erase of a node with two: its successor s is taken out and put in its
\* place, with its colour.
EraseInner(k) ==
  /\ pc = "idle" /\ k \in keys
  /\ child["left"][k] # NULL /\ child["right"][k] # NULL
  /\ LET s == Outermost(Tree, child["right"][k], "left")
         c == child["right"][s]
         p == IF parent[s] = k THEN s ELSE parent[s]
     IN Removed(k, TakePlace(SpliceOut(Tree, s, c), k, s), c, p, red[s])

\* The loop of __rb_erase_color: one side lacks a black node.
Lacking == pc = "erase" /\ ~IsRed(Tree, node) /\ node # root
LackSide == SideOf(Tree, above, node)
Sibling == child[Other(LackSide)][above]
NephewsBlack == \A d \in Side : ~IsRed(Tree, child[d][Sibling])

\* A red sibling: a rotation gives the node a black one; the same turn goes on.
EraseRedSibling ==
  /\ Lacking /\ IsRed(Tree, Sibling)
  /\ BecomeTree(Rotate(SetRed(SetRed(Tree, Sibling, FALSE), above, TRUE), above, LackSide))
  /\ UNCHANGED <<pc, node, above, keys>>

\* No red nephew: the sibling turns red and the defect moves up.
EraseRecolour ==
  /\ Lacking /\ ~IsRed(Tree, Sibling) /\ NephewsBlack
  /\ BecomeTree(SetRed(Tree, Sibling, TRUE))
  /\ node' = above /\ above' = parent[above]
  /\ UNCHANGED <<pc, keys>>

\* A red nephew: if only the near one is red, a rotation makes the far one so;
\* then the parent is rotated, the far nephew turns black, and the loop ends.
EraseRotate ==
  LET d == LackSide far == Other(LackSide) s == Sibling
      turn == ~IsRed(Tree, child[far][s])
      t1 == IF turn THEN Rotate(SetRed(SetRed(Tree, child[d][s], FALSE), s, TRUE), s, far) ELSE Tree
      s1 == t1.child[far][above]
      t2 == SetRed(SetRed(t1, s1, red[above]), above, FALSE)
  IN
  /\ Lacking /\ ~IsRed(Tree, Sibling) /\ ~NephewsBlack
  /\ BecomeTree(Rotate(SetRed(t2, t2.child[far][s1], FALSE), above, d))
  /\ node' = root' /\ UNCHANGED <<pc, above, keys>>

\* Wrong: the loop does not end at the root.
EraseDoneAtRed ==
  /\ pc = "erase" /\ IsRed(Tree, node)
  /\ BecomeTree(SetRed(Tree, node, FALSE))
  /\ pc' = "idle" /\ node' = NULL /\ above' = NULL
  /\ UNCHANGED keys

\* The loop ends at the root or at a red node, which is made black.
EraseDone ==
  /\ pc = "erase" /\ (IsRed(Tree, node) \/ node = root)
  /\ BecomeTree(SetRed(Tree, node, FALSE))
  /\ pc' = "idle" /\ node' = NULL /\ above' = NULL
  /\ UNCHANGED keys

\* rb_replace_node: the new node must belong where the old one is.
Replace(k, new) ==
  /\ pc = "idle" /\ k \in keys /\ new \notin keys
  /\ Pred(k) < new /\ (Succ(k) = NULL \/ new < Succ(k))
  /\ BecomeTree(Forget(TakePlace(Tree, k, new), k))
  /\ keys' = (keys \ {k}) \cup {new}
  /\ UNCHANGED <<pc, node, above>>

InLoop == \/ Recolour \/ RotateInsert \/ InsertDone
          \/ EraseRedSibling \/ EraseRecolour \/ EraseRotate \/ EraseDone

Next ==
  \/ \E k \in Node : Insert(k) \/ EraseSimple(k) \/ EraseInner(k) \/ \E m \in Node : Replace(k, m)
  \/ InLoop

Spec == Init /\ [][Next]_vars

\* A call runs to its end; whether there is a next one is the caller's choice.
FairSpec == Spec /\ WF_vars(InLoop)

-----------------------------------------------------------------------------
(* Properties *)

\* The type invariant of this module: no link is to the node itself, which is
\* how rb_next and rb_prev tell a node outside every tree.
TypeOK ==
  /\ root \in Pointer /\ node \in Pointer /\ above \in Pointer
  /\ child \in [Side -> [Node -> Pointer]] /\ parent \in [Node -> Pointer]
  /\ red \in [Node -> BOOLEAN]
  /\ pc \in {"idle", "insert", "erase"} /\ keys \subseteq Node
  /\ \A n \in Node : parent[n] # n /\ \A d \in Side : child[d][n] # n

\* The links upwards are those downwards: the code walks both.
LinksAgree ==
  /\ root # NULL => parent[root] = NULL
  /\ \A n \in keys : \A d \in Side : child[d][n] # NULL => parent[child[d][n]] = n

\* rb_first, rb_next, rb_last and rb_prev see exactly the nodes that were
\* inserted and not removed, in the order of their keys, also in the middle of
\* a fix-up: no rotation loses or reorders a node.
WalkSeesKeys ==
  /\ LinksAgree
  /\ LET first == Extreme(Tree, "left") last == Extreme(Tree, "right") IN
     /\ first = (IF keys = {} THEN NULL ELSE CHOOSE x \in keys : \A y \in keys : x <= y)
     /\ last = (IF keys = {} THEN NULL ELSE Max0(keys))
     /\ \A n \in keys : Neighbour(Tree, n, "right") = Succ(n) /\ Neighbour(Tree, n, "left") = Pred(n)

\* The black nodes on every way down from n, the end counted as one; the node
\* a removal still lacks is counted as if it were there.  0 if two ways differ.
BlackHeight ==
  LET lack(p, d) == IF pc = "erase" /\ p = above /\ child[d][p] = node /\ d = LackSide THEN 1 ELSE 0
      f[n \in Pointer] ==
        IF n = NULL THEN 1
        ELSE LET l == f[child["left"][n]]  r == f[child["right"][n]] IN
             IF l = 0 \/ r = 0 \/ l + lack(n, "left") # r + lack(n, "right") THEN 0
             ELSE l + lack(n, "left") + (IF red[n] THEN 0 ELSE 1)
  IN f[root]

\* The tree is a red-black tree but for one defect, which the loop variables
\* name: while a node is inserted, it may have a red parent, or be a red root;
\* while a black node is removed, one side of a node lacks a black node, and
\* the node there may be red next to a red one.  Between calls there is none.
OneDefect ==
  /\ BlackHeight # 0
  /\ IsRed(Tree, root) => pc # "idle" /\ node = root
  /\ \A n \in keys :
       red[n] /\ IsRed(Tree, parent[n]) =>
         (pc # "idle" /\ node = n) \/ (pc = "erase" /\ node = parent[n])

\* rb_insert_color and rb_erase return: the defect cannot move up for ever.
CallsReturn == [](pc # "idle" => <>(pc = "idle"))
=============================================================================
