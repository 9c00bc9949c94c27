----------------------------- MODULE HmpRbtreeProofs -----------------------------
(***************************************************************************)
(* Proofs about HmpRbtree, for any number of keys.  What holds of a node     *)
(* depends on its whole subtree; the proof carries it in two functions that  *)
(* the code does not have: between which two keys the subtree of a node      *)
(* lies, and how many black nodes are on the ways down from it.  With them   *)
(* every part of the invariant relates a node to its two children only.      *)
(***************************************************************************)
EXTENDS HmpRbtree, WellFoundedInduction, TLAPS

Bound == 0 .. MaxKey + 1
End(d) == IF d = "left" THEN 0 ELSE MaxKey + 1
Inside(k, a, b) == (a < k /\ k < b) \/ (b < k /\ k < a)

\* a lies on side d of b; y is the nearest key that does, or the last one.
Beyond(d, a, b) == IF d = "left" THEN a < b ELSE b < a
IsNext(ks, d, b, y) ==
  y \in ks /\ Beyond(d, y, b) /\ \A k \in ks : Beyond(d, k, b) => k = y \/ Beyond(d, k, y)
IsLast(ks, d, y) == y \in ks /\ \A k \in ks : k = y \/ Beyond(d, y, k)

Trees == [root : Pointer, child : [Side -> [Node -> Pointer]],
          parent : [Node -> Pointer], red : [Node -> BOOLEAN]]

-----------------------------------------------------------------------------
(* The parts of the invariant, for a tree t over the keys ks *)

\* edge[d][n]: the nearest key outside n's subtree on side d, or the end there.
Typed(t, ks, edge) ==
  /\ t \in Trees /\ ks \in SUBSET Node /\ edge \in [Side -> [Node -> Bound]]

RootPart(t, ks, edge) ==
  /\ t.root = NULL => ks = {}
  /\ t.root # NULL => /\ t.root \in ks /\ t.parent[t.root] = NULL
                      /\ \A d \in Side : edge[d][t.root] = End(d)

ParentPart(t, ks) ==
  \A n \in ks : n # t.root =>
    t.parent[n] \in ks /\ \E d \in Side : t.child[d][t.parent[n]] = n

EdgePart(ks, edge) ==
  \A n \in ks : \A d \in Side : Beyond(d, edge[d][n], n) /\ edge[d][n] \in ks \cup {End(d)}

ChildPart(t, ks, edge) ==
  \A n \in ks : \A d \in Side : t.child[d][n] # NULL =>
    /\ t.child[d][n] \in ks /\ t.parent[t.child[d][n]] = n
    /\ edge[d][t.child[d][n]] = edge[d][n] /\ edge[Other(d)][t.child[d][n]] = n

\* Where there is no child there is no key.
GapPart(t, ks, edge) ==
  \A n \in ks : \A d \in Side : t.child[d][n] = NULL =>
    \A k \in ks : ~Inside(k, edge[d][n], n)

Search(t, ks, edge) ==
  /\ Typed(t, ks, edge) /\ RootPart(t, ks, edge) /\ ParentPart(t, ks)
  /\ EdgePart(ks, edge) /\ ChildPart(t, ks, edge) /\ GapPart(t, ks, edge)

\* A node outside the tree has no links.
Bare(t, ks) ==
  \A n \in Node \ ks : /\ t.parent[n] = NULL /\ t.red[n] = FALSE
                       /\ \A d \in Side : t.child[d][n] = NULL

\* bh[n]: the black nodes on every way down from n; the way from h to side sd
\* lacks one, and is counted as if it had it.
Balanced(t, ks, bh, h, sd) ==
  /\ bh \in [Pointer -> Nat \ {0}] /\ bh[NULL] = 1
  /\ \A n \in ks : \A d \in Side :
       bh[n] = bh[t.child[d][n]] + (IF n = h /\ d = sd THEN 1 ELSE 0) + (IF t.red[n] THEN 0 ELSE 1)

Colours(t, ks, phase, nd) ==
  /\ IsRed(t, t.root) => phase # "idle" /\ nd = t.root
  /\ \A n \in ks :
       t.red[n] /\ IsRed(t, t.parent[n]) =>
         (phase # "idle" /\ nd = n) \/ (phase = "erase" /\ nd = t.parent[n])

\* Where the loops' variables are.
Loop(t, ks, phase, nd, ab, sd) ==
  /\ phase \in {"idle", "insert", "erase"} /\ sd \in Side
  /\ phase = "idle" => nd = NULL /\ ab = NULL
  /\ phase = "insert" => nd \in ks /\ t.red[nd] /\ ab = NULL
  /\ phase = "erase" => /\ nd \in ks \cup {NULL} /\ ab \in ks \cup {NULL}
                        /\ nd = t.root \/ (ab \in ks /\ t.child[sd][ab] = nd)

\* The node one of whose sides lacks a black node.
Hole(t, phase, nd, ab) == IF phase = "erase" /\ nd # t.root THEN ab ELSE NULL

Sound(t, ks, phase, nd, ab, edge, bh, sd) ==
  /\ Search(t, ks, edge) /\ Balanced(t, ks, bh, Hole(t, phase, nd, ab), sd)
  /\ Colours(t, ks, phase, nd) /\ Loop(t, ks, phase, nd, ab, sd)

Good(t, ks, phase, nd, ab, edge, bh, sd) ==
  Sound(t, ks, phase, nd, ab, edge, bh, sd) /\ Bare(t, ks)

IInv == \E edge, bh, sd : Good(Tree, keys, pc, node, above, edge, bh, sd)

-----------------------------------------------------------------------------
(* Lemmas about keys and sides *)

LEMMA Sides ==
  /\ Side = {"left", "right"} /\ Other("left") = "right" /\ Other("right") = "left"
  /\ \A d \in Side : Other(d) \in Side /\ Other(d) # d /\ Other(Other(d)) = d
  /\ \A d, e \in Side : e = d \/ e = Other(d)
BY DEF Side, Other

LEMMA Order ==
  ASSUME NEW d \in Side, NEW a \in Int, NEW b \in Int
  PROVE  /\ Beyond(Other(d), a, b) <=> Beyond(d, b, a)
         /\ ~(Beyond(d, a, b) /\ Beyond(d, b, a))
         /\ a = b \/ Beyond(d, a, b) \/ Beyond(d, b, a)
         /\ ~Beyond(d, a, a)
         /\ \A c \in Int : Beyond(d, a, b) /\ Beyond(d, b, c) => Beyond(d, a, c)
         /\ \A k \in Int : Inside(k, a, b) <=> \/ Beyond(d, a, k) /\ Beyond(d, k, b)
                                               \/ Beyond(d, b, k) /\ Beyond(d, k, a)
<1>1. CASE d = "left"
  BY <1>1 DEF Beyond, Inside, Other
<1>2. CASE d = "right"
  BY <1>2 DEF Beyond, Inside, Other
<1> QED BY <1>1, <1>2 DEF Side

LEMMA Opposite ==
  ASSUME NEW d \in Side, NEW a \in Int, NEW b \in Int, Beyond(Other(d), a, b)
  PROVE  ~Beyond(d, a, b) /\ a # b /\ Beyond(d, b, a)
<1>1. CASE d = "left"
  BY <1>1 DEF Beyond, Other
<1>2. CASE d = "right"
  BY <1>2 DEF Beyond, Other
<1> QED BY <1>1, <1>2 DEF Side

LEMMA Numbers ==
  /\ MaxKey \in Nat \ {0} /\ NULL = 0 /\ NULL \notin Node /\ NULL \in Pointer
  /\ Node \subseteq Pointer /\ Node \subseteq Int /\ Bound \subseteq Int /\ Node \subseteq Bound
  /\ \A p \in Pointer : p # NULL => p \in Node
  /\ \A d \in Side : End(d) \in Bound /\ End(d) \notin Node /\ \A k \in Node : Beyond(d, End(d), k)
<1>1. MaxKey \in Nat \ {0}
  BY MaxKeyAssumption
<1> QED BY <1>1 DEF NULL, Node, Pointer, Bound, End, Beyond, Side

LEMMA LeastNumber ==
  ASSUME NEW T \in SUBSET Nat, T # {}
  PROVE  \E x \in T : \A y \in T : x <= y
<1>1. PICK x \in T : \A y \in T : ~(<<y, x>> \in OpToRel(<, Nat))
  BY NatLessThanWellFounded, WFMin
<1>2. \A y \in T : ~(y < x)
  BY <1>1 DEF OpToRel
<1> QED BY <1>2

\* A set of keys has a first and a last one.
LEMMA LastExists ==
  ASSUME NEW S, S \subseteq Node, S # {}, NEW d \in Side
  PROVE  \E y \in S : IsLast(S, d, y)
<1>1. S \subseteq Nat /\ MaxKey \in Nat /\ \A x \in S : x <= MaxKey
  BY MaxKeyAssumption DEF Node
<1>2. \A T \in SUBSET Nat : T # {} => \E x \in T : \A y \in T : x <= y
  BY LeastNumber
<1>3. CASE d = "left"
  BY <1>1, <1>2, <1>3 DEF IsLast, Beyond
<1>4. CASE d = "right"
  <2> DEFINE T == {MaxKey - x : x \in S}
  <2>1. T \in SUBSET Nat /\ T # {}
    <3>1. \A x \in S : MaxKey - x \in Nat
      BY <1>1
    <3> QED BY <3>1
  <2>2. PICK m \in T : \A y \in T : m <= y
    BY <2>1, <1>2
  <2>3. PICK z \in S : m = MaxKey - z
    OBVIOUS
  <2>4. \A y \in S : MaxKey - z <= MaxKey - y
    BY <2>2, <2>3
  <2>5. \A y \in S : y = z \/ y < z
    BY <2>4, <1>1
  <2> QED BY <2>5, <1>4 DEF IsLast, Beyond
<1> QED BY <1>3, <1>4 DEF Side

\* There is one nearest key on a side, if there is any.
LEMMA NextExists ==
  ASSUME NEW ks \in SUBSET Node, NEW d \in Side, NEW b \in Int, NEW k \in ks, Beyond(d, k, b)
  PROVE  \E y \in ks : IsNext(ks, d, b, y)
<1> DEFINE S == {x \in ks : Beyond(d, x, b)}
<1>1. S \subseteq Node /\ S # {}
  OBVIOUS
<1>2. PICK y \in S : IsLast(S, Other(d), y)
  BY <1>1, LastExists, Sides
<1>3. \A x \in S : x = y \/ Beyond(d, x, y)
  BY <1>2, <1>1, Order, Sides, Numbers DEF IsLast
<1> QED BY <1>3 DEF IsNext

LEMMA NextUnique ==
  ASSUME NEW ks \in SUBSET Node, NEW d \in Side, NEW b, NEW x, NEW y,
         IsNext(ks, d, b, x), IsNext(ks, d, b, y)
  PROVE  x = y
BY Order, Numbers DEF IsNext

-----------------------------------------------------------------------------
(* What the walks find *)

LEMMA Fields ==
  ASSUME NEW t, NEW ks, NEW edge, Typed(t, ks, edge)
  PROVE  /\ ks \in SUBSET Node /\ t.root \in Pointer
         /\ \A n \in Node : t.parent[n] \in Pointer /\ t.red[n] \in BOOLEAN
         /\ \A n \in Node : \A d \in Side : t.child[d][n] \in Pointer /\ edge[d][n] \in Bound
         /\ \A n \in Node : \A d \in Side : edge[d][n] \in Int
<1>1. /\ ks \in SUBSET Node /\ t \in Trees /\ edge \in [Side -> [Node -> Bound]]
  BY DEF Typed
<1>2. /\ t.root \in Pointer /\ t.child \in [Side -> [Node -> Pointer]]
      /\ t.parent \in [Node -> Pointer] /\ t.red \in [Node -> BOOLEAN]
  BY <1>1 DEF Trees
<1>3. /\ \A n \in Node : t.parent[n] \in Pointer /\ t.red[n] \in BOOLEAN
      /\ \A n \in Node : \A d \in Side : t.child[d][n] \in Pointer /\ edge[d][n] \in Bound
  BY <1>1, <1>2
<1>4. Bound \subseteq Int
  BY Numbers
<1> QED BY <1>1, <1>2, <1>3, <1>4

\* Going down on side d from n ends at the first key behind n's edge there.
LEMMA OutermostIs ==
  ASSUME NEW t, NEW ks, NEW edge, Search(t, ks, edge), Bare(t, ks), NEW n \in ks, NEW d \in Side
  PROVE  LET o == Outermost(t, n, d) IN
         /\ o \in ks /\ t.child[d][o] = NULL /\ edge[d][o] = edge[d][n]
         /\ IsNext(ks, Other(d), edge[d][n], o)
<1> DEFINE f[x \in Node] == IF t.child[d][x] = NULL THEN x ELSE f[t.child[d][x]]
           Step(g) == g = [x \in Node |-> IF t.child[d][x] = NULL THEN x ELSE g[t.child[d][x]]]
           W == [x \in Node |-> IF x \in ks
                                THEN CHOOSE y \in ks : IsNext(ks, Other(d), edge[d][x], y) ELSE x]
<1>1. ks \in SUBSET Node /\ \A x \in Node : t.child[d][x] \in Pointer /\ edge[d][x] \in Int
  BY Fields DEF Search
<1>2. \A x \in ks : t.child[d][x] = NULL => IsNext(ks, Other(d), edge[d][x], x)
  <2>1. SUFFICES ASSUME NEW x \in ks, t.child[d][x] = NULL, NEW k \in ks, Beyond(Other(d), k, edge[d][x]), k # x
                 PROVE  Beyond(Other(d), x, edge[d][x]) /\ Beyond(Other(d), k, x)
    BY Order, Sides, Numbers, <1>1 DEF IsNext, Search, EdgePart
  <2>2. Beyond(d, edge[d][x], x) /\ ~Inside(k, edge[d][x], x)
    BY <2>1 DEF Search, EdgePart, GapPart
  <2>3. x \in Int /\ k \in Int /\ edge[d][x] \in Int
    BY <1>1, Numbers
  <2> QED BY <2>1, <2>2, <2>3, Order
<1>3. Step(W)
  <2>1. \A x \in ks : IsNext(ks, Other(d), edge[d][x], x) =>
          (CHOOSE y \in ks : IsNext(ks, Other(d), edge[d][x], y)) = x
    BY <1>1, NextUnique, Sides
  <2>2. ASSUME NEW x \in Node
        PROVE  W[x] = IF t.child[d][x] = NULL THEN x ELSE W[t.child[d][x]]
    <3>1. CASE x \notin ks
      BY <3>1 DEF Bare
    <3>2. CASE x \in ks /\ t.child[d][x] = NULL
      BY <3>2, <1>2, <2>1
    <3>3. CASE x \in ks /\ t.child[d][x] # NULL
      BY <3>3, <1>1 DEF Search, ChildPart
    <3> QED BY <3>1, <3>2, <3>3
  <2>3. W = [x \in Node |-> W[x]]
    OBVIOUS
  <2> HIDE DEF W
  <2> QED BY <2>2, <2>3
<1>4. \A x \in Node : f[x] = IF t.child[d][x] = NULL THEN x ELSE f[t.child[d][x]]
  <2> DEFINE g == CHOOSE g : Step(g)
  <2>1. Step(g)
    BY <1>3
  <2> QED BY <2>1
<1>5. Outermost(t, n, d) = f[n]
  BY DEF Outermost
<1> HIDE DEF f
<1> DEFINE Right(x) == f[x] \in ks /\ t.child[d][f[x]] = NULL /\ edge[d][f[x]] = edge[d][x]
           Wrong == {x \in ks : ~Right(x)}
<1>6. Wrong = {}
  <2>1. SUFFICES ASSUME Wrong # {} PROVE FALSE
    OBVIOUS
  <2>2. PICK x \in Wrong : IsLast(Wrong, d, x)
    BY <2>1, <1>1, LastExists
  <2>3. x \in ks /\ t.child[d][x] # NULL
    BY <1>1, <1>4
  <2>4. /\ t.child[d][x] \in ks /\ edge[Other(d)][t.child[d][x]] = x
        /\ edge[d][t.child[d][x]] = edge[d][x]
    BY <2>3 DEF Search, ChildPart
  <2>5. Beyond(Other(d), x, t.child[d][x])
    <3>1. Other(d) \in Side
      BY Sides
    <3>2. Beyond(Other(d), edge[Other(d)][t.child[d][x]], t.child[d][x])
      BY <2>4, <3>1 DEF Search, EdgePart
    <3> QED BY <3>2, <2>4
  <2>6. t.child[d][x] \notin Wrong
    <3>1. x \in Int /\ t.child[d][x] \in Int
      BY <2>3, <2>4, <1>1, Numbers
    <3>2. ~Beyond(d, x, t.child[d][x]) /\ x # t.child[d][x]
      BY <3>1, <2>5, Opposite
    <3> QED BY <3>2, <2>2 DEF IsLast
  <2> QED BY <2>3, <2>4, <2>6, <1>1, <1>4
<1>7. Right(n)
  BY <1>6
<1> QED BY <1>2, <1>5, <1>7

\* What lies in front of the node that stands between two keys: the child there.
LEMMA EdgeHasChild ==
  ASSUME NEW t, NEW ks, NEW edge, Search(t, ks, edge), NEW n \in ks, NEW d \in Side,
         edge[d][n] \in ks
  PROVE  t.child[Other(d)][edge[d][n]] # NULL
<1> DEFINE Wrong == {x \in ks : edge[d][x] \in ks /\ t.child[Other(d)][edge[d][x]] = NULL}
<1>1. ks \in SUBSET Node /\ Other(d) \in Side
  BY Fields, Sides DEF Search
<1>2. SUFFICES ASSUME Wrong # {} PROVE FALSE
  OBVIOUS
<1>3. PICK x \in Wrong : IsLast(Wrong, Other(d), x)
  BY <1>1, <1>2, LastExists
<1>4. x \in ks /\ edge[d][x] \in ks /\ t.child[Other(d)][edge[d][x]] = NULL
  OBVIOUS
<1>5. x # t.root
  BY <1>4, <1>1, Numbers DEF Search, RootPart
<1>6. PICK e \in Side : t.parent[x] \in ks /\ t.child[e][t.parent[x]] = x
  BY <1>4, <1>5 DEF Search, ParentPart
<1> DEFINE p == t.parent[x]
<1>7. x # NULL /\ x \in Int /\ p \in Int
  BY <1>1, <1>4, <1>6, Numbers
<1>8. edge[e][x] = edge[e][p] /\ edge[Other(e)][x] = p
  BY <1>6, <1>7 DEF Search, ChildPart
<1>9. CASE e = d
  <2>1. p \in Wrong
    BY <1>4, <1>6, <1>8, <1>9
  <2>2. Beyond(Other(d), edge[Other(d)][x], x)
    BY <1>1, <1>4 DEF Search, EdgePart
  <2>3. Beyond(Other(d), p, x)
    BY <2>2, <1>8, <1>9
  <2>4. p = x \/ Beyond(Other(d), x, p)
    BY <2>1, <1>3 DEF IsLast
  <2> QED BY <2>3, <2>4, <1>1, <1>7, Order
<1>10. CASE e = Other(d)
  BY <1>4, <1>6, <1>7, <1>8, <1>10, Sides
<1> QED BY <1>9, <1>10, Sides

\* rb_next and rb_prev find the nearest key, or NULL if there is none.
LEMMA NeighbourIs ==
  ASSUME NEW t, NEW ks, NEW edge, Search(t, ks, edge), Bare(t, ks), NEW n \in ks, NEW d \in Side
  PROVE  LET o == Neighbour(t, n, d) IN
         IsNext(ks, d, n, o) \/ (o = NULL /\ \A k \in ks : ~Beyond(d, k, n))
<1> DEFINE up[x \in Node] ==
             LET p == t.parent[x] IN IF p # NULL /\ x = t.child[d][p] THEN up[p] ELSE p
           Turn(g, x) == LET p == t.parent[x] IN IF p # NULL /\ x = t.child[d][p] THEN g[p] ELSE p
           W == [x \in Node |-> IF x \in ks /\ edge[d][x] # End(d) THEN edge[d][x] ELSE NULL]
<1>1. ks \in SUBSET Node /\ Other(d) \in Side /\ \A x \in Node : t.child[d][x] \in Pointer
  BY Fields, Sides DEF Search
<1>2. \A x \in ks : x # NULL /\ x # End(d) /\ x \in Node
  BY <1>1, Numbers
<1>3. ASSUME NEW x \in ks, x # t.root
      PROVE  /\ t.parent[x] \in ks
             /\ x = t.child[d][t.parent[x]] =>
                  edge[d][x] = edge[d][t.parent[x]] /\ edge[Other(d)][x] = t.parent[x]
             /\ x # t.child[d][t.parent[x]] => edge[d][x] = t.parent[x]
  <2>1. PICK e \in Side : t.parent[x] \in ks /\ t.child[e][t.parent[x]] = x
    BY <1>3 DEF Search, ParentPart
  <2>2. \A c \in Side : t.child[c][t.parent[x]] = x =>
          edge[c][x] = edge[c][t.parent[x]] /\ edge[Other(c)][x] = t.parent[x]
    BY <2>1, <1>2 DEF Search, ChildPart
  <2>3. e = d \/ (e = Other(d) /\ Other(e) = d)
    BY DEF Side, Other
  <2> QED BY <2>1, <2>2, <2>3
<1>4. W = [x \in Node |-> Turn(W, x)]
  <2>1. ASSUME NEW x \in Node PROVE W[x] = Turn(W, x)
    <3>1. CASE x \notin ks
      BY <3>1 DEF Bare
    <3>2. CASE x = t.root /\ x \in ks
      BY <3>2, <1>2 DEF Search, RootPart
    <3>3. CASE x # t.root /\ x \in ks
      BY <3>3, <1>2, <1>3
    <3> QED BY <3>1, <3>2, <3>3
  <2>2. W = [x \in Node |-> W[x]]
    OBVIOUS
  <2> HIDE DEF W
  <2> QED BY <2>1, <2>2
<1>5. \A x \in Node : up[x] = Turn(up, x)
  <2> DEFINE g == CHOOSE g : g = [x \in Node |-> Turn(g, x)]
  <2>1. g = [x \in Node |-> Turn(g, x)]
    BY <1>4
  <2> QED BY <2>1
<1>6. t.child[d][n] = NULL => Neighbour(t, n, d) = up[n]
  BY DEF Neighbour
<1>7. t.child[d][n] # NULL => Neighbour(t, n, d) = Outermost(t, t.child[d][n], Other(d))
  BY DEF Neighbour
<1> HIDE DEF up
<1> DEFINE Wrong == {x \in ks : up[x] # W[x]}
<1>8. Wrong = {}
  <2>1. SUFFICES ASSUME Wrong # {} PROVE FALSE
    OBVIOUS
  <2>2. PICK x \in Wrong : IsLast(Wrong, Other(d), x)
    BY <1>1, <2>1, LastExists
  <2>3. x \in ks /\ up[x] # W[x] /\ up[x] = Turn(up, x) /\ W[x] = Turn(W, x)
    BY <1>2, <1>4, <1>5
  <2> HIDE DEF W
  <2>4. t.parent[x] # NULL /\ x = t.child[d][t.parent[x]] /\ up[t.parent[x]] # W[t.parent[x]]
    BY <2>3
  <2>5. x # t.root
    BY <2>3, <2>4, <1>2 DEF Search, RootPart
  <2>6. t.parent[x] \in Wrong /\ edge[Other(d)][x] = t.parent[x]
    BY <2>3, <2>4, <2>5, <1>3
  <2>7. Beyond(Other(d), t.parent[x], x)
    BY <1>1, <2>3, <2>6 DEF Search, EdgePart
  <2>8. t.parent[x] = x \/ Beyond(Other(d), x, t.parent[x])
    BY <2>2, <2>6 DEF IsLast
  <2>9. x \in Int /\ t.parent[x] \in Int
    BY <2>3, <2>6, <1>1, Numbers
  <2> QED BY <1>1, <2>7, <2>8, <2>9, Order
<1>9. CASE t.child[d][n] # NULL
  <2>1. t.child[d][n] \in ks /\ edge[Other(d)][t.child[d][n]] = n
    BY <1>9 DEF Search, ChildPart
  <2>2. IsNext(ks, Other(Other(d)), n, Outermost(t, t.child[d][n], Other(d)))
    BY <2>1, <1>1, OutermostIs
  <2> QED BY <2>2, <1>7, <1>9, Sides
<1>10. CASE t.child[d][n] = NULL
  <2>1. \A k \in ks : ~Inside(k, edge[d][n], n)
    BY <1>10 DEF Search, GapPart
  <2>2. Beyond(d, edge[d][n], n) /\ edge[d][n] \in ks \cup {End(d)}
    BY DEF Search, EdgePart
  <2>3. edge[d][n] \in Int /\ \A k \in ks : k \in Int /\ Beyond(d, End(d), k)
    BY <1>1, <2>2, Numbers
  <2>4. \A k \in ks : Beyond(d, k, n) => k = edge[d][n] \/ Beyond(d, k, edge[d][n])
    BY <2>1, <2>3, Order
  <2>5. Neighbour(t, n, d) = IF edge[d][n] # End(d) THEN edge[d][n] ELSE NULL
    BY <1>2, <1>6, <1>8, <1>10
  <2>6. CASE edge[d][n] = End(d)
    <3>1. \A k \in ks : ~Beyond(d, k, n)
      BY <2>3, <2>4, <2>6, Order
    <3> QED BY <3>1, <2>5, <2>6
  <2>7. CASE edge[d][n] # End(d)
    BY <2>2, <2>4, <2>5, <2>7 DEF IsNext
  <2> QED BY <2>6, <2>7
<1> QED BY <1>9, <1>10

\* The two children of a node differ.
LEMMA ChildrenDiffer ==
  ASSUME NEW t, NEW ks, NEW edge, Search(t, ks, edge), NEW n \in ks, NEW d \in Side,
         t.child[d][n] # NULL
  PROVE  t.child[d][n] # t.child[Other(d)][n]
<1>1. Other(d) \in Side /\ Other(Other(d)) = d
  BY Sides
<1>2. ASSUME t.child[d][n] = t.child[Other(d)][n] PROVE edge[d][n] = n
  BY <1>1, <1>2 DEF Search, ChildPart
<1>3. n \in Int /\ Beyond(d, edge[d][n], n)
  BY Fields, Numbers DEF Search, EdgePart
<1> QED BY <1>2, <1>3, Order

\* Where the removed node's black is missing, the code looks on the right side.
LEMMA LackSideIs ==
  ASSUME NEW t, NEW ks, NEW edge, NEW bh, NEW sd \in Side, NEW n \in ks,
         Search(t, ks, edge), Balanced(t, ks, bh, n, sd)
  PROVE  SideOf(t, n, t.child[sd][n]) = sd
<1>1. CASE sd = "left"
  BY <1>1 DEF SideOf
<1>2. CASE sd = "right"
  <2>1. SUFFICES ASSUME t.child["left"][n] = t.child["right"][n] PROVE FALSE
    BY <1>2 DEF SideOf
  <2>2. t.child["left"][n] = NULL /\ t.child["right"][n] = NULL
    BY <2>1, ChildrenDiffer, Sides DEF Side
  <2>3. bh[NULL] = 1 /\ \A d \in Side :
          bh[n] = bh[NULL] + (IF d = sd THEN 1 ELSE 0) + (IF t.red[n] THEN 0 ELSE 1)
    BY <2>2 DEF Balanced, Side
  <2> QED BY <2>3, <1>2 DEF Side
<1> QED BY <1>1, <1>2 DEF Side

LEMMA TreeFields ==
  Tree.root = root /\ Tree.child = child /\ Tree.parent = parent /\ Tree.red = red
BY DEF Tree

\* The neighbours of a key among the keys.
LEMMA SuccIs ==
  ASSUME keys \in SUBSET Node, NEW k \in Nat, NEW y
  PROVE  /\ IsNext(keys, "right", k, y) => Succ(k) = y
         /\ IsNext(keys, "left", k, y) => Pred(k) = y
         /\ (\A x \in keys : ~Beyond("right", x, k)) => Succ(k) = NULL
         /\ (\A x \in keys : ~Beyond("left", x, k)) => Pred(k) = NULL
<1>1. keys \subseteq Int
  BY Numbers
<1>2. ASSUME IsNext(keys, "right", k, y) PROVE Succ(k) = y
  <2>1. y \in Above(k) /\ \A x \in Above(k) : y <= x
    BY <1>1, <1>2 DEF IsNext, Beyond, Above
  <2>2. \A z \in Above(k) : (\A x \in Above(k) : z <= x) => z = y
    BY <1>1, <2>1 DEF Above
  <2> QED BY <2>1, <2>2 DEF Succ
<1>3. ASSUME IsNext(keys, "left", k, y) PROVE Pred(k) = y
  <2>1. y \in Below(k) /\ \A x \in Below(k) : x <= y
    BY <1>1, <1>3 DEF IsNext, Beyond, Below
  <2>2. \A z \in Below(k) : (\A x \in Below(k) : x <= z) => z = y
    BY <1>1, <2>1 DEF Below
  <2> QED BY <2>1, <2>2 DEF Pred, Max0
<1>4. (\A x \in keys : ~Beyond("right", x, k)) => Above(k) = {}
  BY DEF Beyond, Above
<1>5. (\A x \in keys : ~Beyond("left", x, k)) => Below(k) = {}
  BY DEF Beyond, Below
<1> QED BY <1>2, <1>3, <1>4, <1>5 DEF Succ, Pred

LEMMA WalkInv ==
  ASSUME NEW edge, Search(Tree, keys, edge), Bare(Tree, keys)
  PROVE  WalkSeesKeys
<1>1. keys \in SUBSET Node /\ root \in Pointer
  BY Fields, TreeFields DEF Search
<1>2. LinksAgree
  <2>1. root # NULL => parent[root] = NULL
    BY TreeFields DEF Search, RootPart
  <2>2. \A n \in keys : \A d \in Side : child[d][n] # NULL => parent[child[d][n]] = n
    BY TreeFields DEF Search, ChildPart
  <2> QED BY <2>1, <2>2 DEF LinksAgree
<1>3. \A n \in keys : Neighbour(Tree, n, "right") = Succ(n) /\ Neighbour(Tree, n, "left") = Pred(n)
  <2>1. SUFFICES ASSUME NEW n \in keys
                 PROVE  Neighbour(Tree, n, "right") = Succ(n) /\ Neighbour(Tree, n, "left") = Pred(n)
    OBVIOUS
  <2>2. n \in Nat /\ "left" \in Side /\ "right" \in Side
    BY <1>1 DEF Node, Side
  <2>3. \/ IsNext(keys, "right", n, Neighbour(Tree, n, "right"))
        \/ Neighbour(Tree, n, "right") = NULL /\ \A k \in keys : ~Beyond("right", k, n)
    BY <2>2, NeighbourIs
  <2>4. \/ IsNext(keys, "left", n, Neighbour(Tree, n, "left"))
        \/ Neighbour(Tree, n, "left") = NULL /\ \A k \in keys : ~Beyond("left", k, n)
    BY <2>2, NeighbourIs
  <2>5. Neighbour(Tree, n, "right") = Succ(n)
    BY <1>1, <2>2, <2>3, SuccIs
  <2>6. Neighbour(Tree, n, "left") = Pred(n)
    BY <1>1, <2>2, <2>4, SuccIs
  <2> QED BY <2>5, <2>6
<1>4. CASE root = NULL
  <2>1. keys = {}
    BY <1>4, TreeFields DEF Search, RootPart
  <2>2. Extreme(Tree, "left") = NULL /\ Extreme(Tree, "right") = NULL
    BY <1>4, TreeFields DEF Extreme
  <2> QED BY <1>2, <1>3, <2>1, <2>2 DEF WalkSeesKeys
<1>5. CASE root # NULL
  <2>1. /\ root \in keys /\ keys # {} /\ edge["left"][root] = 0 /\ edge["right"][root] = MaxKey + 1
        /\ "left" \in Side /\ "right" \in Side
    BY <1>5, TreeFields DEF Search, RootPart, End, Side
  <2> DEFINE a == Extreme(Tree, "left")
             b == Extreme(Tree, "right")
  <2>2. a = Outermost(Tree, root, "left") /\ b = Outermost(Tree, root, "right")
    BY <1>5, TreeFields DEF Extreme
  <2>3. IsNext(keys, "right", 0, a)
    BY <2>1, <2>2, OutermostIs, Sides
  <2>4. IsNext(keys, "left", MaxKey + 1, b)
    BY <2>1, <2>2, OutermostIs, Sides
  <2>5. /\ MaxKey \in Nat /\ \A k \in keys : k \in Int /\ 0 < k /\ k < MaxKey + 1
    BY <1>1, MaxKeyAssumption DEF Node
  <2> HIDE DEF a, b
  <2>6. a \in keys /\ \A k \in keys : a <= k
    BY <2>3, <2>5 DEF IsNext, Beyond
  <2>7. b \in keys /\ \A k \in keys : k <= b
    BY <2>4, <2>5 DEF IsNext, Beyond
  <2>8. a = CHOOSE x \in keys : \A y \in keys : x <= y
    <3>1. \A z \in keys : (\A y \in keys : z <= y) => z = a
      BY <2>5, <2>6
    <3> QED BY <2>6, <3>1
  <2>9. b = Max0(keys)
    <3>1. \A z \in keys : (\A y \in keys : y <= z) => z = b
      BY <2>5, <2>7
    <3> QED BY <2>7, <3>1 DEF Max0
  <2> USE DEF a, b
  <2> QED BY <1>2, <1>3, <2>1, <2>8, <2>9 DEF WalkSeesKeys
<1> QED BY <1>4, <1>5

\* Counting the black nodes gives the function the invariant speaks of.
LEMMA HeightIs ==
  ASSUME NEW edge, NEW bh, NEW sd, Good(Tree, keys, pc, node, above, edge, bh, sd)
  PROVE  BlackHeight = bh[root]
<1> DEFINE h == Hole(Tree, pc, node, above)
           lack(p, d) == IF pc = "erase" /\ p = above /\ child[d][p] = node /\ d = LackSide THEN 1 ELSE 0
           Count(g, n) == IF n = NULL THEN 1
             ELSE LET l == g[child["left"][n]]  r == g[child["right"][n]] IN
                  IF l = 0 \/ r = 0 \/ l + lack(n, "left") # r + lack(n, "right") THEN 0
                  ELSE l + lack(n, "left") + (IF red[n] THEN 0 ELSE 1)
           f[n \in Pointer] == IF n = NULL THEN 1
             ELSE LET l == f[child["left"][n]]  r == f[child["right"][n]] IN
                  IF l = 0 \/ r = 0 \/ l + lack(n, "left") # r + lack(n, "right") THEN 0
                  ELSE l + lack(n, "left") + (IF red[n] THEN 0 ELSE 1)
           W == [n \in Pointer |-> IF n \in keys \/ n = NULL THEN bh[n] ELSE 1 + (IF red[n] THEN 0 ELSE 1)]
<1>1. /\ Search(Tree, keys, edge) /\ Bare(Tree, keys) /\ Balanced(Tree, keys, bh, h, sd)
      /\ Loop(Tree, keys, pc, node, above, sd)
  BY DEF Good, Sound
<1>2. /\ keys \in SUBSET Node /\ \A x \in Node : \A d \in Side : child[d][x] \in Pointer
      /\ root \in Pointer
  BY <1>1, Fields, TreeFields DEF Search
<1>3. /\ \A n \in keys : n # NULL /\ n \in Node /\ n \in Pointer
      /\ NULL \in Pointer /\ "left" \in Side /\ "right" \in Side
  BY <1>2, Numbers DEF Side
<1>4. /\ bh \in [Pointer -> Nat \ {0}] /\ bh[NULL] = 1
      /\ \A n \in keys : \A d \in Side :
           bh[n] = bh[child[d][n]] + (IF n = h /\ d = sd THEN 1 ELSE 0) + (IF red[n] THEN 0 ELSE 1)
  BY <1>1, TreeFields DEF Balanced
<1>5. \A n \in keys : \A d \in Side : child[d][n] # NULL =>
        /\ child[d][n] \in keys /\ parent[child[d][n]] = n
        /\ edge[d][child[d][n]] = edge[d][n] /\ edge[Other(d)][child[d][n]] = n
  BY <1>1, TreeFields DEF Search, ChildPart
<1>6. \A n \in keys : \A d \in Side : lack(n, d) = IF n = h /\ d = sd THEN 1 ELSE 0
  <2>1. SUFFICES ASSUME NEW n \in keys, NEW d \in Side
                 PROVE  lack(n, d) = IF n = h /\ d = sd THEN 1 ELSE 0
    OBVIOUS
  <2>2. CASE pc # "erase"
    BY <2>2, <1>3 DEF Hole
  <2>3. CASE pc = "erase" /\ node = root
    <3>1. root # NULL /\ parent[root] = NULL
      BY <1>1, TreeFields DEF Search, RootPart
    <3>2. child[d][n] # root
      BY <3>1, <1>3, <1>5
    <3> QED BY <2>3, <3>2, <1>3, TreeFields DEF Hole
  <2>4. CASE pc = "erase" /\ node # root
    <3>1. h = above /\ above \in keys /\ child[sd][above] = node /\ sd \in Side
      BY <2>4, <1>1, TreeFields DEF Hole, Loop
    <3>2. SideOf(Tree, above, node) = sd
      BY <3>1, <1>1, LackSideIs, TreeFields
    <3> QED BY <2>4, <3>1, <3>2 DEF LackSide
  <2> QED BY <2>2, <2>3, <2>4
<1> HIDE DEF lack
<1>7. \A n \in Node \ keys : \A d \in Side : lack(n, d) = 0 /\ child[d][n] = NULL
  <2>1. pc = "erase" => above \in keys \cup {NULL}
    BY <1>1 DEF Loop
  <2> QED BY <2>1, <1>1, Numbers, TreeFields DEF Bare, lack
<1>8. W = [n \in Pointer |-> Count(W, n)]
  <2>1. ASSUME NEW n \in Pointer PROVE W[n] = Count(W, n)
    <3>1. CASE n = NULL
      BY <3>1, <1>4
    <3>2. CASE n \in keys
      <4> DEFINE l == child["left"][n]  r == child["right"][n]
      <4>1. /\ l \in Pointer /\ r \in Pointer /\ (l = NULL \/ l \in keys) /\ (r = NULL \/ r \in keys)
            /\ n # NULL
        BY <1>2, <1>3, <1>5, <3>2
      <4>2. W[l] = bh[l] /\ W[r] = bh[r] /\ bh[l] \in Nat \ {0} /\ bh[r] \in Nat \ {0} /\ W[n] = bh[n]
        BY <4>1, <1>4, <3>2
      <4>3. /\ bh[n] = bh[l] + lack(n, "left") + (IF red[n] THEN 0 ELSE 1)
            /\ bh[n] = bh[r] + lack(n, "right") + (IF red[n] THEN 0 ELSE 1)
            /\ lack(n, "left") \in {0, 1} /\ lack(n, "right") \in {0, 1}
        BY <1>3, <1>4, <1>6, <3>2
      <4> HIDE DEF W
      <4> QED BY <4>1, <4>2, <4>3
    <3>3. CASE n # NULL /\ n \notin keys
      <4>1. n \in Node /\ child["left"][n] = NULL /\ child["right"][n] = NULL
            /\ lack(n, "left") = 0 /\ lack(n, "right") = 0
        BY <3>3, <1>3, <1>7, Numbers
      <4>2. W[NULL] = 1 /\ W[n] = 1 + (IF red[n] THEN 0 ELSE 1)
        BY <3>3, <1>3, <1>4
      <4> HIDE DEF W
      <4> QED BY <4>1, <4>2, <3>3
    <3> QED BY <3>1, <3>2, <3>3
  <2>2. W = [n \in Pointer |-> W[n]]
    OBVIOUS
  <2> HIDE DEF W
  <2> QED BY <2>1, <2>2
<1>9. BlackHeight = f[root]
  BY DEF BlackHeight, lack
<1>10. \A n \in Pointer : f[n] = Count(f, n)
  <2> DEFINE g == CHOOSE g : g = [n \in Pointer |-> Count(g, n)]
  <2>1. g = [n \in Pointer |-> Count(g, n)]
    BY <1>8
  <2> QED BY <2>1
<1> HIDE DEF f
<1> DEFINE Wrong == {n \in keys : f[n] # bh[n]}
           width(n) == edge["right"][n] - edge["left"][n]
<1>11. Wrong = {}
  <2>1. SUFFICES ASSUME Wrong # {} PROVE FALSE
    OBVIOUS
  <2>2. \A n \in keys : /\ edge["left"][n] \in Int /\ edge["right"][n] \in Int /\ n \in Int
                        /\ edge["left"][n] < n /\ n < edge["right"][n]
    <3>1. \A n \in keys : Beyond("left", edge["left"][n], n) /\ Beyond("right", edge["right"][n], n)
      BY <1>1, <1>3 DEF Search, EdgePart
    <3> QED BY <3>1, <1>1, <1>3, Fields, Numbers DEF Search, Beyond
  <2>3. \A n \in keys : width(n) \in Nat
    BY <2>2
  <2>4. PICK n \in Wrong : \A x \in Wrong : width(n) <= width(x)
    <3> DEFINE T == {width(x) : x \in Wrong}
    <3>1. T \in SUBSET Nat /\ T # {}
      BY <2>1, <2>3
    <3>2. PICK w \in T : \A y \in T : w <= y
      BY <3>1, LeastNumber
    <3> HIDE DEF width
    <3> QED BY <3>2
  <2> DEFINE l == child["left"][n]  r == child["right"][n]
  <2> HIDE DEF l, r
  <2>5. f[NULL] = bh[NULL]
    BY <1>3, <1>4, <1>10
  <2>6. l = NULL \/ (l \in keys /\ width(l) < width(n))
    <3>1. l # NULL => l \in keys /\ edge["left"][l] = edge["left"][n] /\ edge["right"][l] = n
      BY <1>3, <1>5, Sides DEF l
    <3>2. n \in keys
      OBVIOUS
    <3> QED BY <3>1, <3>2, <2>2
  <2>7. r = NULL \/ (r \in keys /\ width(r) < width(n))
    <3>1. r # NULL => r \in keys /\ edge["right"][r] = edge["right"][n] /\ edge["left"][r] = n
      BY <1>3, <1>5, Sides DEF r
    <3>2. n \in keys
      OBVIOUS
    <3> QED BY <3>1, <3>2, <2>2
  <2>8. \A x \in keys : width(x) < width(n) => f[x] = bh[x]
    BY <2>3, <2>4
  <2>9. f[l] = bh[l] /\ f[r] = bh[r] /\ bh[l] \in Nat \ {0} /\ bh[r] \in Nat \ {0}
    BY <2>5, <2>6, <2>7, <2>8, <1>2, <1>3, <1>4 DEF l, r
  <2>10. f[n] = Count(f, n) /\ n # NULL
    BY <1>3, <1>10
  <2>11. /\ bh[n] = bh[l] + lack(n, "left") + (IF red[n] THEN 0 ELSE 1)
         /\ bh[n] = bh[r] + lack(n, "right") + (IF red[n] THEN 0 ELSE 1)
         /\ lack(n, "left") \in {0, 1} /\ lack(n, "right") \in {0, 1}
    BY <1>3, <1>4, <1>6 DEF l, r
  <2>12. f[n] = bh[n]
    BY <2>9, <2>10, <2>11 DEF l, r
  <2> QED BY <2>12
<1>12. root = NULL \/ root \in keys
  BY <1>1, TreeFields DEF Search, RootPart
<1> QED BY <1>3, <1>4, <1>9, <1>10, <1>11, <1>12

LEMMA KeyFacts ==
  ASSUME NEW t, NEW ks, NEW edge, Search(t, ks, edge)
  PROVE  /\ t \in Trees /\ ks \in SUBSET Node
         /\ \A x \in ks : x \in Node /\ x \in Int /\ x # NULL /\ x \in Pointer
<1>1. t \in Trees /\ ks \in SUBSET Node
  BY DEF Search, Typed
<1>2. \A x \in ks : x \in Node
  BY <1>1
<1> QED BY <1>1, <1>2, Numbers

LEMMA NotItsOwn ==
  ASSUME NEW t, NEW ks, NEW edge, Search(t, ks, edge), NEW n \in ks
  PROVE  n # NULL /\ t.parent[n] # n /\ \A d \in Side : t.child[d][n] # n
<1>1. n # NULL
  BY Fields, Numbers DEF Search
<1>2. ASSUME NEW d \in Side, t.child[d][n] = n PROVE FALSE
  <2>1. Other(d) \in Side /\ edge[Other(d)][n] = n
    BY <1>1, <1>2, Sides DEF Search, ChildPart
  <2>2. Beyond(Other(d), n, n)
    BY <2>1 DEF Search, EdgePart
  <2>3. n \in Int
    BY Fields, Numbers DEF Search
  <2> QED BY <2>1, <2>2, <2>3, Opposite
<1>3. t.parent[n] # n
  BY <1>1, <1>2 DEF Search, ParentPart, RootPart
<1> QED BY <1>1, <1>2, <1>3

LEMMA TypeInv == ASSUME IInv PROVE TypeOK
<1>1. PICK edge, bh, sd : Good(Tree, keys, pc, node, above, edge, bh, sd)
  BY DEF IInv
<1>2. Search(Tree, keys, edge) /\ Bare(Tree, keys) /\ Loop(Tree, keys, pc, node, above, sd)
  BY <1>1 DEF Good, Sound
<1>3. /\ Tree \in Trees /\ keys \in SUBSET Node
  BY <1>2 DEF Search, Typed
<1>4. /\ root \in Pointer /\ child \in [Side -> [Node -> Pointer]] /\ parent \in [Node -> Pointer]
      /\ red \in [Node -> BOOLEAN]
  BY <1>3 DEF Trees, Tree
<1>5. pc \in {"idle", "insert", "erase"} /\ node \in Pointer /\ above \in Pointer
  BY <1>2, <1>3, Numbers DEF Loop
<1>6. ASSUME NEW n \in Node PROVE parent[n] # n /\ \A d \in Side : child[d][n] # n
  <2>1. CASE n \in keys
    BY <1>2, <2>1, NotItsOwn, TreeFields
  <2>2. CASE n \notin keys
    BY <1>2, <2>2, TreeFields, Numbers DEF Bare
  <2> QED BY <2>1, <2>2
<1> QED BY <1>3, <1>4, <1>5, <1>6 DEF TypeOK

LEMMA Implied == ASSUME IInv PROVE WalkSeesKeys /\ OneDefect
<1>1. PICK edge, bh, sd : Good(Tree, keys, pc, node, above, edge, bh, sd)
  BY DEF IInv
<1>2. WalkSeesKeys
  BY <1>1, WalkInv DEF Good, Sound
<1>3. BlackHeight # 0
  <2>1. bh[root] \in Nat \ {0}
    BY <1>1, Fields, TreeFields DEF Good, Sound, Search, Balanced
  <2> QED BY <1>1, <2>1, HeightIs
<1>4. OneDefect
  BY <1>1, <1>3, TreeFields DEF Good, Sound, Colours, OneDefect
<1> QED BY <1>2, <1>4

-----------------------------------------------------------------------------
(* What the operators on trees do to each link *)

\* v is tree u, but for one parent, one colour, one child.
NewParent(v, u, n, p) ==
  /\ v \in Trees /\ v.root = u.root /\ v.child = u.child /\ v.red = u.red
  /\ \A x \in Node : v.parent[x] = IF x = n THEN p ELSE u.parent[x]
NewRed(v, u, n, r) ==
  /\ v \in Trees /\ v.root = u.root /\ v.child = u.child /\ v.parent = u.parent
  /\ \A x \in Node : v.red[x] = IF x = n THEN r ELSE u.red[x]
NewChild(v, u, d, p, m) ==
  /\ v \in Trees /\ v.root = u.root /\ v.parent = u.parent /\ v.red = u.red
  /\ \A x \in Node : \A e \in Side : v.child[e][x] = IF x = p /\ e = d THEN m ELSE u.child[e][x]

\* v is tree u, but what pointed to n from above in t points to m.
Replaced(v, u, t, ks, n, m) ==
  /\ v \in Trees /\ v.parent = u.parent /\ v.red = u.red
  /\ v.root = IF t.root = n THEN m ELSE t.root
  /\ \A x \in Node : \A e \in Side :
       v.child[e][x] = IF x \in ks /\ t.child[e][x] = n THEN m ELSE u.child[e][x]

LEMMA SetParentIs ==
  ASSUME NEW t \in Trees, NEW n \in Pointer, NEW p \in Pointer
  PROVE  NewParent(SetParent(t, n, p), t, n, p)
<1>1. CASE n = NULL
  BY <1>1, Numbers DEF SetParent, NewParent
<1>2. CASE n # NULL
  BY <1>2, Numbers DEF SetParent, NewParent, Trees
<1> QED BY <1>1, <1>2

LEMMA SetRedIs ==
  ASSUME NEW t \in Trees, NEW n \in Pointer, NEW r \in BOOLEAN
  PROVE  NewRed(SetRed(t, n, r), t, n, r)
<1>1. CASE n = NULL
  BY <1>1, Numbers DEF SetRed, NewRed
<1>2. CASE n # NULL
  BY <1>2, Numbers DEF SetRed, NewRed, Trees
<1> QED BY <1>1, <1>2

LEMMA SetChildIs ==
  ASSUME NEW t \in Trees, NEW d \in Side, NEW p \in Node, NEW m \in Pointer
  PROVE  NewChild([t EXCEPT !.child[d][p] = m], t, d, p, m)
<1>1. SUFFICES ASSUME NEW u, u = [t EXCEPT !.child[d][p] = m]
               PROVE  NewChild(u, t, d, p, m)
  OBVIOUS
<1>2. u \in Trees
  BY <1>1 DEF Trees
<1>3. u.root = t.root /\ u.parent = t.parent /\ u.red = t.red
  BY <1>1 DEF Trees
<1>4. \A x \in Node : \A e \in Side : u.child[e][x] = IF x = p /\ e = d THEN m ELSE t.child[e][x]
  BY <1>1 DEF Trees
<1> QED BY <1>2, <1>3, <1>4 DEF NewChild

\* What pointed to n from above points to m, and nothing else has changed.
LEMMA RedirectIs ==
  ASSUME NEW t, NEW ks, NEW edge, Search(t, ks, edge), NEW n \in ks, NEW m \in Pointer,
         NEW u \in Trees, u.root = t.root,
         t.parent[n] # NULL => \A d \in Side : u.child[d][t.parent[n]] = t.child[d][t.parent[n]]
  PROVE  Replaced(Redirect(u, t.parent[n], n, m), u, t, ks, n, m)
<1> DEFINE p == t.parent[n]
           v == Redirect(u, p, n, m)
<1>1. n # NULL /\ n \in Pointer /\ p \in Pointer
  BY Fields, Numbers DEF Search
<1>2. \A x \in ks : \A e \in Side : t.child[e][x] = n => x = p
  BY <1>1 DEF Search, ChildPart
<1>3. CASE p = NULL
  <2>1. t.root = n
    <3>1. NULL \notin ks
      BY KeyFacts
    <3> QED BY <1>3, <3>1 DEF Search, ParentPart
  <2>2. v = [u EXCEPT !.root = m] /\ \A x \in ks : \A e \in Side : t.child[e][x] # n
    BY <1>2, <1>3, Fields, Numbers DEF Redirect, Search
  <2> HIDE DEF v
  <2>3. /\ v \in Trees /\ v.parent = u.parent /\ v.red = u.red /\ v.root = m /\ v.child = u.child
    BY <2>2 DEF Trees
  <2> QED BY <2>1, <2>2, <2>3 DEF Replaced, v
<1>4. CASE p # NULL
  <2>1. n # t.root /\ p \in ks /\ p \in Node
    BY <1>1, <1>4, Fields DEF Search, RootPart, ParentPart
  <2>2. PICK c \in Side : t.child[c][p] = n
    BY <2>1 DEF Search, ParentPart
  <2>3. t.child[Other(c)][p] # n
    BY <2>1, <2>2, <1>1, ChildrenDiffer
  <2>4. u.child["left"][p] = t.child["left"][p]
    BY <1>4 DEF Side
  <2>5. SideOf(u, p, n) = c
    BY <2>2, <2>3, <2>4 DEF SideOf, Side, Other
  <2>6. v = [u EXCEPT !.child[c][p] = m]
    BY <1>4, <2>5 DEF Redirect
  <2> HIDE DEF v
  <2>7. NewChild(v, u, c, p, m)
    BY <2>1, <2>6, SetChildIs
  <2>8. ASSUME NEW x \in Node, NEW e \in Side
        PROVE  (x = p /\ e = c) <=> (x \in ks /\ t.child[e][x] = n)
    BY <1>2, <2>1, <2>2, <2>3, Sides
  <2> QED BY <2>1, <2>7, <2>8 DEF NewChild, Replaced, v
<1> QED BY <1>3, <1>4

-----------------------------------------------------------------------------
(* Rotation *)

\* A child of n has no child n.
LEMMA NoCycle ==
  ASSUME NEW t, NEW ks, NEW edge, Search(t, ks, edge), NEW n \in ks, NEW a \in Side,
         t.child[a][n] # NULL
  PROVE  /\ t.child[a][n] \in ks /\ t.parent[t.child[a][n]] = n /\ t.child[a][n] # t.root
         /\ t.child[a][n] # n /\ t.parent[n] # t.child[a][n]
         /\ \A b \in Side : t.child[b][t.child[a][n]] # n
<1> DEFINE m == t.child[a][n]
<1>2. /\ m \in ks /\ t.parent[m] = n /\ edge[a][m] = edge[a][n] /\ edge[Other(a)][m] = n
      /\ m # n
  BY NotItsOwn DEF Search, ChildPart
<1>1. n # NULL /\ n \in Int /\ m \in Int /\ Other(a) \in Side
  <2>1. n # NULL /\ n \in Int /\ m \in Int
    BY <1>2, KeyFacts
  <2> QED BY <2>1, Sides
<1>3. m # t.root
  BY <1>1, <1>2 DEF Search, RootPart
<1>4. ASSUME NEW b \in Side, t.child[b][m] = n PROVE FALSE
  <2>1. edge[b][n] = edge[b][m] /\ edge[Other(b)][n] = m /\ Other(b) \in Side
    BY <1>1, <1>2, <1>4, Sides DEF Search, ChildPart
  <2>2. CASE b = a
    <3>1. Beyond(Other(a), n, m) /\ Beyond(Other(a), m, n)
      BY <1>1, <1>2, <2>1, <2>2 DEF Search, EdgePart
    <3> QED BY <1>1, <3>1, Order
  <2>3. CASE b = Other(a)
    <3>1. edge[Other(a)][n] = n
      BY <1>2, <2>1, <2>3
    <3>2. Beyond(Other(a), n, n)
      BY <1>1, <3>1 DEF Search, EdgePart
    <3> QED BY <1>1, <3>2, Order
  <2> QED BY <2>2, <2>3, Sides
<1>5. t.parent[n] # m
  <2>1. CASE n = t.root
    BY <1>1, <1>2, <2>1, Fields, Numbers DEF Search, RootPart
  <2>2. CASE n # t.root
    BY <2>2, <1>4 DEF Search, ParentPart
  <2> QED BY <2>1, <2>2
<1> QED BY <1>2, <1>3, <1>4, <1>5

\* v is t with n rotated to side d: m comes up, its inner child c changes sides.
Rotated(v, t, ks, n, d, m, c) ==
  /\ v \in Trees /\ v.red = t.red
  /\ v.root = IF t.root = n THEN m ELSE t.root
  /\ \A x \in Node : v.parent[x] = IF x = n THEN m ELSE IF x = m THEN t.parent[n]
                                   ELSE IF x = c THEN n ELSE t.parent[x]
  /\ \A x \in Node : \A e \in Side :
       v.child[e][x] = IF x \in ks /\ t.child[e][x] = n THEN m
                       ELSE IF x = m /\ e = d THEN n
                       ELSE IF x = n /\ e = Other(d) THEN c ELSE t.child[e][x]

LEMMA RotateIs ==
  ASSUME NEW t, NEW ks, NEW edge, Search(t, ks, edge), NEW n \in ks, NEW d \in Side,
         t.child[Other(d)][n] # NULL
  PROVE  Rotated(Rotate(t, n, d), t, ks, n, d, t.child[Other(d)][n], t.child[d][t.child[Other(d)][n]])
<1> DEFINE m == t.child[Other(d)][n]
           c == t.child[d][m]
           p == t.parent[n]
           t1 == [t EXCEPT !.child[Other(d)][n] = c]
           t2 == [t1 EXCEPT !.child[d][m] = n]
           t3 == SetParent(t2, c, n)
           t4 == SetParent(t3, m, p)
           t5 == Redirect(t4, p, n, m)
<1>1. Other(d) \in Side /\ t \in Trees /\ n \in Node /\ n \in Pointer /\ p \in Pointer
  BY Fields, Sides, Numbers DEF Search, Typed
<1>2. m \in ks /\ m \in Node /\ m \in Pointer /\ c \in Pointer /\ m # n /\ p # m /\ p # n
      /\ \A b \in Side : t.child[b][m] # n
  <2>1. m \in ks /\ m # n /\ p # m /\ \A b \in Side : t.child[b][m] # n
    BY <1>1, NoCycle
  <2>2. m \in Node /\ m \in Pointer /\ c \in Pointer /\ p # n
    <3>1. m \in Node /\ m \in Pointer
      BY <2>1, KeyFacts
    <3>2. c \in Pointer
      BY <3>1, Fields DEF Search
    <3>3. p # n
      BY NotItsOwn
    <3> QED BY <3>1, <3>2, <3>3
  <2> QED BY <2>1, <2>2
<1>3. Rotate(t, n, d) = SetParent(t5, n, m)
  BY <1>1, <1>2 DEF Rotate, Trees
<1> HIDE DEF m, c, p
<1>4. NewChild(t1, t, Other(d), n, c)
  BY <1>1, <1>2, SetChildIs
<1>5. NewChild(t2, t1, d, m, n)
  <2> HIDE DEF t1
  <2> QED BY <1>1, <1>2, <1>4, SetChildIs DEF NewChild
<1> HIDE DEF t1, t2
<1>6. NewParent(t3, t2, c, n)
  BY <1>1, <1>2, <1>5, SetParentIs DEF NewChild
<1> HIDE DEF t3
<1>7. NewParent(t4, t3, m, p)
  BY <1>1, <1>2, <1>6, SetParentIs DEF NewParent
<1> HIDE DEF t4
<1>8. Replaced(t5, t4, t, ks, n, m)
  <2>1. t4 \in Trees /\ t4.root = t.root /\ t4.child = t2.child
    BY <1>4, <1>5, <1>6, <1>7 DEF NewParent, NewChild
  <2>2. p # NULL => \A e \in Side : t4.child[e][p] = t.child[e][p]
    <3>1. p # NULL => p \in Node
      BY <1>1, Numbers
    <3> QED BY <3>1, <2>1, <1>2, <1>4, <1>5 DEF NewChild
  <2> QED BY <2>1, <2>2, <1>2, RedirectIs DEF p
<1> HIDE DEF t5
<1>9. NewParent(SetParent(t5, n, m), t5, n, m)
  BY <1>1, <1>2, <1>8, SetParentIs DEF Replaced
<1> DEFINE v == SetParent(t5, n, m)
<1> HIDE DEF v
<1>10. /\ v \in Trees /\ v.red = t.red
       /\ v.root = IF t.root = n THEN m ELSE t.root
  BY <1>4, <1>5, <1>6, <1>7, <1>8, <1>9 DEF NewParent, NewChild, Replaced, v
<1>11. ASSUME NEW x \in Node
       PROVE  v.parent[x] = IF x = n THEN m ELSE IF x = m THEN p ELSE IF x = c THEN n ELSE t.parent[x]
  BY <1>4, <1>5, <1>6, <1>7, <1>8, <1>9 DEF NewParent, NewChild, Replaced, v
<1>12. ASSUME NEW x \in Node, NEW e \in Side
       PROVE  v.child[e][x] = IF x \in ks /\ t.child[e][x] = n THEN m
                              ELSE IF x = m /\ e = d THEN n
                              ELSE IF x = n /\ e = Other(d) THEN c ELSE t.child[e][x]
  BY <1>4, <1>5, <1>6, <1>7, <1>8, <1>9 DEF NewParent, NewChild, Replaced, v
<1> QED BY <1>3, <1>10, <1>11, <1>12 DEF Rotated, v, m, c, p

\* The edges after that rotation.
Turned(edge, n, d, m) ==
  [e \in Side |-> [x \in Node |-> IF e = d /\ x = m THEN edge[d][n]
                                  ELSE IF e = Other(d) /\ x = n THEN m ELSE edge[e][x]]]

\* A rotation keeps the order of the keys.
LEMMA RotateKeeps ==
  ASSUME NEW t, NEW ks, NEW edge, Search(t, ks, edge), NEW n \in ks, NEW d \in Side,
         NEW m, m = t.child[Other(d)][n], m # NULL, NEW c, c = t.child[d][m],
         NEW v, Rotated(v, t, ks, n, d, m, c)
  PROVE  Search(v, ks, Turned(edge, n, d, m))
<1> DEFINE new == Turned(edge, n, d, m)
           o == Other(d)
<1>1. /\ ks \in SUBSET Node /\ \A x \in ks : x \in Node /\ x \in Int /\ x # NULL
      /\ o \in Side /\ o # d /\ Other(o) = d /\ \A e \in Side : e = d \/ e = o
  <2>1. o \in Side /\ o # d /\ Other(o) = d /\ \A e \in Side : e = d \/ e = o
    BY Sides
  <2> QED BY <2>1, KeyFacts
<1>2. /\ m \in ks /\ t.parent[m] = n /\ m # t.root /\ m # n /\ t.parent[n] # m
      /\ \A b \in Side : t.child[b][m] # n
  BY <1>1, NoCycle
<1>3. /\ edge[o][m] = edge[o][n] /\ edge[d][m] = n
      /\ c # NULL => c \in ks /\ t.parent[c] = m /\ edge[d][c] = n /\ edge[o][c] = m /\ c # m /\ c # n
  <2>1. edge[o][m] = edge[o][n] /\ edge[d][m] = n
    BY <1>1 DEF Search, ChildPart
  <2>2. c # NULL => c \in ks /\ t.parent[c] = m /\ edge[d][c] = n /\ edge[o][c] = m /\ c # m
    <3>1. c # m
      BY <1>2, NotItsOwn
    <3> QED BY <1>2, <2>1, <3>1 DEF Search, ChildPart
  <2> QED BY <1>2, <2>1, <2>2
<1>4. \A x \in Node : /\ new[d][x] = IF x = m THEN edge[d][n] ELSE edge[d][x]
                      /\ new[o][x] = IF x = n THEN m ELSE edge[o][x]
  BY <1>1 DEF Turned
<1>5. \A x \in ks : v.parent[x] = IF x = n THEN m ELSE IF x = m THEN t.parent[n]
                                  ELSE IF x = c THEN n ELSE t.parent[x]
  BY <1>1 DEF Rotated
<1>6. \A x \in ks : \A e \in Side :
        v.child[e][x] = IF t.child[e][x] = n THEN m
                        ELSE IF x = m /\ e = d THEN n
                        ELSE IF x = n /\ e = o THEN c ELSE t.child[e][x]
  BY <1>1 DEF Rotated
<1>7. Typed(v, ks, new)
  <2>1. new \in [Side -> [Node -> Bound]]
    <3>1. edge \in [Side -> [Node -> Bound]] /\ m \in Bound
      BY <1>1, <1>2, Numbers DEF Search, Typed
    <3> QED BY <3>1, <1>1 DEF Turned
  <2> QED BY <1>1, <2>1 DEF Typed, Rotated
<1> HIDE DEF new, o
<1>8. RootPart(v, ks, new)
  <2>1. v.root = IF t.root = n THEN m ELSE t.root
    BY DEF Rotated
  <2>2. t.root # NULL /\ t.root \in ks /\ t.parent[t.root] = NULL /\ \A e \in Side : edge[e][t.root] = End(e)
    BY DEF Search, RootPart
  <2>3. CASE t.root = n
    <3>1. v.parent[m] = NULL
      BY <1>2, <1>5, <2>2, <2>3
    <3>2. new[d][m] = End(d) /\ new[o][m] = End(o)
      <4>1. m \in Node /\ new[d][m] = edge[d][n] /\ new[o][m] = edge[o][m]
        BY <1>1, <1>2, <1>4
      <4> QED BY <4>1, <1>1, <1>3, <2>2, <2>3
    <3> QED BY <2>1, <2>3, <3>1, <3>2, <1>1, <1>2 DEF RootPart
  <2>4. CASE t.root # n
    <3>1. t.root # m /\ t.root # c
      BY <1>1, <1>2, <1>3, <2>2
    <3>2. v.parent[t.root] = NULL
      BY <1>5, <2>2, <2>4, <3>1
    <3>3. new[d][t.root] = End(d) /\ new[o][t.root] = End(o)
      BY <1>1, <1>4, <2>2, <2>4, <3>1
    <3> QED BY <2>1, <2>2, <2>4, <3>2, <3>3, <1>1 DEF RootPart
  <2> QED BY <2>3, <2>4
<1>9. ParentPart(v, ks)
  <2>1. SUFFICES ASSUME NEW x \in ks, x # v.root
                 PROVE  v.parent[x] \in ks /\ \E e \in Side : v.child[e][v.parent[x]] = x
    BY DEF ParentPart
  <2>2. CASE x = n
    <3>1. v.parent[x] = m /\ v.child[d][m] = n
      BY <1>2, <1>5, <1>6, <2>2
    <3> QED BY <1>2, <2>2, <3>1
  <2>3. CASE x = m
    <3>1. n # t.root
      BY <2>1, <2>3 DEF Rotated
    <3>2. PICK e \in Side : t.parent[n] \in ks /\ t.child[e][t.parent[n]] = n
      BY <3>1 DEF Search, ParentPart
    <3>3. v.parent[x] = t.parent[n] /\ v.child[e][t.parent[n]] = m
      BY <1>2, <1>5, <1>6, <2>3, <3>2
    <3> QED BY <2>3, <3>2, <3>3
  <2>4. CASE x = c /\ x # n /\ x # m
    <3>1. v.parent[x] = n /\ v.child[o][n] = c
      BY <1>1, <1>2, <1>5, <1>6, <2>4 DEF o
    <3> QED BY <1>1, <2>4, <3>1
  <2>5. CASE x # n /\ x # m /\ x # c
    <3>1. x # t.root
      BY <2>1, <2>5 DEF Rotated
    <3>2. PICK e \in Side : t.parent[x] \in ks /\ t.child[e][t.parent[x]] = x
      BY <3>1 DEF Search, ParentPart
    <3>3. v.parent[x] = t.parent[x] /\ v.child[e][t.parent[x]] = x
      BY <1>1, <1>5, <1>6, <2>5, <3>2 DEF o
    <3> QED BY <3>2, <3>3
  <2> QED BY <2>2, <2>3, <2>4, <2>5
<1>10. EdgePart(ks, new)
  <2>1. \A x \in ks : \A e \in Side : Beyond(e, edge[e][x], x) /\ edge[e][x] \in ks \cup {End(e)}
    BY DEF Search, EdgePart
  <2>2. Beyond(d, n, m)
    BY <1>2, <1>3, <2>1
  <2>3. Beyond(d, edge[d][n], m)
    <3>1. n \in Int /\ m \in Int /\ edge[d][n] \in Int
      BY <1>1, <1>2, Fields DEF Search
    <3> QED BY <2>1, <2>2, <3>1, Order
  <2>4. Beyond(o, m, n)
    BY <1>1, <1>2, <2>2, Order DEF o
  <2>5. ASSUME NEW x \in ks
        PROVE  Beyond(d, new[d][x], x) /\ new[d][x] \in ks \cup {End(d)}
    BY <1>1, <1>4, <2>1, <2>3
  <2>6. ASSUME NEW x \in ks
        PROVE  Beyond(o, new[o][x], x) /\ new[o][x] \in ks \cup {End(o)}
    BY <1>1, <1>2, <1>4, <2>1, <2>4
  <2> QED BY <1>1, <2>5, <2>6 DEF EdgePart
<1>11. ChildPart(v, ks, new)
  <2>1. SUFFICES ASSUME NEW x \in ks, NEW e \in Side, NEW y, y = v.child[e][x], y # NULL
                 PROVE  y \in ks /\ v.parent[y] = x /\ new[e][y] = new[e][x] /\ new[Other(e)][y] = x
    BY DEF ChildPart
  <2>2. \A z \in ks : \A f \in Side : t.child[f][z] # NULL =>
          /\ t.child[f][z] \in ks /\ t.parent[t.child[f][z]] = z
          /\ edge[f][t.child[f][z]] = edge[f][z] /\ edge[Other(f)][t.child[f][z]] = z
    BY DEF Search, ChildPart
  <2>3. \A z \in ks : \A f \in Side : t.child[f][z] # z
    BY NotItsOwn
  <2>4. Other(d) = o /\ Other(o) = d
    BY <1>1 DEF o
  <2>9. /\ new[d][m] = edge[d][n] /\ new[o][m] = edge[o][m] /\ new[o][n] = m /\ new[d][n] = edge[d][n]
        /\ v.parent[m] = t.parent[n] /\ v.parent[n] = m
    BY <1>1, <1>2, <1>4, <1>5
  <2>10. new[d][x] = IF x = m THEN edge[d][n] ELSE edge[d][x]
    BY <1>1, <1>4
  <2>11. new[o][x] = IF x = n THEN m ELSE edge[o][x]
    BY <1>1, <1>4
  <2>5. CASE t.child[e][x] = n
    <3>1. y = m /\ t.parent[n] = x /\ x # n /\ x # m
      BY <1>1, <1>2, <1>6, <2>1, <2>2, <2>3, <2>5
    <3>2. edge[e][n] = edge[e][x] /\ edge[Other(e)][n] = x
      BY <1>1, <2>2, <2>5
    <3>3. CASE e = d
      BY <1>2, <1>3, <2>4, <2>9, <2>10, <3>1, <3>2, <3>3
    <3>4. CASE e = o
      BY <1>2, <1>3, <2>4, <2>9, <2>11, <3>1, <3>2, <3>4
    <3> QED BY <3>3, <3>4, <1>1
  <2>6. CASE t.child[e][x] # n /\ x = m /\ e = d
    <3>1. y = n
      BY <1>6, <2>1, <2>6
    <3> QED BY <2>4, <2>6, <2>9, <3>1
  <2>7. CASE t.child[e][x] # n /\ x = n /\ e = o
    <3>1. y = c /\ c \in Node
      BY <1>1, <1>2, <1>3, <1>6, <2>1, <2>7
    <3>2. v.parent[c] = n /\ new[d][c] = edge[d][c] /\ new[o][c] = edge[o][c]
      BY <1>3, <1>4, <1>5, <2>1, <3>1
    <3>3. c \in ks /\ edge[d][c] = n /\ edge[o][c] = m
      BY <1>3, <2>1, <3>1
    <3>4. x = n /\ e = o /\ Other(e) = d
      BY <2>4, <2>7
    <3> QED BY <2>9, <3>1, <3>2, <3>3, <3>4
  <2>8. CASE t.child[e][x] # n /\ ~(x = m /\ e = d) /\ ~(x = n /\ e = o)
    <3>1. y = t.child[e][x] /\ y # n
      BY <1>6, <2>1, <2>8
    <3>2. y \in ks /\ t.parent[y] = x /\ edge[e][y] = edge[e][x] /\ edge[Other(e)][y] = x
      BY <2>1, <2>2, <3>1
    <3>3. y # m
      BY <1>1, <1>2, <2>8, <3>1, <3>2, ChildrenDiffer DEF o
    <3>4. y # c
      <4>1. CASE c = NULL
        BY <4>1, <2>1
      <4>2. CASE c # NULL /\ y = c
        <5>1. x = m /\ e = o
          BY <1>1, <1>3, <2>8, <3>2, <4>2
        <5>2. t.child[d][m] # t.child[o][m]
          BY <1>2, <4>2, ChildrenDiffer DEF o
        <5> QED BY <5>1, <5>2, <3>1, <4>2
      <4> QED BY <4>1, <4>2
    <3>5. v.parent[y] = x
      BY <1>5, <3>1, <3>2, <3>3, <3>4
    <3>6. CASE e = d
      BY <1>1, <1>4, <2>4, <2>8, <3>1, <3>2, <3>3, <3>5, <3>6
    <3>7. CASE e = o
      BY <1>1, <1>4, <2>4, <2>8, <3>1, <3>2, <3>3, <3>5, <3>7
    <3> QED BY <1>1, <3>6, <3>7
  <2> QED BY <2>5, <2>6, <2>7, <2>8
<1>12. GapPart(v, ks, new)
  <2>1. SUFFICES ASSUME NEW x \in ks, NEW e \in Side, v.child[e][x] = NULL, NEW k \in ks
                 PROVE  ~Inside(k, new[e][x], x)
    BY DEF GapPart
  <2>2. \A z \in ks : \A f \in Side : t.child[f][z] = NULL => ~Inside(k, edge[f][z], z)
    BY DEF Search, GapPart
  <2>3. t.child[e][x] # n
    BY <1>1, <1>2, <1>6, <2>1
  <2>4. CASE x = n /\ e = o
    <3>1. c = NULL
      BY <1>1, <1>2, <1>6, <2>1, <2>3, <2>4
    <3>2. ~Inside(k, n, m)
      BY <1>1, <1>2, <1>3, <2>2, <3>1
    <3>3. new[e][x] = m
      BY <1>1, <1>4, <2>4
    <3> QED BY <2>4, <3>2, <3>3 DEF Inside
  <2>5. CASE ~(x = n /\ e = o)
    <3>1. ~(x = m /\ e = d) /\ t.child[e][x] = NULL
      BY <1>1, <1>6, <2>1, <2>3, <2>5
    <3>2. new[e][x] = edge[e][x]
      BY <1>1, <1>4, <2>5, <3>1
    <3> QED BY <2>2, <3>1, <3>2
  <2> QED BY <2>4, <2>5
<1> QED BY <1>7, <1>8, <1>9, <1>10, <1>11, <1>12 DEF Search, new

-----------------------------------------------------------------------------
(* Taking a node out *)

\* v is t with n's child c in n's place.
Spliced(v, t, ks, n, c) ==
  /\ v \in Trees /\ v.red = t.red
  /\ v.root = IF t.root = n THEN c ELSE t.root
  /\ \A x \in Node : v.parent[x] = IF x = c THEN t.parent[n] ELSE t.parent[x]
  /\ \A x \in Node : \A e \in Side :
       v.child[e][x] = IF x \in ks /\ t.child[e][x] = n THEN c ELSE t.child[e][x]

LEMMA SpliceIs ==
  ASSUME NEW t, NEW ks, NEW edge, Search(t, ks, edge), NEW n \in ks, NEW c \in Pointer
  PROVE  Spliced(SpliceOut(t, n, c), t, ks, n, c)
<1> DEFINE p == t.parent[n]
           u == SetParent(t, c, p)
           v == Redirect(u, p, n, c)
<1>1. t \in Trees /\ n \in Node /\ p \in Pointer
  BY KeyFacts, Fields DEF Search
<1>2. NewParent(u, t, c, p)
  <2> HIDE DEF p
  <2> QED BY <1>1, SetParentIs
<1> HIDE DEF u
<1>3. Replaced(v, u, t, ks, n, c)
  BY <1>2, RedirectIs DEF NewParent
<1>4. SpliceOut(t, n, c) = v
  BY DEF SpliceOut, u
<1> HIDE DEF v
<1> QED BY <1>2, <1>3, <1>4 DEF NewParent, Replaced, Spliced

Closed(edge, n) ==
  [e \in Side |-> [x \in Node |-> IF edge[e][x] = n THEN edge[e][n] ELSE edge[e][x]]]

LEMMA SpliceKeeps ==
  ASSUME NEW t, NEW ks, NEW edge, Search(t, ks, edge), NEW n \in ks, NEW a \in Side,
         t.child[a][n] = NULL, NEW c, c = t.child[Other(a)][n],
         NEW v, Spliced(v, t, ks, n, c)
  PROVE  Search(v, ks \ {n}, Closed(edge, n))
<1> DEFINE new == Closed(edge, n)
           o == Other(a)
<1>1. /\ ks \in SUBSET Node /\ \A x \in ks : x \in Node /\ x \in Int /\ x # NULL
      /\ o \in Side /\ o # a /\ Other(o) = a /\ \A e \in Side : e = a \/ e = o
  <2>1. o \in Side /\ o # a /\ Other(o) = a /\ \A e \in Side : e = a \/ e = o
    BY Sides
  <2> QED BY <2>1, KeyFacts
<1>2. \A x \in ks : \A e \in Side : Beyond(e, edge[e][x], x) /\ edge[e][x] \in ks \cup {End(e)} /\ edge[e][x] \in Int
  <2>1. \A x \in ks : \A e \in Side : edge[e][x] \in Int
    BY <1>1, Fields DEF Search
  <2> QED BY <2>1 DEF Search, EdgePart
<1>3. \A x \in ks : \A e \in Side : edge[e][x] # x
  BY <1>1, <1>2, Order
<1>4. \A z \in ks : \A f \in Side : t.child[f][z] # NULL =>
        /\ t.child[f][z] \in ks /\ t.parent[t.child[f][z]] = z
        /\ edge[f][t.child[f][z]] = edge[f][z] /\ edge[Other(f)][t.child[f][z]] = z
  BY DEF Search, ChildPart
<1>5. \A z \in ks : \A f \in Side : t.child[f][z] # z
  BY NotItsOwn
<1>6. \A x \in ks : edge[o][x] # n
  BY <1>1, EdgeHasChild
<1>7. /\ c # NULL => /\ c \in ks /\ c # n /\ t.parent[c] = n
                     /\ edge[o][c] = edge[o][n] /\ edge[a][c] = n
  BY <1>1, <1>4, <1>5
<1>8. \A x \in ks : \A e \in Side : new[e][x] = IF edge[e][x] = n THEN edge[e][n] ELSE edge[e][x]
  BY <1>1 DEF Closed
<1>9. c # NULL => \A e \in Side : new[e][c] = edge[e][n]
  BY <1>1, <1>3, <1>7, <1>8
<1>10. \A x \in ks : v.parent[x] = IF x = c THEN t.parent[n] ELSE t.parent[x]
  BY <1>1 DEF Spliced
<1>11. \A x \in ks : \A e \in Side : v.child[e][x] = IF t.child[e][x] = n THEN c ELSE t.child[e][x]
  BY <1>1 DEF Spliced
<1>12. \A e \in Side : End(e) # n
  BY <1>1, Numbers
<1>13. Typed(v, ks \ {n}, new)
  <2>1. edge \in [Side -> [Node -> Bound]]
    BY DEF Search, Typed
  <2>2. new \in [Side -> [Node -> Bound]]
    BY <1>1, <2>1 DEF Closed
  <2> QED BY <1>1, <2>2 DEF Typed, Spliced
<1> HIDE DEF new, o
<1>14. RootPart(v, ks \ {n}, new)
  <2>1. v.root = IF t.root = n THEN c ELSE t.root
    BY DEF Spliced
  <2>2. t.root # NULL /\ t.root \in ks /\ t.parent[t.root] = NULL /\ \A e \in Side : edge[e][t.root] = End(e)
    BY DEF Search, RootPart
  <2>3. CASE t.root # n
    <3>1. t.root # c
      BY <1>1, <1>7, <2>2
    <3> QED BY <1>8, <1>10, <1>12, <2>1, <2>2, <2>3, <3>1 DEF RootPart
  <2>4. CASE t.root = n /\ c # NULL
    BY <1>7, <1>9, <1>10, <2>1, <2>2, <2>4 DEF RootPart
  <2>5. CASE t.root = n /\ c = NULL
    <3>1. ASSUME NEW k \in ks, k # n PROVE FALSE
      <4>1. ~Inside(k, End(a), n) /\ ~Inside(k, End(o), n)
        BY <1>1, <2>2, <2>5 DEF Search, GapPart, o
      <4>2. Inside(k, End(a), n) \/ Inside(k, End(o), n)
        <5>1. k \in Int /\ n \in Int /\ End(a) \in Int /\ End(o) \in Int
              /\ Beyond(a, End(a), k) /\ Beyond(o, End(o), k)
          BY <1>1, Numbers
        <5>2. Beyond(a, k, n) \/ Beyond(o, k, n)
          BY <3>1, <5>1, <1>1, Order
        <5> QED BY <5>1, <5>2, <1>1, Order
      <4> QED BY <4>1, <4>2
    <3> QED BY <2>1, <2>5, <3>1 DEF RootPart
  <2> QED BY <2>3, <2>4, <2>5
<1>15. ParentPart(v, ks \ {n})
  <2>1. SUFFICES ASSUME NEW x \in ks, x # n, x # v.root
                 PROVE  v.parent[x] \in ks \ {n} /\ \E e \in Side : v.child[e][v.parent[x]] = x
    BY DEF ParentPart
  <2>2. CASE x = c
    <3>1. n # t.root
      BY <2>1, <2>2 DEF Spliced
    <3>2. PICK e \in Side : t.parent[n] \in ks /\ t.child[e][t.parent[n]] = n
      BY <3>1 DEF Search, ParentPart
    <3>3. v.parent[x] = t.parent[n] /\ v.child[e][t.parent[n]] = c /\ t.parent[n] # n
      BY <1>5, <1>10, <1>11, <2>2, <3>2
    <3> QED BY <2>2, <3>2, <3>3
  <2>3. CASE x # c
    <3>1. x # t.root
      BY <2>1 DEF Spliced
    <3>2. PICK e \in Side : t.parent[x] \in ks /\ t.child[e][t.parent[x]] = x
      BY <3>1 DEF Search, ParentPart
    <3>3. t.parent[x] # n
      BY <1>1, <2>1, <2>3, <3>2 DEF o
    <3>4. v.parent[x] = t.parent[x] /\ v.child[e][t.parent[x]] = x
      BY <1>10, <1>11, <2>1, <2>3, <3>2
    <3> QED BY <3>2, <3>3, <3>4
  <2> QED BY <2>2, <2>3
<1>16. EdgePart(ks \ {n}, new)
  <2>1. SUFFICES ASSUME NEW x \in ks, x # n, NEW e \in Side
                 PROVE  Beyond(e, new[e][x], x) /\ new[e][x] \in (ks \ {n}) \cup {End(e)}
    BY DEF EdgePart
  <2>2. CASE edge[e][x] = n
    <3>1. Beyond(e, edge[e][n], n) /\ Beyond(e, n, x) /\ edge[e][n] \in Int /\ n \in Int /\ x \in Int
      BY <1>1, <1>2, <2>2
    <3>2. Beyond(e, edge[e][n], x)
      BY <3>1, Order
    <3> QED BY <1>2, <1>3, <1>8, <2>2, <3>2
  <2>3. CASE edge[e][x] # n
    BY <1>2, <1>8, <2>3
  <2> QED BY <2>2, <2>3
<1>17. ChildPart(v, ks \ {n}, new)
  <2>1. SUFFICES ASSUME NEW x \in ks, x # n, NEW e \in Side, NEW y, y = v.child[e][x], y # NULL
                 PROVE  /\ y \in ks \ {n} /\ v.parent[y] = x
                        /\ new[e][y] = new[e][x] /\ new[Other(e)][y] = x
    BY DEF ChildPart
  <2>2. Other(e) \in Side
    BY Sides
  <2>3. CASE t.child[e][x] = n
    <3>1. y = c /\ c \in ks /\ c # n /\ t.parent[n] = x /\ edge[e][n] = edge[e][x] /\ edge[Other(e)][n] = x
      BY <1>1, <1>4, <1>7, <1>11, <2>1, <2>3
    <3>2. new[e][c] = edge[e][n] /\ new[Other(e)][c] = edge[Other(e)][n] /\ new[e][x] = edge[e][x]
      BY <1>3, <1>8, <1>9, <2>1, <2>2, <3>1
    <3> QED BY <1>10, <3>1, <3>2
  <2>4. CASE t.child[e][x] # n
    <3>1. y \in ks /\ y # n /\ t.parent[y] = x /\ edge[e][y] = edge[e][x] /\ edge[Other(e)][y] = x
      BY <1>4, <1>11, <2>1, <2>4
    <3>2. y # c
      BY <1>7, <2>1, <3>1
    <3>3. v.parent[y] = x
      BY <1>10, <3>1, <3>2
    <3>4. new[e][y] = new[e][x] /\ new[Other(e)][y] = x
      BY <1>8, <2>1, <2>2, <3>1
    <3> QED BY <3>1, <3>3, <3>4
  <2> QED BY <2>3, <2>4
<1>18. GapPart(v, ks \ {n}, new)
  <2>1. SUFFICES ASSUME NEW x \in ks, x # n, NEW e \in Side, v.child[e][x] = NULL, NEW k \in ks, k # n
                 PROVE  ~Inside(k, new[e][x], x)
    BY DEF GapPart
  <2>2. \A z \in ks : \A f \in Side : t.child[f][z] = NULL => ~Inside(k, edge[f][z], z)
    BY DEF Search, GapPart
  <2>3. CASE t.child[e][x] = n
    <3>1. c = NULL
      BY <1>11, <2>1, <2>3
    <3>2. edge[e][n] = edge[e][x] /\ edge[Other(e)][n] = x /\ Other(e) \in Side
      BY <1>1, <1>4, <2>3, Sides
    <3>3. ~Inside(k, edge[e][x], n) /\ ~Inside(k, x, n)
      BY <1>1, <2>2, <3>1, <3>2 DEF o
    <3>4. new[e][x] = edge[e][x]
      BY <1>3, <1>8, <3>2
    <3>5. k \in Int /\ n \in Int /\ x \in Int /\ edge[e][x] \in Int
      BY <1>1, <1>2
    <3> QED BY <2>1, <3>3, <3>4, <3>5 DEF Inside
  <2>4. CASE t.child[e][x] # n /\ edge[e][x] # n
    BY <1>8, <1>11, <2>1, <2>2, <2>4
  <2>5. CASE t.child[e][x] # n /\ edge[e][x] = n
    <3>1. e = a
      BY <1>1, <1>6, <2>5
    <3>2. ~Inside(k, n, x) /\ ~Inside(k, edge[a][n], n) /\ new[e][x] = edge[a][n]
      BY <1>8, <1>11, <2>1, <2>2, <2>5, <3>1
    <3>3. k \in Int /\ n \in Int /\ x \in Int /\ edge[a][n] \in Int
      BY <1>1, <1>2
    <3> QED BY <2>1, <3>2, <3>3 DEF Inside
  <2> QED BY <2>3, <2>4, <2>5
<1> QED BY <1>13, <1>14, <1>15, <1>16, <1>17, <1>18 DEF Search, new

-----------------------------------------------------------------------------
(* Putting one node in another's place *)

\* v is t with m in n's place; n still has its links.
Taken(v, t, ks, n, m) ==
  /\ v \in Trees
  /\ v.root = IF t.root = n THEN m ELSE t.root
  /\ \A x \in Node : v.red[x] = IF x = m THEN t.red[n] ELSE t.red[x]
  /\ \A x \in Node : v.parent[x] = IF x # NULL /\ \E e \in Side : x = t.child[e][n] THEN m
                                   ELSE IF x = m THEN t.parent[n] ELSE t.parent[x]
  /\ \A x \in Node : \A e \in Side :
       v.child[e][x] = IF x \in ks /\ t.child[e][x] = n THEN m
                       ELSE IF x = m THEN t.child[e][n] ELSE t.child[e][x]

LEMMA TakePlaceIs ==
  ASSUME NEW t, NEW ks, NEW edge, Search(t, ks, edge), NEW n \in ks, NEW m \in Node, m \notin ks
  PROVE  Taken(TakePlace(t, n, m), t, ks, n, m)
<1> DEFINE p == t.parent[n]
           l == t.child["left"][n]
           r == t.child["right"][n]
           own == [t EXCEPT !.parent[m] = t.parent[n], !.red[m] = t.red[n],
                            !.child["left"][m] = t.child["left"][n],
                            !.child["right"][m] = t.child["right"][n]]
           u == Redirect(own, p, n, m)
           w == SetParent(u, l, m)
           v == SetParent(w, r, m)
<1>1. /\ t \in Trees /\ n \in Node /\ p \in Pointer /\ l \in Pointer /\ r \in Pointer
      /\ m \in Pointer /\ t.red[n] \in BOOLEAN
  <2>1. t \in Trees /\ n \in Node /\ m \in Pointer
    BY KeyFacts, Numbers
  <2> QED BY <2>1, Fields DEF Search, Side
<1>2. /\ own \in Trees /\ own.root = t.root
      /\ \A x \in Node : own.red[x] = IF x = m THEN t.red[n] ELSE t.red[x]
      /\ \A x \in Node : own.parent[x] = IF x = m THEN p ELSE t.parent[x]
      /\ \A x \in Node : \A e \in Side : own.child[e][x] = IF x = m THEN t.child[e][n] ELSE t.child[e][x]
  <2>1. SUFFICES ASSUME NEW o, o = own
                 PROVE  /\ o \in Trees /\ o.root = t.root
                        /\ \A x \in Node : o.red[x] = IF x = m THEN t.red[n] ELSE t.red[x]
                        /\ \A x \in Node : o.parent[x] = IF x = m THEN p ELSE t.parent[x]
                        /\ \A x \in Node : \A e \in Side :
                             o.child[e][x] = IF x = m THEN t.child[e][n] ELSE t.child[e][x]
    OBVIOUS
  <2>2. o \in Trees
    BY <1>1, <2>1 DEF Trees, Side
  <2>3. o.root = t.root /\ \A x \in Node : /\ o.red[x] = IF x = m THEN t.red[n] ELSE t.red[x]
                                           /\ o.parent[x] = IF x = m THEN p ELSE t.parent[x]
    BY <1>1, <2>1 DEF Trees
  <2>4. \A x \in Node : \A e \in Side : o.child[e][x] = IF x = m THEN t.child[e][n] ELSE t.child[e][x]
    BY <1>1, <2>1 DEF Trees, Side
  <2> QED BY <2>2, <2>3, <2>4
<1>3. TakePlace(t, n, m) = v
  BY DEF TakePlace
<1> HIDE DEF own
<1>4. Replaced(u, own, t, ks, n, m)
  <2>1. p # NULL => \A d \in Side : own.child[d][p] = t.child[d][p]
    <3>1. p # NULL => p \in ks /\ p \in Node
      BY <1>1, KeyFacts, Numbers DEF Search, ParentPart, RootPart
    <3> QED BY <1>2, <3>1
  <2> QED BY <1>1, <1>2, <2>1, RedirectIs
<1> HIDE DEF u
<1>5. NewParent(w, u, l, m)
  <2> HIDE DEF l
  <2> QED BY <1>1, <1>4, SetParentIs DEF Replaced
<1> HIDE DEF w
<1>6. NewParent(v, w, r, m)
  <2> HIDE DEF r
  <2> QED BY <1>1, <1>5, SetParentIs DEF NewParent
<1> HIDE DEF v
<1>7. /\ v \in Trees
      /\ v.root = IF t.root = n THEN m ELSE t.root
      /\ \A x \in Node : v.red[x] = IF x = m THEN t.red[n] ELSE t.red[x]
  BY <1>2, <1>4, <1>5, <1>6 DEF NewParent, Replaced
<1>8. ASSUME NEW x \in Node
      PROVE  v.parent[x] = IF x # NULL /\ \E e \in Side : x = t.child[e][n] THEN m
                           ELSE IF x = m THEN t.parent[n] ELSE t.parent[x]
  <2>1. x # NULL /\ ((\E e \in Side : x = t.child[e][n]) <=> x = l \/ x = r)
    BY Numbers DEF Side
  <2> QED BY <2>1, <1>2, <1>4, <1>5, <1>6 DEF NewParent, Replaced
<1>9. ASSUME NEW x \in Node, NEW e \in Side
      PROVE  v.child[e][x] = IF x \in ks /\ t.child[e][x] = n THEN m
                             ELSE IF x = m THEN t.child[e][n] ELSE t.child[e][x]
  BY <1>2, <1>4, <1>5, <1>6 DEF NewParent, Replaced
<1> QED BY <1>3, <1>7, <1>8, <1>9 DEF Taken

Renamed(edge, n, m) ==
  [e \in Side |-> [x \in Node |-> IF x = m THEN edge[e][n]
                                  ELSE IF edge[e][x] = n THEN m ELSE edge[e][x]]]

LEMMA TakeKeeps ==
  ASSUME NEW t, NEW ks, NEW edge, Search(t, ks, edge), NEW n \in ks, NEW m \in Node, m \notin ks,
         \A k \in ks : k # n => (k < n <=> k < m),
         NEW v, Taken(v, t, ks, n, m)
  PROVE  Search(v, (ks \ {n}) \cup {m}, Renamed(edge, n, m))
<1> DEFINE new == Renamed(edge, n, m)
           all == (ks \ {n}) \cup {m}
<1>1. /\ ks \in SUBSET Node /\ \A x \in ks : x \in Node /\ x \in Int /\ x # NULL
      /\ all \in SUBSET Node /\ m \in Int /\ m # n /\ m # NULL
  <2>1. m \in Int /\ m # NULL
    BY Numbers
  <2> QED BY <2>1, KeyFacts
<1>2. \A x \in ks : \A e \in Side :
        /\ Beyond(e, edge[e][x], x) /\ edge[e][x] \in ks \cup {End(e)} /\ edge[e][x] \in Int
  <2>1. \A x \in ks : \A e \in Side : edge[e][x] \in Int
    BY <1>1, Fields DEF Search
  <2> QED BY <2>1 DEF Search, EdgePart
<1>3. \A x \in ks : \A e \in Side : edge[e][x] # x /\ edge[e][x] # m
  <2>1. \A e \in Side : End(e) # m
    BY Numbers
  <2> QED BY <1>1, <1>2, <2>1, Order
<1>4. \A z \in ks : \A f \in Side : t.child[f][z] # NULL =>
        /\ t.child[f][z] \in ks /\ t.parent[t.child[f][z]] = z
        /\ edge[f][t.child[f][z]] = edge[f][z] /\ edge[Other(f)][t.child[f][z]] = z
  BY DEF Search, ChildPart
<1>5. \A z \in ks : \A f \in Side : t.child[f][z] # z
  BY NotItsOwn
<1>6. \A x \in ks : \A e \in Side : new[e][x] = IF edge[e][x] = n THEN m ELSE edge[e][x]
  BY <1>1 DEF Renamed
<1>7. \A e \in Side : new[e][m] = edge[e][n]
  BY DEF Renamed
<1>8. /\ v.parent[m] = t.parent[n]
      /\ \A x \in ks : /\ (\E e \in Side : x = t.child[e][n]) => v.parent[x] = m
                       /\ t.parent[x] # n => v.parent[x] = t.parent[x]
  <2>1. \A e \in Side : t.child[e][n] # m
    BY <1>1, <1>4
  <2> QED BY <1>1, <1>4, <2>1 DEF Taken
<1>9. /\ \A e \in Side : v.child[e][m] = t.child[e][n]
      /\ \A x \in ks : \A e \in Side : v.child[e][x] = IF t.child[e][x] = n THEN m ELSE t.child[e][x]
  BY <1>1 DEF Taken
<1>10. Typed(v, all, new)
  <2>1. edge \in [Side -> [Node -> Bound]] /\ m \in Bound
    BY Numbers DEF Search, Typed
  <2>2. new \in [Side -> [Node -> Bound]]
    BY <1>1, <2>1 DEF Renamed
  <2> QED BY <1>1, <2>2 DEF Typed, Taken
\* n and m stand in the same order to every other key, and to the ends.
<1>11. \A e \in Side : \A b \in (ks \cup {End("left"), End("right")}) \ {n} :
         (Beyond(e, b, n) <=> Beyond(e, b, m)) /\ (Beyond(e, n, b) <=> Beyond(e, m, b))
  <2>1. SUFFICES ASSUME NEW e \in Side, NEW b \in (ks \cup {End("left"), End("right")}) \ {n}
                 PROVE  (Beyond(e, b, n) <=> Beyond(e, b, m)) /\ (Beyond(e, n, b) <=> Beyond(e, m, b))
    OBVIOUS
  <2>2. b \in Int /\ n \in Int /\ b # n /\ b # m
    BY <1>1, <2>1, Numbers DEF Side
  <2>3. b < n <=> b < m
    <3>1. CASE b \in ks
      BY <2>1, <3>1
    <3>2. CASE b \notin ks
      BY <2>1, <3>2, <1>1, MaxKeyAssumption DEF End, Node
    <3> QED BY <3>1, <3>2
  <2> QED BY <1>1, <2>2, <2>3 DEF Beyond
<1> HIDE DEF new
<1>12. RootPart(v, all, new)
  <2>1. v.root = IF t.root = n THEN m ELSE t.root
    BY DEF Taken
  <2>2. t.root # NULL /\ t.root \in ks /\ t.parent[t.root] = NULL /\ \A e \in Side : edge[e][t.root] = End(e)
    BY DEF Search, RootPart
  <2>3. \A e \in Side : End(e) # n
    BY <1>1, Numbers
  <2>4. CASE t.root = n
    BY <1>1, <1>7, <1>8, <2>1, <2>2, <2>4 DEF RootPart
  <2>5. CASE t.root # n
    <3>1. v.parent[t.root] = NULL
      BY <1>1, <1>8, <2>2
    <3>2. \A e \in Side : new[e][t.root] = End(e)
      BY <1>6, <2>2, <2>3
    <3> QED BY <2>1, <2>2, <2>5, <3>1, <3>2 DEF RootPart
  <2> QED BY <2>4, <2>5
<1>13. ParentPart(v, all)
  <2>1. SUFFICES ASSUME NEW x \in all, x # v.root
                 PROVE  v.parent[x] \in all /\ \E e \in Side : v.child[e][v.parent[x]] = x
    BY DEF ParentPart
  <2>2. CASE x = m
    <3>1. n # t.root
      BY <2>1, <2>2 DEF Taken
    <3>2. PICK e \in Side : t.parent[n] \in ks /\ t.child[e][t.parent[n]] = n
      BY <3>1 DEF Search, ParentPart
    <3>3. t.parent[n] # n
      BY <1>5, <3>2
    <3>4. v.child[e][t.parent[n]] = m
      BY <1>9, <3>2
    <3> QED BY <1>8, <2>2, <3>2, <3>3, <3>4
  <2>3. CASE x \in ks /\ x # n
    <3>1. x # t.root
      BY <2>1, <2>3 DEF Taken
    <3>2. PICK e \in Side : t.parent[x] \in ks /\ t.child[e][t.parent[x]] = x
      BY <2>3, <3>1 DEF Search, ParentPart
    <3>3. CASE t.parent[x] = n
      BY <1>8, <1>9, <2>3, <3>2, <3>3
    <3>4. CASE t.parent[x] # n
      BY <1>8, <1>9, <2>3, <3>2, <3>4
    <3> QED BY <3>3, <3>4
  <2> QED BY <2>2, <2>3
<1>14. EdgePart(all, new)
  <2>1. SUFFICES ASSUME NEW x \in all, NEW e \in Side
                 PROVE  Beyond(e, new[e][x], x) /\ new[e][x] \in all \cup {End(e)}
    BY DEF EdgePart
  <2>2. End(e) \in {End("left"), End("right")}
    BY DEF Side
  <2>3. CASE x = m
    <3>1. new[e][x] = edge[e][n] /\ edge[e][n] # n /\ edge[e][n] \in ks \cup {End(e)} /\ Beyond(e, edge[e][n], n)
      BY <1>2, <1>3, <1>7, <2>3
    <3> QED BY <1>11, <2>2, <2>3, <3>1
  <2>4. CASE x \in ks /\ x # n /\ edge[e][x] = n
    <3>1. Beyond(e, n, x)
      BY <1>2, <2>4
    <3> QED BY <1>6, <1>11, <2>4, <3>1
  <2>5. CASE x \in ks /\ x # n /\ edge[e][x] # n
    BY <1>2, <1>6, <2>5
  <2> QED BY <2>3, <2>4, <2>5
<1>15. ChildPart(v, all, new)
  <2>1. SUFFICES ASSUME NEW x \in all, NEW e \in Side, NEW y, y = v.child[e][x], y # NULL
                 PROVE  y \in all /\ v.parent[y] = x /\ new[e][y] = new[e][x] /\ new[Other(e)][y] = x
    BY DEF ChildPart
  <2>2. Other(e) \in Side
    BY Sides
  <2>3. CASE x = m
    <3>1. y = t.child[e][n] /\ y \in ks /\ y # n /\ edge[e][y] = edge[e][n] /\ edge[Other(e)][y] = n
      BY <1>4, <1>5, <1>9, <2>1, <2>3
    <3>2. v.parent[y] = m
      BY <1>8, <3>1
    <3>3. new[e][y] = edge[e][n] /\ new[Other(e)][y] = m
      BY <1>3, <1>6, <2>2, <3>1
    <3> QED BY <1>7, <2>3, <3>1, <3>2, <3>3
  <2>4. CASE x \in ks /\ x # n /\ t.child[e][x] = n
    <3>1. y = m /\ t.parent[n] = x /\ edge[e][n] = edge[e][x] /\ edge[Other(e)][n] = x
      BY <1>1, <1>4, <1>9, <2>1, <2>4
    <3>2. edge[e][x] # n
      BY <1>3, <3>1
    <3> QED BY <1>6, <1>7, <1>8, <2>2, <2>4, <3>1, <3>2
  <2>5. CASE x \in ks /\ x # n /\ t.child[e][x] # n
    <3>1. y \in ks /\ y # n /\ t.parent[y] = x /\ edge[e][y] = edge[e][x] /\ edge[Other(e)][y] = x
      BY <1>4, <1>9, <2>1, <2>5
    <3>2. v.parent[y] = x
      BY <1>8, <2>5, <3>1
    <3>3. new[e][y] = new[e][x] /\ new[Other(e)][y] = x
      BY <1>6, <2>2, <2>5, <3>1
    <3> QED BY <3>1, <3>2, <3>3
  <2> QED BY <2>3, <2>4, <2>5
<1>16. GapPart(v, all, new)
  <2>1. SUFFICES ASSUME NEW x \in all, NEW e \in Side, v.child[e][x] = NULL, NEW k \in all
                 PROVE  ~Inside(k, new[e][x], x)
    BY DEF GapPart
  <2>2. \A z \in ks : \A f \in Side : t.child[f][z] = NULL => \A j \in ks : ~Inside(j, edge[f][z], z)
    BY DEF Search, GapPart
  <2>3. End(e) \in {End("left"), End("right")}
    BY DEF Side
  <2>4. \A a, b, c \in Int : Inside(a, b, c) <=> \/ Beyond(e, b, a) /\ Beyond(e, a, c)
                                                 \/ Beyond(e, c, a) /\ Beyond(e, a, b)
    BY Order
  <2>5. CASE x = m
    <3> DEFINE b == edge[e][n]
    <3>1. new[e][x] = b /\ b # n /\ b \in ks \cup {End(e)} /\ b \in Int /\ \A j \in ks : ~Inside(j, b, n)
      BY <1>2, <1>3, <1>7, <1>9, <2>1, <2>2, <2>5
    <3> HIDE DEF b
    <3>2. CASE k = m
      BY <1>1, <2>4, <2>5, <3>1, <3>2, Order
    <3>3. CASE k \in ks /\ k # n
      BY <1>1, <1>11, <2>4, <2>5, <3>1, <3>3
    <3> QED BY <3>2, <3>3
  <2>6. CASE x \in ks /\ x # n
    <3> DEFINE b == edge[e][x]
    <3>1. /\ b \in ks \cup {End(e)} /\ b \in Int /\ \A j \in ks : ~Inside(j, b, x)
          /\ new[e][x] = IF b = n THEN m ELSE b
      BY <1>1, <1>2, <1>6, <1>9, <2>1, <2>2, <2>6
    <3> HIDE DEF b
    <3>2. CASE b # n /\ k = m
      BY <1>1, <1>11, <2>3, <2>4, <2>6, <3>1, <3>2
    <3>3. CASE b # n /\ k \in ks /\ k # n
      BY <2>6, <3>1, <3>3
    <3>4. CASE b = n /\ k = m
      BY <1>1, <2>4, <2>6, <3>1, <3>4, Order
    <3>5. CASE b = n /\ k \in ks /\ k # n
      <4>1. (Beyond(e, k, n) <=> Beyond(e, k, m)) /\ (Beyond(e, n, k) <=> Beyond(e, m, k))
        BY <1>11, <3>5
      <4>2. Inside(k, n, x) <=> Inside(k, m, x)
        BY <1>1, <2>4, <2>6, <3>5, <4>1
      <4> QED BY <3>1, <3>5, <4>2
    <3> QED BY <3>2, <3>3, <3>4, <3>5
  <2> QED BY <2>5, <2>6
<1> QED BY <1>10, <1>12, <1>13, <1>14, <1>15, <1>16 DEF Search, new

-----------------------------------------------------------------------------
(* Adding a leaf *)

\* v is t with k as a red leaf, on side d of p.
Linked(v, t, k, p, d) ==
  /\ v \in Trees
  /\ v.root = IF p = NULL THEN k ELSE t.root
  /\ \A x \in Node : /\ v.red[x] = IF x = k THEN TRUE ELSE t.red[x]
                     /\ v.parent[x] = IF x = k THEN p ELSE t.parent[x]
  /\ \A x \in Node : \A e \in Side :
       v.child[e][x] = IF x = p /\ e = d THEN k ELSE IF x = k THEN NULL ELSE t.child[e][x]

LEMMA LinkNodeIs ==
  ASSUME NEW t \in Trees, NEW k \in Node, NEW p \in Pointer, NEW d \in Side
  PROVE  Linked(LinkNode(t, k, p, d), t, k, p, d)
<1> DEFINE fresh == [t EXCEPT !.parent[k] = p, !.red[k] = TRUE,
                              !.child["left"][k] = NULL, !.child["right"][k] = NULL]
<1>1. /\ fresh \in Trees /\ fresh.root = t.root
      /\ \A x \in Node : /\ fresh.red[x] = IF x = k THEN TRUE ELSE t.red[x]
                         /\ fresh.parent[x] = IF x = k THEN p ELSE t.parent[x]
      /\ \A x \in Node : \A e \in Side : fresh.child[e][x] = IF x = k THEN NULL ELSE t.child[e][x]
  <2>1. SUFFICES ASSUME NEW o, o = fresh
                 PROVE  /\ o \in Trees /\ o.root = t.root
                        /\ \A x \in Node : /\ o.red[x] = IF x = k THEN TRUE ELSE t.red[x]
                                           /\ o.parent[x] = IF x = k THEN p ELSE t.parent[x]
                        /\ \A x \in Node : \A e \in Side : o.child[e][x] = IF x = k THEN NULL ELSE t.child[e][x]
    OBVIOUS
  <2>2. o \in Trees
    BY <2>1, Numbers DEF Trees, Side
  <2>3. o.root = t.root /\ \A x \in Node : /\ o.red[x] = IF x = k THEN TRUE ELSE t.red[x]
                                           /\ o.parent[x] = IF x = k THEN p ELSE t.parent[x]
    BY <2>1 DEF Trees
  <2>4. \A x \in Node : \A e \in Side : o.child[e][x] = IF x = k THEN NULL ELSE t.child[e][x]
    BY <2>1 DEF Trees, Side
  <2> QED BY <2>2, <2>3, <2>4
<1>2. LinkNode(t, k, p, d) = IF p = NULL THEN [fresh EXCEPT !.root = k] ELSE [fresh EXCEPT !.child[d][p] = k]
  BY DEF LinkNode
<1> HIDE DEF fresh
<1>3. CASE p = NULL
  <2> DEFINE v == [fresh EXCEPT !.root = k]
  <2>1. v \in Trees /\ v.root = k /\ v.child = fresh.child /\ v.parent = fresh.parent /\ v.red = fresh.red
    <3>1. SUFFICES ASSUME NEW o, o = v
                   PROVE  o \in Trees /\ o.root = k /\ o.child = fresh.child /\ o.parent = fresh.parent /\ o.red = fresh.red
      OBVIOUS
    <3> QED BY <1>1, <3>1, Numbers DEF Trees
  <2> HIDE DEF v
  <2>2. \A x \in Node : x # p
    BY <1>3, Numbers
  <2>3. v.root = IF p = NULL THEN k ELSE t.root
    BY <1>3, <2>1
  <2>4. \A x \in Node : \A e \in Side :
          v.child[e][x] = IF x = p /\ e = d THEN k ELSE IF x = k THEN NULL ELSE t.child[e][x]
    BY <1>1, <2>1, <2>2
  <2>5. \A x \in Node : /\ v.red[x] = IF x = k THEN TRUE ELSE t.red[x]
                        /\ v.parent[x] = IF x = k THEN p ELSE t.parent[x]
    BY <1>1, <2>1
  <2>6. Linked(v, t, k, p, d)
    BY <2>1, <2>3, <2>4, <2>5 DEF Linked
  <2> QED BY <1>2, <1>3, <2>6 DEF v
<1>4. CASE p # NULL
  <2> DEFINE v == [fresh EXCEPT !.child[d][p] = k]
  <2>1. NewChild(v, fresh, d, p, k)
    BY <1>1, <1>4, SetChildIs, Numbers
  <2> HIDE DEF v
  <2>2. v.root = IF p = NULL THEN k ELSE t.root
    BY <1>1, <1>4, <2>1 DEF NewChild
  <2>3. \A x \in Node : \A e \in Side :
          v.child[e][x] = IF x = p /\ e = d THEN k ELSE IF x = k THEN NULL ELSE t.child[e][x]
    BY <1>1, <2>1 DEF NewChild
  <2>4. \A x \in Node : /\ v.red[x] = IF x = k THEN TRUE ELSE t.red[x]
                        /\ v.parent[x] = IF x = k THEN p ELSE t.parent[x]
    BY <1>1, <2>1 DEF NewChild
  <2>5. Linked(v, t, k, p, d)
    BY <2>1, <2>2, <2>3, <2>4 DEF NewChild, Linked
  <2> QED BY <1>2, <1>4, <2>5 DEF v
<1> QED BY <1>3, <1>4

Widened(edge, k, p, d) ==
  [e \in Side |-> [x \in Node |-> IF x # k THEN edge[e][x] ELSE IF e = d THEN edge[d][p] ELSE p]]

LEMMA LinkKeeps ==
  ASSUME NEW t, NEW ks, NEW edge, Search(t, ks, edge), NEW k \in Node, k \notin ks,
         NEW p \in ks, NEW d \in Side, t.child[d][p] = NULL, Inside(k, edge[d][p], p),
         NEW v, Linked(v, t, k, p, d)
  PROVE  Search(v, ks \cup {k}, Widened(edge, k, p, d))
<1> DEFINE new == Widened(edge, k, p, d)
           all == ks \cup {k}
           o == Other(d)
<1>1. /\ ks \in SUBSET Node /\ \A x \in ks : x \in Node /\ x \in Int /\ x # NULL
      /\ all \in SUBSET Node /\ k \in Int /\ k # p /\ k # NULL
      /\ o \in Side /\ o # d /\ Other(o) = d /\ \A e \in Side : e = d \/ e = o
  <2>1. o \in Side /\ o # d /\ Other(o) = d /\ \A e \in Side : e = d \/ e = o
    BY Sides
  <2>2. k \in Int /\ k # NULL
    BY Numbers
  <2> QED BY <2>1, <2>2, KeyFacts
<1>2. \A x \in ks : \A e \in Side :
        /\ Beyond(e, edge[e][x], x) /\ edge[e][x] \in ks \cup {End(e)} /\ edge[e][x] \in Int
  <2>1. \A x \in ks : \A e \in Side : edge[e][x] \in Int
    BY <1>1, Fields DEF Search
  <2> QED BY <2>1 DEF Search, EdgePart
<1>3. \A z \in ks : \A f \in Side : t.child[f][z] # NULL =>
        /\ t.child[f][z] \in ks /\ t.parent[t.child[f][z]] = z
        /\ edge[f][t.child[f][z]] = edge[f][z] /\ edge[Other(f)][t.child[f][z]] = z
  BY DEF Search, ChildPart
<1>4. \A x \in ks : \A e \in Side : new[e][x] = edge[e][x]
  BY <1>1 DEF Widened
<1>5. new[d][k] = edge[d][p] /\ new[o][k] = p
  BY <1>1 DEF Widened
<1>6. v.parent[k] = p /\ \A x \in ks : v.parent[x] = t.parent[x]
  BY <1>1 DEF Linked
<1>7. \A x \in ks : \A e \in Side : v.child[e][x] = IF x = p /\ e = d THEN k ELSE t.child[e][x]
  BY <1>1 DEF Linked
<1>8. \A e \in Side : v.child[e][k] = NULL
  BY <1>1 DEF Linked
<1>9. v.root = t.root
  BY <1>1 DEF Linked
<1>10. Beyond(d, edge[d][p], k) /\ Beyond(d, k, p) /\ Beyond(o, p, k)
  <2>1. Beyond(d, edge[d][p], p) /\ edge[d][p] \in Int /\ p \in Int
    BY <1>1, <1>2
  <2>2. Beyond(d, edge[d][p], k) /\ Beyond(d, k, p)
    BY <1>1, <2>1, Order
  <2> QED BY <1>1, <2>2, Order
<1>11. \A j \in ks : ~Inside(j, edge[d][p], p)
  BY DEF Search, GapPart
<1>12. Typed(v, all, new)
  <2>1. edge \in [Side -> [Node -> Bound]] /\ p \in Bound /\ p \in Node
    BY <1>1, Numbers DEF Search, Typed
  <2>2. new \in [Side -> [Node -> Bound]]
    BY <2>1 DEF Widened
  <2> QED BY <1>1, <2>2 DEF Typed, Linked
<1> HIDE DEF new, o
<1>13. RootPart(v, all, new)
  <2>1. t.root # NULL /\ t.root \in ks /\ t.parent[t.root] = NULL /\ \A e \in Side : edge[e][t.root] = End(e)
    BY DEF Search, RootPart
  <2> QED BY <1>4, <1>6, <1>9, <2>1 DEF RootPart
<1>14. ParentPart(v, all)
  <2>1. SUFFICES ASSUME NEW x \in all, x # v.root
                 PROVE  v.parent[x] \in all /\ \E e \in Side : v.child[e][v.parent[x]] = x
    BY DEF ParentPart
  <2>2. CASE x = k
    BY <1>6, <1>7, <2>2
  <2>3. CASE x \in ks
    <3>1. PICK e \in Side : t.parent[x] \in ks /\ t.child[e][t.parent[x]] = x
      BY <1>9, <2>1, <2>3 DEF Search, ParentPart
    <3>2. v.child[e][t.parent[x]] = x
      BY <1>1, <1>7, <2>3, <3>1
    <3> QED BY <1>6, <2>3, <3>1, <3>2
  <2> QED BY <2>2, <2>3
<1>15. EdgePart(all, new)
  <2>1. ASSUME NEW x \in ks, NEW e \in Side
        PROVE  Beyond(e, new[e][x], x) /\ new[e][x] \in all \cup {End(e)}
    BY <1>2, <1>4
  <2>2. Beyond(d, new[d][k], k) /\ new[d][k] \in all \cup {End(d)}
    BY <1>2, <1>5, <1>10
  <2>3. Beyond(o, new[o][k], k) /\ new[o][k] \in all \cup {End(o)}
    BY <1>5, <1>10
  <2> QED BY <1>1, <2>1, <2>2, <2>3 DEF EdgePart
<1>16. ChildPart(v, all, new)
  <2>1. SUFFICES ASSUME NEW x \in all, NEW e \in Side, NEW y, y = v.child[e][x], y # NULL
                 PROVE  y \in all /\ v.parent[y] = x /\ new[e][y] = new[e][x] /\ new[Other(e)][y] = x
    BY DEF ChildPart
  <2>2. x \in ks
    BY <1>8, <2>1
  <2>3. CASE x = p /\ e = d
    <3>1. y = k /\ Other(e) = o
      BY <1>7, <2>1, <2>3 DEF o
    <3> QED BY <1>4, <1>5, <1>6, <2>3, <3>1
  <2>4. CASE ~(x = p /\ e = d)
    <3>1. y = t.child[e][x] /\ Other(e) \in Side
      BY <1>7, <2>1, <2>2, <2>4, Sides
    <3>2. y \in ks /\ t.parent[y] = x /\ edge[e][y] = edge[e][x] /\ edge[Other(e)][y] = x
      BY <1>3, <2>1, <2>2, <3>1
    <3> QED BY <1>4, <1>6, <2>2, <3>1, <3>2
  <2> QED BY <2>3, <2>4
<1>17. ASSUME NEW x \in ks, NEW e \in Side, ~(x = p /\ e = d), t.child[e][x] = NULL
       PROVE  ~Inside(k, edge[e][x], x)
  <2>1. SUFFICES ASSUME Inside(k, edge[e][x], x) PROVE FALSE
    OBVIOUS
  <2>2. \A j \in ks : ~Inside(j, edge[e][x], x)
    BY <1>17 DEF Search, GapPart
  <2>3. Beyond(e, edge[e][x], k) /\ Beyond(e, k, x)
    <3>1. x \in Int /\ edge[e][x] \in Int /\ Beyond(e, edge[e][x], x)
      BY <1>1, <1>2
    <3> QED BY <1>1, <2>1, <3>1, Order
  <2> DEFINE q == edge[e][x]
             r == edge[d][p]
  <2>4. q \in Int /\ r \in Int /\ x \in Int /\ p \in Int /\ k \in Int
    BY <1>1, <1>2
  <2>5. CASE e = d
    <3>1. x # p
      BY <1>17, <2>5
    <3>2. CASE Beyond(d, x, p)
      <4>1. Beyond(d, r, x)
        BY <1>10, <2>3, <2>4, <2>5, Order
      <4>2. Inside(x, r, p)
        BY <2>4, <3>2, <4>1, Order
      <4> QED BY <1>11, <4>2
    <3>3. CASE Beyond(d, p, x)
      <4>1. Beyond(d, q, p)
        BY <1>10, <2>3, <2>4, <2>5, Order
      <4>2. Inside(p, q, x)
        BY <2>4, <2>5, <3>3, <4>1, Order
      <4> QED BY <2>2, <4>2
    <3> QED BY <2>4, <3>1, <3>2, <3>3, Order
  <2>6. CASE e = o
    <3>1. Beyond(d, k, q) /\ Beyond(d, x, k)
      BY <2>3, <2>4, <2>6, Order DEF o
    <3>2. CASE q = p
      <4>1. t.child[Other(o)][p] # NULL
        BY <1>1, <2>6, <3>2, EdgeHasChild
      <4> QED BY <1>1, <4>1
    <3>3. CASE Beyond(d, p, q)
      <4>1. Beyond(d, x, p)
        BY <1>10, <2>4, <3>1, Order
      <4>2. Inside(p, q, x)
        BY <2>4, <3>3, <4>1, Order
      <4> QED BY <2>2, <4>2
    <3>4. CASE Beyond(d, q, p)
      <4>1. Beyond(d, r, q)
        BY <1>10, <2>4, <3>1, Order
      <4>2. Inside(q, r, p)
        BY <2>4, <3>4, <4>1, Order
      <4>3. q \notin ks
        BY <1>11, <4>2
      <4>4. Beyond(o, q, p)
        BY <1>1, <1>2, <2>6, <4>3, Numbers
      <4> QED BY <2>4, <3>4, <4>4, Opposite DEF o
    <3> QED BY <2>4, <3>2, <3>3, <3>4, Order
  <2> QED BY <1>1, <2>5, <2>6
<1>18. GapPart(v, all, new)
  <2>1. SUFFICES ASSUME NEW x \in all, NEW e \in Side, v.child[e][x] = NULL, NEW j \in all
                 PROVE  ~Inside(j, new[e][x], x)
    BY DEF GapPart
  <2>2. CASE x = k
    <3>1. CASE j = k
      BY <1>1, <2>2, <3>1, Numbers DEF Inside
    <3>2. CASE j \in ks
      <4>1. ~Inside(j, edge[d][p], p) /\ j \in Int /\ edge[d][p] \in Int /\ p \in Int
        BY <1>1, <1>2, <1>11, <3>2
      <4>2. new[e][x] = edge[d][p] \/ new[e][x] = p
        BY <1>1, <1>5, <2>2
      <4>3. ~Inside(j, edge[d][p], k) /\ ~Inside(j, p, k)
        <5>1. Inside(k, edge[d][p], p)
          OBVIOUS
        <5> QED BY <1>1, <4>1, <5>1 DEF Inside
      <4> QED BY <2>2, <4>2, <4>3
    <3> QED BY <3>1, <3>2
  <2>3. CASE x \in ks
    <3>1. ~(x = p /\ e = d) /\ t.child[e][x] = NULL
      BY <1>1, <1>7, <2>1, <2>3
    <3>2. CASE j = k
      BY <1>4, <1>17, <2>3, <3>1, <3>2
    <3>3. CASE j \in ks
      BY <1>4, <2>3, <3>1, <3>3 DEF Search, GapPart
    <3> QED BY <3>2, <3>3
  <2> QED BY <2>2, <2>3
<1> QED BY <1>12, <1>13, <1>14, <1>15, <1>16, <1>18 DEF Search, new

\* The first node.
LEMMA FirstKeeps ==
  ASSUME NEW t, NEW edge, Search(t, {}, edge), NEW k \in Node, NEW v, NEW d \in Side,
         Linked(v, t, k, NULL, d)
  PROVE  Search(v, {k}, [e \in Side |-> [x \in Node |-> End(e)]])
<1> DEFINE new == [e \in Side |-> [x \in Node |-> End(e)]]
<1>1. k # NULL /\ k \in Int /\ \A e \in Side : End(e) \in Bound /\ Beyond(e, End(e), k)
  BY Numbers
<1>2. v \in Trees /\ v.root = k /\ v.parent[k] = NULL /\ \A e \in Side : v.child[e][k] = NULL
  BY <1>1, Numbers DEF Linked
<1>3. Typed(v, {k}, new)
  BY <1>1, <1>2 DEF Typed
<1>4. RootPart(v, {k}, new) /\ ParentPart(v, {k}) /\ EdgePart({k}, new) /\ ChildPart(v, {k}, new)
  BY <1>1, <1>2 DEF RootPart, ParentPart, EdgePart, ChildPart
<1>5. GapPart(v, {k}, new)
  <2>1. \A e \in Side : ~Inside(k, End(e), k)
    BY <1>1, Numbers DEF Inside
  <2> QED BY <2>1 DEF GapPart
<1> QED BY <1>3, <1>4, <1>5 DEF Search

-----------------------------------------------------------------------------
(* Where a new key goes *)

LEMMA PlaceIs ==
  ASSUME NEW edge, Search(Tree, keys, edge), Bare(Tree, keys), keys # {},
         NEW k \in Node, k \notin keys
  PROVE  LET e == Place(k) IN
         /\ e[1] \in keys /\ e[2] \in Side /\ child[e[2]][e[1]] = NULL
         /\ Inside(k, edge[e[2]][e[1]], e[1])
<1>1. /\ keys \in SUBSET Node /\ \A x \in keys : x \in Node /\ x \in Int /\ x # NULL
      /\ k \in Nat /\ k \in Int /\ "left" \in Side /\ "right" \in Side
      /\ Other("left") = "right" /\ Other("right") = "left"
  BY KeyFacts DEF Node, Side, Other
<1>2. ASSUME NEW d \in Side, NEW q \in {Pred(k), Succ(k)}, q = IF d = "right" THEN Pred(k) ELSE Succ(k)
      PROVE  IF \E x \in keys : Beyond(d, k, x) THEN IsNext(keys, Other(d), k, q) ELSE q = NULL
  <2>1. \A x \in keys : Beyond(d, k, x) <=> Beyond(Other(d), x, k)
    BY <1>1, Order
  <2>2. CASE \E x \in keys : Beyond(d, k, x)
    <3>1. PICK y \in keys : IsNext(keys, Other(d), k, y)
      BY <1>1, <2>1, <2>2, NextExists, Sides
    <3>2. q = y
      BY <1>1, <1>2, <3>1, SuccIs DEF Side
    <3> QED BY <2>2, <3>1, <3>2
  <2>3. CASE ~\E x \in keys : Beyond(d, k, x)
    <3>1. \A x \in keys : ~Beyond(Other(d), x, k)
      BY <2>1, <2>3
    <3>2. q = NULL
      BY <1>1, <1>2, <3>1, SuccIs DEF Side
    <3> QED BY <2>3, <3>2
  <2> QED BY <2>2, <2>3
<1> DEFINE p == Pred(k)
           s == Succ(k)
           E == {<<p, "right">>, <<s, "left">>}
           Room(e) == e[1] # NULL /\ child[e[2]][e[1]] = NULL
<1>3. IF \E x \in keys : Beyond("right", k, x) THEN IsNext(keys, "left", k, p) ELSE p = NULL
  BY <1>1, <1>2
<1>4. IF \E x \in keys : Beyond("left", k, x) THEN IsNext(keys, "right", k, s) ELSE s = NULL
  BY <1>1, <1>2
<1> HIDE DEF p, s
<1>5. (p = NULL \/ IsNext(keys, "left", k, p)) /\ (s = NULL \/ IsNext(keys, "right", k, s))
  BY <1>3, <1>4
<1>6. \A x \in keys : (x < k /\ p # NULL) \/ (k < x /\ s # NULL)
  <2>1. \A x \in keys : x < k \/ k < x
    BY <1>1
  <2>2. \A x \in keys : x < k => p # NULL
    BY <1>1, <1>3 DEF IsNext, Beyond
  <2>3. \A x \in keys : k < x => s # NULL
    BY <1>1, <1>4 DEF IsNext, Beyond
  <2> QED BY <2>1, <2>2, <2>3
<1>7. \E e \in E : Room(e)
  <2>1. SUFFICES ASSUME p # NULL => child["right"][p] # NULL, s # NULL => child["left"][s] # NULL
                 PROVE  FALSE
    OBVIOUS
  <2>2. CASE p # NULL
    <3> DEFINE c == child["right"][p]
    <3>1. p \in keys /\ c # NULL /\ p < k /\ \A x \in keys : x < k => x <= p
      <4>1. IsNext(keys, "left", k, p) /\ c # NULL
        BY <1>5, <2>1, <2>2
      <4>2. p \in keys /\ p < k /\ \A x \in keys : x < k => x = p \/ x < p
        BY <4>1 DEF IsNext, Beyond
      <4> QED BY <1>1, <4>1, <4>2
    <3>2. c \in keys /\ edge["left"][c] = p
      BY <1>1, <3>1, TreeFields DEF Search, ChildPart
    <3>3. p < c
      BY <1>1, <3>2 DEF Search, EdgePart, Beyond
    <3>4. k < c /\ s # NULL
      <4>1. ~(c < k)
        <5> HIDE DEF c
        <5>1. c \in Int /\ p \in Int /\ (c < k => c <= p)
          BY <1>1, <3>1, <3>2
        <5> QED BY <3>3, <5>1
      <4> QED BY <1>6, <3>2, <4>1
    <3> DEFINE y == Outermost(Tree, c, "left")
    <3>5. y \in keys /\ child["left"][y] = NULL /\ IsNext(keys, "right", p, y)
      BY <1>1, <3>2, OutermostIs, TreeFields
    <3>6. IsNext(keys, "right", k, s)
      BY <1>5, <3>4
    <3>7. y = s
      <4> HIDE DEF y, c
      <4>1. p < y /\ \A x \in keys : p < x => y <= x
        BY <1>1, <3>5 DEF IsNext, Beyond
      <4>2. s \in keys /\ k < s /\ \A x \in keys : k < x => s <= x
        BY <1>1, <3>6 DEF IsNext, Beyond
      <4>3. k < y
        BY <1>1, <3>1, <3>5, <4>1
      <4>4. y <= s /\ s <= y
        BY <1>1, <3>1, <3>5, <4>1, <4>2, <4>3
      <4> QED BY <1>1, <3>5, <4>2, <4>4
    <3> QED BY <2>1, <3>4, <3>5, <3>7
  <2>3. CASE p = NULL
    <3>1. s # NULL /\ \A x \in keys : k < x
      BY <1>6, <2>3
    <3> DEFINE c == child["left"][s]
    <3>2. s \in keys /\ c # NULL /\ \A x \in keys : k < x => s <= x
      <4>1. IsNext(keys, "right", k, s) /\ c # NULL
        BY <1>5, <2>1, <3>1
      <4>2. s \in keys /\ \A x \in keys : k < x => x = s \/ s < x
        BY <4>1 DEF IsNext, Beyond
      <4> QED BY <1>1, <4>1, <4>2
    <3>3. c \in keys /\ edge["right"][c] = s
      BY <1>1, <3>2, TreeFields DEF Search, ChildPart
    <3>4. c < s
      BY <1>1, <3>3 DEF Search, EdgePart, Beyond
    <3> QED BY <1>1, <3>1, <3>2, <3>3, <3>4
  <2> QED BY <2>2, <2>3
<1>8. Place(k) = CHOOSE e \in E : Room(e)
  BY DEF Place, p, s
<1> DEFINE e == CHOOSE e \in E : Room(e)
<1>9. e \in E /\ Room(e)
  BY <1>7
<1>10. Place(k) = e
  BY <1>8
<1> HIDE DEF e
<1>11. ASSUME NEW d \in Side, NEW q \in keys, IsNext(keys, Other(d), k, q), child[d][q] = NULL
       PROVE  Inside(k, edge[d][q], q)
  <2>1. Beyond(d, edge[d][q], q) /\ edge[d][q] \in keys \cup {End(d)} /\ q \in Int /\ edge[d][q] \in Int
    BY <1>1, Fields DEF Search, EdgePart
  <2>2. Beyond(d, k, q) /\ \A x \in keys : Beyond(Other(d), x, k) => x = q \/ Beyond(Other(d), x, q)
    BY <1>1, <2>1, <1>11, Order DEF IsNext
  <2>3. Beyond(d, edge[d][q], k)
    <3>1. CASE edge[d][q] = End(d)
      BY <3>1, Numbers
    <3>2. CASE edge[d][q] \in keys
      <4>1. ~Beyond(Other(d), edge[d][q], k)
        BY <1>1, <2>1, <2>2, <3>2, Order
      <4>2. edge[d][q] # k
        BY <3>2
      <4> QED BY <1>1, <2>1, <4>1, <4>2, Order
    <3> QED BY <2>1, <3>1, <3>2
  <2> QED BY <1>1, <2>1, <2>2, <2>3, Order
<1>12. CASE e = <<p, "right">>
  <2>1. e[1] = p /\ e[2] = "right" /\ p # NULL /\ child["right"][p] = NULL
    BY <1>9, <1>12
  <2>2. p \in keys /\ IsNext(keys, "left", k, p)
    BY <1>5, <2>1 DEF IsNext
  <2> QED BY <1>1, <1>11, <1>10, <2>1, <2>2
<1>13. CASE e = <<s, "left">>
  <2>1. e[1] = s /\ e[2] = "left" /\ s # NULL /\ child["left"][s] = NULL
    BY <1>9, <1>13
  <2>2. s \in keys /\ IsNext(keys, "right", k, s)
    BY <1>5, <2>1 DEF IsNext
  <2> QED BY <1>1, <1>11, <1>10, <2>1, <2>2
<1> QED BY <1>9, <1>12, <1>13

-----------------------------------------------------------------------------
(* What keeps a tree sound, whatever loop it is in *)

\* Only the links of the nodes in the tree matter to the order.
LEMMA SameLinks ==
  ASSUME NEW t, NEW ks, NEW edge, Search(t, ks, edge), NEW v \in Trees, v.root = t.root,
         \A x \in ks : v.parent[x] = t.parent[x] /\ \A e \in Side : v.child[e][x] = t.child[e][x]
  PROVE  Search(v, ks, edge)
<1>1. Typed(v, ks, edge)
  BY DEF Search, Typed
<1>2. RootPart(v, ks, edge)
  BY DEF Search, RootPart
<1>3. ParentPart(v, ks)
  BY DEF Search, ParentPart
<1>4. EdgePart(ks, edge)
  BY DEF Search
<1>5. ChildPart(v, ks, edge)
  BY DEF Search, ChildPart
<1>6. GapPart(v, ks, edge)
  BY DEF Search, GapPart
<1> QED BY <1>1, <1>2, <1>3, <1>4, <1>5, <1>6 DEF Search

\* v is t without the links of k.
Forgotten(v, t, k) ==
  /\ v \in Trees /\ v.root = t.root
  /\ \A x \in Node : v.red[x] = IF x = k THEN FALSE ELSE t.red[x]
  /\ \A x \in Node : v.parent[x] = IF x = k THEN NULL ELSE t.parent[x]
  /\ \A x \in Node : \A e \in Side : v.child[e][x] = IF x = k THEN NULL ELSE t.child[e][x]

LEMMA ForgetIs ==
  ASSUME NEW t \in Trees, NEW k \in Node
  PROVE  Forgotten(Forget(t, k), t, k)
<1>1. SUFFICES ASSUME NEW v, v = Forget(t, k) PROVE Forgotten(v, t, k)
  OBVIOUS
<1>2. v \in Trees
  BY <1>1, Numbers DEF Forget, Trees, Side
<1>3. v.root = t.root
  BY <1>1 DEF Forget, Trees
<1>4. \A x \in Node : v.red[x] = IF x = k THEN FALSE ELSE t.red[x]
  BY <1>1 DEF Forget, Trees
<1>5. \A x \in Node : v.parent[x] = IF x = k THEN NULL ELSE t.parent[x]
  BY <1>1 DEF Forget, Trees
<1>6. \A x \in Node : \A e \in Side : v.child[e][x] = IF x = k THEN NULL ELSE t.child[e][x]
  BY <1>1 DEF Forget, Trees, Side
<1> QED BY <1>2, <1>3, <1>4, <1>5, <1>6 DEF Forgotten

LEMMA RootIs ==
  ASSUME NEW t, NEW ks, NEW edge, Search(t, ks, edge)
  PROVE  (t.root = NULL /\ ks = {}) \/ (t.root \in ks /\ t.parent[t.root] = NULL)
BY DEF Search, RootPart

LEMMA ForgetKeeps ==
  ASSUME NEW t, NEW ks, NEW phase, NEW nd, NEW ab, NEW edge, NEW bh, NEW sd,
         Sound(t, ks, phase, nd, ab, edge, bh, sd),
         NEW k \in Node, k \notin ks, NEW v, Forgotten(v, t, k)
  PROVE  Sound(v, ks, phase, nd, ab, edge, bh, sd)
<1>1. Search(t, ks, edge) /\ Loop(t, ks, phase, nd, ab, sd)
  BY DEF Sound
<1>2. /\ \A x \in ks : x \in Node /\ x # k /\ x # NULL
      /\ v.root = t.root
  BY <1>1, KeyFacts DEF Forgotten
<1>3. \A x \in ks : /\ v.red[x] = t.red[x] /\ v.parent[x] = t.parent[x]
                    /\ \A e \in Side : v.child[e][x] = t.child[e][x]
  BY <1>2 DEF Forgotten
<1>4. Search(v, ks, edge)
  BY <1>1, <1>2, <1>3, SameLinks DEF Forgotten
<1>5. Balanced(v, ks, bh, Hole(v, phase, nd, ab), sd)
  BY <1>2, <1>3 DEF Sound, Balanced, Hole
<1>6. Colours(v, ks, phase, nd)
  <2>1. IsRed(v, v.root) <=> IsRed(t, t.root)
    BY <1>1, <1>2, <1>3, RootIs DEF IsRed
  <2>2. \A x \in ks : t.parent[x] = NULL \/ t.parent[x] \in ks
    BY <1>1, RootIs DEF Search, ParentPart
  <2>3. \A x \in ks : IsRed(v, v.parent[x]) <=> IsRed(t, t.parent[x])
    BY <1>2, <1>3, <2>2 DEF IsRed
  <2> QED BY <1>2, <1>3, <2>1, <2>3 DEF Sound, Colours
<1>7. Loop(v, ks, phase, nd, ab, sd)
  BY <1>1, <1>2, <1>3 DEF Loop
<1> QED BY <1>4, <1>5, <1>6, <1>7 DEF Sound

\* Putting another node in the place of n keeps the tree sound; where a loop
\* is at n, it is at the new node then.
LEMMA TakeSound ==
  ASSUME NEW t, NEW ks, NEW phase, NEW nd, NEW ab, NEW edge, NEW bh, NEW sd,
         Sound(t, ks, phase, nd, ab, edge, bh, sd),
         NEW n \in ks, NEW m \in Node, m \notin ks,
         \A k \in ks : k # n => (k < n <=> k < m),
         NEW v, Taken(v, t, ks, n, m)
  PROVE  Sound(v, (ks \ {n}) \cup {m}, phase, IF nd = n THEN m ELSE nd, IF ab = n THEN m ELSE ab,
               Renamed(edge, n, m), [bh EXCEPT ![m] = bh[n]], sd)
<1> DEFINE R(x) == IF x = n THEN m ELSE x
           all == (ks \ {n}) \cup {m}
           new == [bh EXCEPT ![m] = bh[n]]
           h == Hole(t, phase, nd, ab)
<1>1. /\ Search(t, ks, edge) /\ Balanced(t, ks, bh, h, sd) /\ Colours(t, ks, phase, nd)
      /\ Loop(t, ks, phase, nd, ab, sd)
  BY DEF Sound
<1>2. /\ \A x \in ks : x \in Node /\ x \in Pointer /\ x # NULL /\ x # m
      /\ m # n /\ m # NULL /\ m \in Pointer /\ NULL \in Pointer
  BY <1>1, KeyFacts, Numbers
<1>3. /\ v.red[m] = t.red[n] /\ v.parent[m] = t.parent[n] /\ \A e \in Side : v.child[e][m] = t.child[e][n]
      /\ \A x \in ks : /\ v.red[x] = t.red[x]
                       /\ \A e \in Side : v.child[e][x] = IF t.child[e][x] = n THEN m ELSE t.child[e][x]
      /\ v.root = IF t.root = n THEN m ELSE t.root
  <2>1. \A e \in Side : t.child[e][n] # m
    BY <1>1, <1>2 DEF Search, ChildPart
  <2> QED BY <1>2, <2>1 DEF Taken
<1>4. \A x \in ks : \A e \in Side : t.child[e][x] = NULL \/ t.child[e][x] \in ks
  BY <1>1 DEF Search, ChildPart
<1>5. \A x \in ks : t.parent[x] = NULL \/ t.parent[x] \in ks
  BY <1>1, RootIs DEF Search, ParentPart
<1>6. \A x \in ks : x # n => v.parent[x] = R(t.parent[x])
  <2>1. SUFFICES ASSUME NEW x \in ks, x # n PROVE v.parent[x] = R(t.parent[x])
    OBVIOUS
  <2>2. (\E e \in Side : x = t.child[e][n]) <=> t.parent[x] = n
    BY <1>1, <1>2, <2>1, RootIs DEF Search, ChildPart, ParentPart
  <2> QED BY <1>2, <2>1, <2>2 DEF Taken
<1>7. Search(v, all, Renamed(edge, n, m))
  BY <1>1, TakeKeeps
<1>8. t.root \in ks
  BY <1>1, RootIs
<1>9. nd \in ks \cup {NULL} /\ ab \in ks \cup {NULL}
  BY <1>1 DEF Loop
<1>10. Hole(v, phase, R(nd), R(ab)) = R(h) /\ h \in ks \cup {NULL}
  <2>1. nd = t.root <=> R(nd) = v.root
    BY <1>2, <1>3, <1>8, <1>9
  <2> QED BY <1>2, <1>9, <2>1 DEF Hole
<1> HIDE DEF h
<1>11. Balanced(v, all, new, R(h), sd)
  <2>1. /\ bh \in [Pointer -> Nat \ {0}] /\ bh[NULL] = 1
        /\ \A x \in ks : \A d \in Side :
             bh[x] = bh[t.child[d][x]] + (IF x = h /\ d = sd THEN 1 ELSE 0) + (IF t.red[x] THEN 0 ELSE 1)
    BY <1>1 DEF Balanced
  <2>2. new \in [Pointer -> Nat \ {0}] /\ new[NULL] = 1 /\ new[m] = bh[n]
        /\ \A x \in ks \cup {NULL} : new[x] = bh[x]
    BY <1>2, <2>1
  <2> HIDE DEF new
  <2>3. \A x \in ks : \A d \in Side : x # n => new[v.child[d][x]] = bh[t.child[d][x]]
    BY <1>2, <1>3, <1>4, <2>2
  <2>4. \A d \in Side : new[v.child[d][m]] = bh[t.child[d][n]]
    BY <1>3, <1>4, <2>2
  <2>5. ASSUME NEW x \in ks, x # n, NEW d \in Side
        PROVE  new[x] = new[v.child[d][x]] + (IF x = R(h) /\ d = sd THEN 1 ELSE 0) + (IF v.red[x] THEN 0 ELSE 1)
    <3>1. x = R(h) <=> x = h
      BY <1>2, <2>5
    <3> QED BY <1>3, <2>1, <2>2, <2>3, <2>5, <3>1
  <2>6. ASSUME NEW d \in Side
        PROVE  new[m] = new[v.child[d][m]] + (IF m = R(h) /\ d = sd THEN 1 ELSE 0) + (IF v.red[m] THEN 0 ELSE 1)
    <3>1. m = R(h) <=> n = h
      BY <1>2, <1>10
    <3> QED BY <1>3, <2>1, <2>2, <2>4, <3>1
  <2> QED BY <2>2, <2>5, <2>6 DEF Balanced
<1>12. Colours(v, all, phase, R(nd))
  <2>1. IsRed(v, v.root) <=> IsRed(t, t.root)
    BY <1>2, <1>3, <1>8 DEF IsRed
  <2>2. \A x \in ks : IsRed(t, t.parent[x]) <=> IsRed(v, R(t.parent[x]))
    BY <1>2, <1>3, <1>5 DEF IsRed
  <2>3. /\ IsRed(t, t.root) => phase # "idle" /\ nd = t.root
        /\ \A x \in ks : t.red[x] /\ IsRed(t, t.parent[x]) =>
             (phase # "idle" /\ nd = x) \/ (phase = "erase" /\ nd = t.parent[x])
    BY <1>1 DEF Colours
  <2>4. ASSUME NEW x \in ks, x # n, v.red[x], IsRed(v, v.parent[x])
        PROVE  (phase # "idle" /\ R(nd) = x) \/ (phase = "erase" /\ R(nd) = v.parent[x])
    <3>1. t.red[x] /\ IsRed(t, t.parent[x]) /\ v.parent[x] = R(t.parent[x])
      BY <1>3, <1>6, <2>2, <2>4
    <3> QED BY <2>3, <2>4, <3>1
  <2>5. ASSUME v.red[m], IsRed(v, v.parent[m])
        PROVE  (phase # "idle" /\ R(nd) = m) \/ (phase = "erase" /\ R(nd) = v.parent[m])
    <3>1. t.parent[n] # n /\ v.parent[m] = R(t.parent[n])
      BY <1>1, <1>3, NotItsOwn
    <3>2. t.red[n] /\ IsRed(t, t.parent[n])
      BY <1>3, <2>2, <2>5, <3>1
    <3> QED BY <2>3, <3>1, <3>2
  <2>6. IsRed(v, v.root) => phase # "idle" /\ R(nd) = v.root
    BY <1>3, <2>1, <2>3
  <2> QED BY <2>4, <2>5, <2>6 DEF Colours
<1>13. Loop(v, all, phase, R(nd), R(ab), sd)
  <2>1. phase \in {"idle", "insert", "erase"} /\ sd \in Side
    BY <1>1 DEF Loop
  <2>2. phase = "idle" => R(nd) = NULL /\ R(ab) = NULL
    BY <1>1, <1>2 DEF Loop
  <2>3. phase = "insert" => R(nd) \in all /\ v.red[R(nd)] /\ R(ab) = NULL
    BY <1>1, <1>2, <1>3 DEF Loop
  <2>4. ASSUME phase = "erase"
        PROVE  /\ R(nd) \in all \cup {NULL} /\ R(ab) \in all \cup {NULL}
               /\ R(nd) = v.root \/ (R(ab) \in all /\ v.child[sd][R(ab)] = R(nd))
    <3>1. nd = t.root \/ (ab \in ks /\ t.child[sd][ab] = nd)
      BY <1>1, <2>4 DEF Loop
    <3>2. CASE nd = t.root
      BY <1>3, <1>9, <3>2
    <3>3. CASE ab \in ks /\ t.child[sd][ab] = nd /\ ab = n
      <4>1. nd # n
        BY <1>1, <2>1, <3>3, NotItsOwn
      <4> QED BY <1>3, <1>9, <2>1, <3>3, <4>1
    <3>4. CASE ab \in ks /\ t.child[sd][ab] = nd /\ ab # n
      BY <1>3, <1>9, <2>1, <3>4
    <3> QED BY <3>1, <3>2, <3>3, <3>4
  <2> QED BY <2>1, <2>2, <2>3, <2>4 DEF Loop
<1> QED BY <1>7, <1>10, <1>11, <1>12, <1>13 DEF Sound

\* Taking out a node with at most one child: if it was black, the loop of
\* rb_erase starts where it was.
LEMMA SpliceSound ==
  ASSUME NEW t, NEW ks, NEW edge, NEW bh, NEW side, Sound(t, ks, "idle", NULL, NULL, edge, bh, side),
         NEW n \in ks, NEW a \in Side, t.child[a][n] = NULL, NEW c, c = t.child[Other(a)][n],
         NEW v, Spliced(v, t, ks, n, c)
  PROVE  \E sd : Sound(v, ks \ {n}, IF t.red[n] THEN "idle" ELSE "erase",
                       IF t.red[n] THEN NULL ELSE c, IF t.red[n] THEN NULL ELSE t.parent[n],
                       Closed(edge, n), bh, sd)
<1> DEFINE p == t.parent[n]
           phase == IF t.red[n] THEN "idle" ELSE "erase"
           nd == IF t.red[n] THEN NULL ELSE c
           ab == IF t.red[n] THEN NULL ELSE p
<1>1. Search(t, ks, edge) /\ Balanced(t, ks, bh, NULL, side) /\ Colours(t, ks, "idle", NULL)
  BY DEF Sound, Hole
<1>2. /\ \A x \in ks : x \in Node /\ x \in Pointer /\ x # NULL
      /\ NULL \in Pointer /\ Other(a) \in Side /\ \A e \in Side : e = a \/ e = Other(a)
  <2>1. Other(a) \in Side /\ \A e \in Side : e = a \/ e = Other(a)
    BY Sides
  <2> QED BY <1>1, <2>1, KeyFacts, Numbers
<1>3. /\ v.red = t.red /\ v.root = IF t.root = n THEN c ELSE t.root
      /\ \A x \in ks : v.parent[x] = IF x = c THEN p ELSE t.parent[x]
      /\ \A x \in ks : \A e \in Side : v.child[e][x] = IF t.child[e][x] = n THEN c ELSE t.child[e][x]
  BY <1>2 DEF Spliced
<1>4. /\ c \in ks \cup {NULL} /\ c # n
      /\ c # NULL => t.parent[c] = n /\ c # t.root
      /\ \A x \in ks : t.parent[x] = n => x = c \/ x = t.root
  <2>1. c # n
    BY <1>1, <1>2, NotItsOwn
  <2>2. c # NULL => c \in ks /\ t.parent[c] = n
    BY <1>1, <1>2 DEF Search, ChildPart
  <2>3. c # NULL => c # t.root
    BY <1>1, <1>2, <2>2, RootIs
  <2>4. \A x \in ks : t.parent[x] = n => x = c \/ x = t.root
    BY <1>1, <1>2 DEF Search, ParentPart
  <2> QED BY <2>1, <2>2, <2>3, <2>4
<1>5. t.root \in ks /\ t.parent[t.root] = NULL
  BY <1>1, RootIs
<1>6. n # t.root => p \in ks /\ p # n
  BY <1>1, NotItsOwn DEF Search, ParentPart
<1>7. PICK sd \in Side : n # t.root => t.child[sd][p] = n /\ \A e \in Side : t.child[e][p] = n => e = sd
  <2>1. CASE n = t.root
    BY <2>1, <1>2
  <2>2. CASE n # t.root
    <3>1. PICK e \in Side : t.child[e][p] = n
      BY <1>1, <2>2 DEF Search, ParentPart
    <3>2. t.child[Other(e)][p] # n
      BY <1>1, <1>2, <1>6, <2>2, <3>1, ChildrenDiffer
    <3>3. \A f \in Side : f = e \/ f = Other(e)
      BY Sides
    <3> QED BY <3>1, <3>2, <3>3
  <2> QED BY <2>1, <2>2
<1>8. \A x \in ks : \A e \in Side : t.child[e][x] = n => x = p /\ e = sd /\ n # t.root
  <2>1. \A x \in ks : \A e \in Side : t.child[e][x] = n => x = p
    BY <1>1, <1>2 DEF Search, ChildPart
  <2>2. p \in ks => n # t.root
    BY <1>2, <1>5
  <2> QED BY <1>7, <2>1, <2>2
<1>9. Search(v, ks \ {n}, Closed(edge, n))
  BY <1>1, SpliceKeeps
<1>10. Hole(v, phase, nd, ab) = IF ~t.red[n] /\ n # t.root THEN p ELSE NULL
  <2>1. c = v.root <=> n = t.root
    BY <1>2, <1>3, <1>4, <1>5
  <2> QED BY <2>1 DEF Hole
<1> HIDE DEF p
<1>11. Balanced(v, ks \ {n}, bh, Hole(v, phase, nd, ab), sd)
  <2>1. /\ bh \in [Pointer -> Nat \ {0}] /\ bh[NULL] = 1
        /\ \A x \in ks : \A d \in Side : bh[x] = bh[t.child[d][x]] + (IF t.red[x] THEN 0 ELSE 1)
    <3>1. /\ bh \in [Pointer -> Nat \ {0}] /\ bh[NULL] = 1
          /\ \A x \in ks : \A d \in Side :
               bh[x] = bh[t.child[d][x]] + (IF x = NULL /\ d = side THEN 1 ELSE 0) + (IF t.red[x] THEN 0 ELSE 1)
      BY <1>1 DEF Balanced
    <3>2. ASSUME NEW x \in ks, NEW d \in Side
          PROVE  bh[x] = bh[t.child[d][x]] + (IF t.red[x] THEN 0 ELSE 1)
      <4>1. t.child[d][x] \in Pointer /\ ~(x = NULL)
        BY <1>1, <1>2, <3>2, Fields DEF Search
      <4>2. bh[t.child[d][x]] \in Nat
        BY <3>1, <4>1
      <4>3. bh[x] = bh[t.child[d][x]] + 0 + (IF t.red[x] THEN 0 ELSE 1)
        BY <3>1, <3>2, <4>1
      <4> QED BY <4>2, <4>3
    <3> QED BY <3>1, <3>2
  <2>2. bh[n] = bh[c] + (IF t.red[n] THEN 0 ELSE 1) /\ bh[c] \in Nat
    BY <1>2, <1>4, <2>1
  <2>3. ASSUME NEW x \in ks, x # n, NEW d \in Side
        PROVE  bh[x] = bh[v.child[d][x]] + (IF x = Hole(v, phase, nd, ab) /\ d = sd THEN 1 ELSE 0)
                         + (IF v.red[x] THEN 0 ELSE 1)
    <3>1. CASE t.child[d][x] = n
      <4>1. x = p /\ d = sd /\ n # t.root /\ x # NULL
        BY <1>2, <1>8, <3>1
      <4>2. v.child[d][x] = c /\ bh[x] = bh[n] + (IF t.red[x] THEN 0 ELSE 1)
        BY <1>3, <2>1, <3>1
      <4>3. (x = Hole(v, phase, nd, ab) /\ d = sd) <=> ~t.red[n]
        BY <1>10, <4>1
      <4> QED BY <1>3, <2>2, <4>2, <4>3
    <3>2. CASE t.child[d][x] # n
      <4>1. ~(x = Hole(v, phase, nd, ab) /\ d = sd)
        BY <1>2, <1>7, <1>10, <3>2
      <4>2. v.child[d][x] = t.child[d][x] /\ bh[t.child[d][x]] \in Nat
        BY <1>1, <1>2, <1>3, <2>1, <3>2 DEF Search, ChildPart
      <4> QED BY <1>3, <2>1, <4>1, <4>2
    <3> QED BY <3>1, <3>2
  <2> QED BY <2>1, <2>3 DEF Balanced
<1>12. /\ ~IsRed(t, t.root) /\ \A x \in ks : ~(t.red[x] /\ IsRed(t, t.parent[x]))
  BY <1>1 DEF Colours
<1>13. Colours(v, ks \ {n}, phase, nd)
  <2>1. IsRed(v, v.root) => phase # "idle" /\ nd = v.root
    BY <1>2, <1>3, <1>5, <1>12 DEF IsRed
  <2>2. ASSUME NEW x \in ks, x # n, v.red[x], IsRed(v, v.parent[x])
        PROVE  phase # "idle" /\ nd = x
    <3>1. x = c
      BY <1>3, <1>12, <2>2 DEF IsRed
    <3>2. ~t.red[n]
      BY <1>2, <1>3, <1>4, <1>12, <2>2, <3>1 DEF IsRed
    <3> QED BY <3>1, <3>2
  <2> QED BY <2>1, <2>2 DEF Colours
<1>14. Loop(v, ks \ {n}, phase, nd, ab, sd)
  <2>1. p = NULL \/ p \in ks \ {n}
    BY <1>5, <1>6 DEF p
  <2>2. c = v.root \/ (p \in ks \ {n} /\ v.child[sd][p] = c)
    BY <1>3, <1>6, <1>7
  <2> QED BY <1>4, <2>1, <2>2 DEF Loop
<1>15. Sound(v, ks \ {n}, phase, nd, ab, Closed(edge, n), bh, sd)
  BY <1>9, <1>11, <1>13, <1>14 DEF Sound
<1> QED BY <1>15 DEF p

\* u is t with the colour of n given to its red child m, and n red.
Swapped(u, t, n, m) ==
  /\ u \in Trees /\ u.root = t.root /\ u.child = t.child /\ u.parent = t.parent
  /\ u.red[n] = TRUE /\ u.red[m] = t.red[n] /\ \A x \in Node : x # n /\ x # m => u.red[x] = t.red[x]

\* The colours of n and of its red child m change places, and m comes up.
LEMMA Swing ==
  ASSUME NEW t, NEW ks, NEW edge, NEW bh, NEW h, NEW sd, Search(t, ks, edge), Balanced(t, ks, bh, h, sd),
         NEW n \in ks, NEW d \in Side, NEW m, m = t.child[Other(d)][n], m # NULL, t.red[m],
         h # m, h = n => sd = d, NEW u, Swapped(u, t, n, m)
  PROVE  /\ Rotated(Rotate(u, n, d), u, ks, n, d, m, t.child[d][m])
         /\ Search(Rotate(u, n, d), ks, Turned(edge, n, d, m))
         /\ Balanced(Rotate(u, n, d), ks, [bh EXCEPT ![n] = bh[m], ![m] = bh[n]], h, sd)
<1> DEFINE v == Rotate(u, n, d)
           c == t.child[d][m]
           o == Other(d)
           new == [bh EXCEPT ![n] = bh[m], ![m] = bh[n]]
<1>0. /\ u \in Trees /\ u.root = t.root /\ u.child = t.child /\ u.parent = t.parent
      /\ u.red[n] = TRUE /\ u.red[m] = t.red[n] /\ \A x \in Node : x # n /\ x # m => u.red[x] = t.red[x]
  BY DEF Swapped
<1>1. Search(u, ks, edge)
  BY <1>0, SameLinks
<1>2. Rotated(v, u, ks, n, d, m, c)
  BY <1>0, <1>1, RotateIs
<1> HIDE DEF v
<1>3. Search(v, ks, Turned(edge, n, d, m))
  <2>1. m = u.child[Other(d)][n] /\ c = u.child[d][m]
    BY <1>0
  <2> HIDE DEF c
  <2> QED BY <1>1, <1>2, <2>1, RotateKeeps
<1>4. /\ \A x \in ks : x \in Node /\ x \in Pointer /\ x # NULL
      /\ o \in Side /\ o # d /\ \A e \in Side : e = d \/ e = o
      /\ m \in ks /\ m # n /\ t.parent[m] = n /\ \A b \in Side : t.child[b][m] # n
  <2>1. o \in Side /\ o # d /\ \A e \in Side : e = d \/ e = o
    BY Sides
  <2>2. m \in ks /\ m # n /\ t.parent[m] = n /\ \A b \in Side : t.child[b][m] # n
    BY <2>1, NoCycle
  <2> QED BY <2>1, <2>2, KeyFacts
<1>5. \A x \in ks : \A e \in Side :
        v.child[e][x] = IF t.child[e][x] = n THEN m
                        ELSE IF x = m /\ e = d THEN n
                        ELSE IF x = n /\ e = o THEN c ELSE t.child[e][x]
  BY <1>0, <1>2, <1>4 DEF Rotated
<1>6. v.red[n] = TRUE /\ v.red[m] = t.red[n] /\ \A x \in ks : x # n /\ x # m => v.red[x] = t.red[x]
  <2>1. v.red = u.red
    BY <1>2 DEF Rotated
  <2> QED BY <1>0, <1>4, <2>1
<1>7. /\ bh \in [Pointer -> Nat \ {0}] /\ bh[NULL] = 1
      /\ \A x \in ks : \A e \in Side :
           bh[x] = bh[t.child[e][x]] + (IF x = h /\ e = sd THEN 1 ELSE 0) + (IF t.red[x] THEN 0 ELSE 1)
  BY DEF Balanced
<1>8. /\ new \in [Pointer -> Nat \ {0}] /\ new[NULL] = 1 /\ new[n] = bh[m] /\ new[m] = bh[n]
      /\ \A x \in Pointer : x # n /\ x # m => new[x] = bh[x]
  <2>1. n \in Pointer /\ m \in Pointer /\ n # m /\ n # NULL /\ m # NULL /\ NULL \in Pointer
    BY <1>4, Numbers
  <2>2. bh[m] \in Nat \ {0} /\ bh[n] \in Nat \ {0}
    BY <1>7, <2>1
  <2>3. new \in [Pointer -> Nat \ {0}]
    BY <1>7, <2>2
  <2> QED BY <1>7, <2>1, <2>3
<1>9. \A x \in ks : \A e \in Side : t.child[e][x] \in Pointer /\ bh[t.child[e][x]] \in Nat
  BY <1>4, <1>7, Fields DEF Search
<1> HIDE DEF new, o
<1>10. bh[m] = bh[c] /\ \A e \in Side : bh[m] = bh[t.child[e][m]]
  <2>1. \A e \in Side : bh[m] = bh[t.child[e][m]]
    BY <1>4, <1>7, <1>9
  <2> QED BY <2>1
<1>11. c # n /\ c # m /\ c \in Pointer
  BY <1>4, <1>9, NotItsOwn
<1> HIDE DEF c
<1>12. ASSUME NEW x \in ks, NEW e \in Side
       PROVE  new[x] = new[v.child[e][x]] + (IF x = h /\ e = sd THEN 1 ELSE 0) + (IF v.red[x] THEN 0 ELSE 1)
  <2>1. CASE x = m /\ e = d
    <3>1. v.child[e][x] = n /\ ~(x = h /\ e = sd)
      BY <1>4, <1>5, <2>1
    <3>2. bh[n] = bh[t.child[o][n]] + (IF t.red[n] THEN 0 ELSE 1)
      BY <1>4, <1>7, <1>9
    <3>3. t.child[o][n] = m
      BY DEF o
    <3>4. (IF v.red[x] THEN 0 ELSE 1) = IF t.red[n] THEN 0 ELSE 1
      BY <1>6, <2>1
    <3>5. new[x] = bh[n] /\ new[v.child[e][x]] = bh[m] /\ bh[m] \in Nat
      BY <1>4, <1>7, <1>8, <2>1, <3>1
    <3>6. bh[n] = bh[m] + (IF t.red[n] THEN 0 ELSE 1)
      BY <3>2, <3>3
    <3>7. new[x] = bh[m] + 0 + (IF v.red[x] THEN 0 ELSE 1)
      BY <3>4, <3>5, <3>6
    <3> QED BY <3>1, <3>5, <3>7
  <2>2. CASE x = m /\ e = o
    <3>1. v.child[e][x] = t.child[o][m] /\ ~(x = h /\ e = sd)
      BY <1>4, <1>5, <2>2
    <3>2. bh[n] = bh[t.child[o][n]] + (IF t.red[n] THEN 0 ELSE 1)
      BY <1>4, <1>7, <1>9
    <3>3. t.child[o][n] = m
      BY DEF o
    <3>4. t.child[o][m] # m /\ t.child[o][m] # n
      BY <1>4, NotItsOwn
    <3>5. new[t.child[o][m]] = bh[m]
      BY <1>4, <1>8, <1>9, <1>10, <3>4
    <3>6. (IF v.red[x] THEN 0 ELSE 1) = IF t.red[n] THEN 0 ELSE 1
      BY <1>6, <2>2
    <3>7. new[x] = bh[n] /\ new[v.child[e][x]] = bh[m] /\ bh[m] \in Nat
      BY <1>4, <1>7, <1>8, <2>2, <3>1, <3>5
    <3>8. bh[n] = bh[m] + (IF t.red[n] THEN 0 ELSE 1)
      BY <3>2, <3>3
    <3>9. new[x] = bh[m] + 0 + (IF v.red[x] THEN 0 ELSE 1)
      BY <3>6, <3>7, <3>8
    <3> QED BY <3>1, <3>7, <3>9
  <2>3. CASE x = n /\ e = o
    <3>1. t.child[e][x] # n
      BY <1>4, <2>3, NotItsOwn
    <3>2. v.child[e][x] = c /\ v.red[x] /\ ~(x = h /\ e = sd)
      BY <1>4, <1>5, <1>6, <2>3, <3>1
    <3> QED BY <1>7, <1>8, <1>10, <1>11, <2>3, <3>2
  <2>4. CASE x = n /\ e = d
    <3>1. t.child[d][n] # n /\ t.child[d][n] # m
      <4>1. t.child[d][n] # n
        BY NotItsOwn
      <4>2. m # t.child[Other(o)][n] /\ Other(o) = d
        BY <1>4, ChildrenDiffer, Sides DEF o
      <4> QED BY <4>1, <4>2
    <3>2. v.child[e][x] = t.child[d][n] /\ v.red[x] = TRUE
      <4>1. v.child[e][x] = t.child[d][n]
        BY <1>4, <1>5, <2>4, <3>1
      <4>2. v.red[x] = TRUE
        BY <1>6, <2>4
      <4> QED BY <4>1, <4>2
    <3>3. t.child[o][n] = m
      BY DEF o
    <3>4. bh[n] = bh[m] + (IF t.red[n] THEN 0 ELSE 1)
      BY <1>4, <1>7, <1>9, <3>3
    <3>5. bh[n] = bh[t.child[d][n]] + (IF n = h /\ d = sd THEN 1 ELSE 0) + (IF t.red[n] THEN 0 ELSE 1)
      BY <1>7
    <3>6. new[t.child[d][n]] = bh[t.child[d][n]] /\ bh[t.child[d][n]] \in Nat /\ bh[m] \in Nat
      BY <1>4, <1>7, <1>8, <1>9, <3>1
    <3> QED BY <1>8, <2>4, <3>2, <3>4, <3>5, <3>6
  <2>5. CASE x # n /\ x # m
    <3>1. new[v.child[e][x]] = bh[t.child[e][x]]
      <4>1. CASE t.child[e][x] = n
        BY <1>5, <1>8, <4>1
      <4>2. CASE t.child[e][x] # n
        <5>1. t.child[e][x] # m
          BY <1>4, <2>5 DEF Search, ChildPart
        <5> QED BY <1>5, <1>8, <1>9, <2>5, <4>2, <5>1
      <4> QED BY <4>1, <4>2
    <3>2. v.red[x] = t.red[x] /\ new[x] = bh[x]
      BY <1>4, <1>6, <1>8, <2>5
    <3>3. bh[x] = bh[t.child[e][x]] + (IF x = h /\ e = sd THEN 1 ELSE 0) + (IF t.red[x] THEN 0 ELSE 1)
      BY <1>7
    <3> QED BY <3>1, <3>2, <3>3
  <2> QED BY <1>4, <2>1, <2>2, <2>3, <2>4, <2>5
<1>13. Balanced(v, ks, new, h, sd)
  BY <1>8, <1>12 DEF Balanced
<1> QED BY <1>2, <1>3, <1>13 DEF v, new, c

-----------------------------------------------------------------------------
(* The steps of the two loops *)

\* A step that makes the tree v keeps the invariant when it is good for v.
LEMMA Kept ==
  ASSUME NEW v, BecomeTree(v), NEW edge, NEW bh, NEW sd,
         Good(v, keys', pc', node', above', edge, bh, sd)
  PROVE  IInv'
<1>1. v \in Trees
  BY KeyFacts DEF Good, Sound
<1>2. root' = v.root /\ child' = v.child /\ parent' = v.parent /\ red' = v.red
  BY DEF BecomeTree
<1>3. v = [root |-> root', child |-> child', parent |-> parent', red |-> red']
  BY <1>1, <1>2 DEF Trees
<1>4. Tree' = v
  BY <1>3 DEF Tree
<1> QED BY <1>4 DEF IInv

\* v is t in other colours, the nodes outside the tree left alone.
Painted(v, t, ks) ==
  /\ v \in Trees /\ v.root = t.root /\ v.child = t.child /\ v.parent = t.parent
  /\ \A x \in Node \ ks : v.red[x] = t.red[x]

LEMMA PaintKeeps ==
  ASSUME NEW t, NEW ks, NEW edge, Search(t, ks, edge), Bare(t, ks), NEW v, Painted(v, t, ks)
  PROVE  Search(v, ks, edge) /\ Bare(v, ks)
<1>1. Search(v, ks, edge)
  BY SameLinks DEF Painted
<1>2. Bare(v, ks)
  BY DEF Painted, Bare
<1> QED BY <1>1, <1>2

LEMMA PaintIs ==
  ASSUME NEW t \in Trees, NEW ks, ks \subseteq Node, NEW n \in ks \cup {NULL}, NEW r \in BOOLEAN
  PROVE  Painted(SetRed(t, n, r), t, ks) /\ NewRed(SetRed(t, n, r), t, n, r)
<1>1. n \in Pointer
  BY Numbers
<1>2. NewRed(SetRed(t, n, r), t, n, r)
  BY <1>1, SetRedIs
<1>3. \A x \in Node \ ks : x # n
  BY Numbers
<1> QED BY <1>2, <1>3 DEF NewRed, Painted

\* A rotation leaves the nodes outside the tree alone.
LEMMA TurnBare ==
  ASSUME NEW t, NEW ks, Bare(t, ks), NEW n \in ks, NEW d \in Side, NEW m \in ks, NEW c \in ks \cup {NULL},
         NEW v, Rotated(v, t, ks, n, d, m, c)
  PROVE  Bare(v, ks)
<1>1. SUFFICES ASSUME NEW x \in Node \ ks
               PROVE  v.parent[x] = NULL /\ v.red[x] = FALSE /\ \A e \in Side : v.child[e][x] = NULL
  BY DEF Bare
<1>2. x # n /\ x # m /\ x # c /\ x \notin ks
  BY Numbers
<1>3. t.parent[x] = NULL /\ t.red[x] = FALSE /\ \A e \in Side : t.child[e][x] = NULL
  BY <1>1 DEF Bare
<1> QED BY <1>1, <1>2, <1>3 DEF Rotated

\* Node b turns black: the root, or the red node where one black was missing.
LEMMA BlackenKeeps ==
  ASSUME NEW t, NEW ks, NEW edge, NEW bh, NEW h, NEW sd, Search(t, ks, edge), Balanced(t, ks, bh, h, sd),
         NEW b \in ks, \/ h = NULL /\ b = t.root
                       \/ h \in ks /\ sd \in Side /\ t.child[sd][h] = b /\ t.red[b],
         NEW v, NewRed(v, t, b, FALSE)
  PROVE  Balanced(v, ks, [bh EXCEPT ![b] = bh[b] + (IF t.red[b] THEN 1 ELSE 0)], NULL, sd)
<1> DEFINE new == [bh EXCEPT ![b] = bh[b] + (IF t.red[b] THEN 1 ELSE 0)]
<1>1. /\ \A x \in ks : x \in Node /\ x \in Pointer /\ x # NULL
      /\ \A x \in ks : \A e \in Side : t.child[e][x] \in Pointer
  BY KeyFacts, Fields DEF Search
<1>2. /\ bh \in [Pointer -> Nat \ {0}] /\ bh[NULL] = 1
      /\ \A x \in ks : \A e \in Side :
           bh[x] = bh[t.child[e][x]] + (IF x = h /\ e = sd THEN 1 ELSE 0) + (IF t.red[x] THEN 0 ELSE 1)
  BY DEF Balanced
<1>3. /\ new \in [Pointer -> Nat \ {0}] /\ new[NULL] = 1 /\ new[b] = bh[b] + (IF t.red[b] THEN 1 ELSE 0)
      /\ \A x \in Pointer : x # b => new[x] = bh[x]
  <2>1. bh[b] + (IF t.red[b] THEN 1 ELSE 0) \in Nat \ {0}
    BY <1>1, <1>2
  <2> QED BY <1>1, <1>2, <2>1, Numbers
<1> HIDE DEF new
<1>4. /\ v.child = t.child /\ v.red[b] = FALSE
      /\ \A x \in ks : x # b => v.red[x] = t.red[x]
  BY <1>1 DEF NewRed
<1>5. \A x \in ks : \A e \in Side : t.child[e][x] = b => x # NULL /\ t.parent[b] = x /\ b # t.root
  BY <1>1, RootIs DEF Search, ChildPart
<1>6. ASSUME NEW x \in ks, NEW e \in Side
      PROVE  new[x] = new[v.child[e][x]] + (IF x = NULL /\ e = sd THEN 1 ELSE 0) + (IF v.red[x] THEN 0 ELSE 1)
  <2>1. new[x] = bh[x] + (IF x = b /\ t.red[x] THEN 1 ELSE 0)
    BY <1>1, <1>3
  <2>2. new[t.child[e][x]] = bh[t.child[e][x]] + (IF x = h /\ e = sd THEN 1 ELSE 0)
    <3>1. CASE t.child[e][x] = b
      <4>1. h \in ks /\ sd \in Side /\ t.child[sd][h] = b /\ t.red[b] /\ b # NULL
        BY <1>1, <1>5, <3>1
      <4>2. x = h
        BY <1>5, <3>1, <4>1
      <4>3. e = sd
        <5>1. t.child[Other(sd)][h] # b
          BY <4>1, ChildrenDiffer
        <5>2. e = sd \/ e = Other(sd)
          BY <4>1, Sides
        <5> QED BY <3>1, <4>2, <5>1, <5>2
      <4> QED BY <1>3, <3>1, <4>1, <4>2, <4>3
    <3>2. CASE t.child[e][x] # b
      <4>1. ~(x = h /\ e = sd)
        BY <1>1, <3>2
      <4>2. new[t.child[e][x]] = bh[t.child[e][x]] /\ bh[t.child[e][x]] \in Nat
        BY <1>1, <1>2, <1>3, <3>2
      <4> QED BY <4>1, <4>2
    <3> QED BY <3>1, <3>2
  <2>3. (IF v.red[x] THEN 0 ELSE 1) = (IF t.red[x] THEN 0 ELSE 1) + (IF x = b /\ t.red[x] THEN 1 ELSE 0)
    BY <1>4
  <2>4. bh[x] = bh[t.child[e][x]] + (IF x = h /\ e = sd THEN 1 ELSE 0) + (IF t.red[x] THEN 0 ELSE 1)
    BY <1>2
  <2>5. bh[t.child[e][x]] \in Nat /\ ~(x = NULL) /\ v.child[e][x] = t.child[e][x]
    BY <1>1, <1>2, <1>4
  <2> QED BY <2>1, <2>2, <2>3, <2>4, <2>5
<1> QED BY <1>3, <1>6 DEF Balanced, new

\* While the loop of rb_insert_color goes on, there is a black grandparent.
LEMMA GrandparentIs ==
  ASSUME NEW edge, NEW bh, NEW sd, Good(Tree, keys, pc, node, above, edge, bh, sd), RedParent
  PROVE  /\ pc = "insert" /\ above = NULL /\ Balanced(Tree, keys, bh, NULL, sd) /\ sd \in Side
         /\ node \in keys /\ red[node] /\ parent[node] \in keys /\ red[parent[node]]
         /\ parent[node] # root /\ Gparent \in keys /\ ~red[Gparent]
         /\ ParentSide \in Side /\ child[ParentSide][Gparent] = parent[node]
         /\ Uncle \in keys \cup {NULL} /\ ~IsRed(Tree, root)
         /\ \A x \in keys : red[x] /\ IsRed(Tree, parent[x]) => x = node
<1> DEFINE p == parent[node]
           g == Gparent
<1>1. /\ Search(Tree, keys, edge) /\ Balanced(Tree, keys, bh, Hole(Tree, pc, node, above), sd)
      /\ Colours(Tree, keys, pc, node) /\ Loop(Tree, keys, pc, node, above, sd)
  BY DEF Good, Sound
<1>2. /\ Tree.root = root /\ Tree.child = child /\ Tree.parent = parent /\ Tree.red = red
      /\ \A x \in keys : x # NULL
  BY <1>1, TreeFields, KeyFacts
<1>3. pc = "insert" /\ above = NULL /\ node \in keys /\ red[node] /\ sd \in Side
  BY <1>1, <1>2 DEF RedParent, Loop
<1>4. Hole(Tree, pc, node, above) = NULL
  BY <1>3 DEF Hole
<1>5. p # NULL /\ red[p]
  BY <1>2 DEF RedParent, IsRed
<1>6. p \in keys /\ p # node /\ node # root
  BY <1>1, <1>2, <1>3, <1>5, RootIs, NotItsOwn DEF Search, ParentPart
<1>7. /\ ~IsRed(Tree, root) /\ p # root
      /\ \A x \in keys : red[x] /\ IsRed(Tree, parent[x]) => x = node
  <2>1. ~IsRed(Tree, root)
    BY <1>1, <1>2, <1>6 DEF Colours
  <2>2. p # root
    BY <1>2, <1>5, <2>1 DEF IsRed
  <2>3. \A x \in keys : red[x] /\ IsRed(Tree, parent[x]) => x = node
    BY <1>1, <1>2, <1>3 DEF Colours
  <2> QED BY <2>1, <2>2, <2>3
<1>8. g \in keys /\ \E d \in Side : child[d][g] = p
  BY <1>1, <1>2, <1>6, <1>7 DEF Search, ParentPart, Gparent
<1>9. ~red[g]
  <2>1. red[g] => IsRed(Tree, g)
    BY <1>2, <1>8 DEF IsRed
  <2>2. ~IsRed(Tree, g)
    BY <1>5, <1>6, <1>7 DEF Gparent
  <2> QED BY <2>1, <2>2
<1>10. ParentSide \in Side /\ child[ParentSide][g] = p
  BY <1>2, <1>8 DEF ParentSide, SideOf, Side
<1>11. Uncle \in keys \cup {NULL}
  <2>1. Other(ParentSide) \in Side
    BY <1>10, Sides
  <2> QED BY <1>1, <1>2, <1>8, <2>1 DEF Uncle, Search, ChildPart
<1> QED BY <1>1, <1>3, <1>4, <1>5, <1>6, <1>7, <1>8, <1>9, <1>10, <1>11

LEMMA RecolourKeeps == ASSUME IInv, Recolour PROVE IInv'
<1>1. PICK edge, bh, sd : Good(Tree, keys, pc, node, above, edge, bh, sd)
  BY DEF IInv
<1> DEFINE p == parent[node]
           g == Gparent
           u == Uncle
           v1 == SetRed(Tree, u, FALSE)
           v2 == SetRed(v1, p, FALSE)
           v == SetRed(v2, g, TRUE)
           new == [bh EXCEPT ![p] = bh[p] + 1, ![u] = bh[u] + 1]
<1>2. RedParent /\ IsRed(Tree, u) /\ BecomeTree(v) /\ node' = g /\ pc' = pc /\ above' = above /\ keys' = keys
  BY DEF Recolour
<1>3. /\ pc = "insert" /\ above = NULL /\ Balanced(Tree, keys, bh, NULL, sd) /\ sd \in Side
      /\ node \in keys /\ red[node] /\ p \in keys /\ red[p]
      /\ p # root /\ g \in keys /\ ~red[g] /\ ParentSide \in Side /\ child[ParentSide][g] = p
      /\ u \in keys \cup {NULL} /\ ~IsRed(Tree, root)
      /\ \A x \in keys : red[x] /\ IsRed(Tree, parent[x]) => x = node
  BY <1>1, <1>2, GrandparentIs
<1>4. Search(Tree, keys, edge) /\ Bare(Tree, keys)
  BY <1>1 DEF Good, Sound
<1>5. /\ Tree.root = root /\ Tree.child = child /\ Tree.parent = parent /\ Tree.red = red
      /\ \A x \in keys : x # NULL /\ x \in Node /\ x \in Pointer
      /\ Tree \in Trees /\ keys \subseteq Node
  BY <1>4, TreeFields, KeyFacts
<1>6. u # NULL /\ red[u] /\ u \in keys /\ u = child[Other(ParentSide)][g] /\ Other(ParentSide) \in Side
      /\ \A e \in Side : e = ParentSide \/ e = Other(ParentSide)
  <2>1. u # NULL /\ red[u]
    BY <1>2, <1>5 DEF IsRed
  <2>2. Other(ParentSide) \in Side /\ \A e \in Side : e = ParentSide \/ e = Other(ParentSide)
    BY <1>3, Sides
  <2> QED BY <1>3, <2>1, <2>2 DEF Uncle
<1>7. p # g /\ u # g /\ u # p /\ parent[p] = g /\ parent[u] = g
  <2>1. p # g /\ u # g
    BY <1>3, <1>6
  <2>2. u # p
    BY <1>3, <1>4, <1>5, <1>6, ChildrenDiffer
  <2>3. parent[p] = g /\ parent[u] = g
    BY <1>3, <1>4, <1>5, <1>6 DEF Search, ChildPart
  <2> QED BY <2>1, <2>2, <2>3
<1> HIDE DEF p, g, u
<1>8. /\ Painted(v, Tree, keys)
      /\ \A x \in Node : v.red[x] = IF x = g THEN TRUE ELSE IF x = p \/ x = u THEN FALSE ELSE red[x]
  <2>1. Painted(v1, Tree, keys) /\ NewRed(v1, Tree, u, FALSE)
    BY <1>3, <1>5, PaintIs
  <2> HIDE DEF v1
  <2>2. Painted(v2, v1, keys) /\ NewRed(v2, v1, p, FALSE)
    <3>1. v1 \in Trees /\ p \in keys \cup {NULL}
      BY <1>3, <2>1 DEF Painted
    <3> QED BY <1>5, <3>1, PaintIs
  <2> HIDE DEF v2
  <2>3. Painted(v, v2, keys) /\ NewRed(v, v2, g, TRUE)
    <3>1. v2 \in Trees /\ g \in keys \cup {NULL}
      BY <1>3, <2>2 DEF Painted
    <3> QED BY <1>5, <3>1, PaintIs
  <2> HIDE DEF v
  <2>4. Painted(v, Tree, keys)
    BY <2>1, <2>2, <2>3 DEF Painted
  <2>5. ASSUME NEW x \in Node
        PROVE  v.red[x] = IF x = g THEN TRUE ELSE IF x = p \/ x = u THEN FALSE ELSE red[x]
    BY <1>5, <2>1, <2>2, <2>3 DEF NewRed
  <2> QED BY <2>4, <2>5
<1> HIDE DEF v
<1>9. Search(v, keys, edge) /\ Bare(v, keys)
  BY <1>4, <1>8, PaintKeeps
<1>10. /\ v.root = root /\ v.child = child /\ v.parent = parent /\ v.red[g] = TRUE /\ v.red[p] = FALSE
       /\ v.red[u] = FALSE /\ \A x \in keys : x # g /\ x # p /\ x # u => v.red[x] = red[x]
  <2>1. v.root = root /\ v.child = child /\ v.parent = parent
    BY <1>5, <1>8 DEF Painted
  <2>2. v.red[g] = TRUE /\ v.red[p] = FALSE /\ v.red[u] = FALSE
    BY <1>3, <1>5, <1>6, <1>7, <1>8
  <2>3. \A x \in keys : x # g /\ x # p /\ x # u => v.red[x] = red[x]
    BY <1>5, <1>8
  <2> QED BY <2>1, <2>2, <2>3
<1>11. Balanced(v, keys, new, NULL, sd)
  <2>1. /\ bh \in [Pointer -> Nat \ {0}] /\ bh[NULL] = 1
        /\ \A x \in keys : \A e \in Side :
             bh[x] = bh[child[e][x]] + (IF x = NULL /\ e = sd THEN 1 ELSE 0) + (IF red[x] THEN 0 ELSE 1)
    BY <1>3, <1>5 DEF Balanced
  <2>2. /\ new \in [Pointer -> Nat \ {0}] /\ new[NULL] = 1 /\ new[p] = bh[p] + 1 /\ new[u] = bh[u] + 1
        /\ \A x \in Pointer : x # p /\ x # u => new[x] = bh[x]
    <3>1. p \in Pointer /\ u \in Pointer /\ u # p /\ p # NULL /\ u # NULL /\ NULL \in Pointer
      BY <1>3, <1>5, <1>6, <1>7, Numbers
    <3>2. bh[p] + 1 \in Nat \ {0} /\ bh[u] + 1 \in Nat \ {0}
      BY <2>1, <3>1
    <3>3. new \in [Pointer -> Nat \ {0}]
      BY <2>1, <3>2
    <3> QED BY <2>1, <3>1, <3>3
  <2> HIDE DEF new
  <2>3. \A x \in keys : \A e \in Side : child[e][x] \in Pointer /\ bh[child[e][x]] \in Nat
    BY <1>4, <1>5, <2>1, Fields DEF Search
  <2>4. \A x \in keys : \A e \in Side : x # g => child[e][x] # p /\ child[e][x] # u
    BY <1>3, <1>4, <1>5, <1>6, <1>7 DEF Search, ChildPart
  <2>5. ASSUME NEW x \in keys, NEW e \in Side
        PROVE  new[x] = new[child[e][x]] + (IF x = NULL /\ e = sd THEN 1 ELSE 0) + (IF v.red[x] THEN 0 ELSE 1)
    <3>1. bh[x] = bh[child[e][x]] + 0 + (IF red[x] THEN 0 ELSE 1) /\ ~(x = NULL)
      BY <1>5, <2>1
    <3>2. CASE x = g
      <4>1. child[e][x] = p \/ child[e][x] = u
        BY <1>3, <1>6, <3>2
      <4>2. new[child[e][x]] = bh[child[e][x]] + 1
        BY <2>2, <4>1
      <4>3. new[x] = bh[x]
        BY <1>5, <1>7, <2>2, <3>2
      <4> QED BY <1>3, <1>10, <2>3, <3>1, <3>2, <4>2, <4>3
    <3>3. CASE x = p \/ x = u
      <4>1. new[child[e][x]] = bh[child[e][x]] /\ new[x] = bh[x] + 1
        BY <1>7, <2>2, <2>3, <2>4, <3>3
      <4>2. red[x] /\ ~v.red[x]
        BY <1>3, <1>6, <1>10, <3>3
      <4> QED BY <2>3, <3>1, <4>1, <4>2
    <3>4. CASE x # g /\ x # p /\ x # u
      <4>1. new[child[e][x]] = bh[child[e][x]] /\ new[x] = bh[x]
        BY <1>5, <2>2, <2>3, <2>4, <3>4
      <4>2. v.red[x] = red[x]
        BY <1>10, <3>4
      <4> QED BY <2>3, <3>1, <4>1, <4>2
    <3> QED BY <3>2, <3>3, <3>4
  <2> QED BY <1>10, <2>2, <2>5 DEF Balanced
<1>12. Colours(v, keys, pc, g)
  <2>1. IsRed(v, root) => root = g
    <3>1. root \in keys /\ root # p
      BY <1>3, <1>4, <1>5, RootIs
    <3>2. ~red[root]
      BY <1>3, <1>5, <3>1 DEF IsRed
    <3> QED BY <1>10, <3>1, <3>2 DEF IsRed
  <2>2. ASSUME NEW x \in keys, v.red[x], IsRed(v, parent[x]) PROVE x = g
    <3>1. SUFFICES ASSUME x # g PROVE FALSE
      OBVIOUS
    <3>2. x # p /\ x # u /\ red[x]
      BY <1>10, <2>2, <3>1
    <3>3. parent[x] # g
      <4>1. x # root
        BY <1>3, <1>5, <3>2 DEF IsRed
      <4>2. \E e \in Side : child[e][parent[x]] = x
        BY <1>4, <1>5, <4>1 DEF Search, ParentPart
      <4> QED BY <1>3, <1>6, <3>2, <4>2
    <3>4. parent[x] # NULL /\ v.red[parent[x]] /\ parent[x] \in keys
      BY <1>4, <1>5, <2>2, RootIs DEF IsRed, Search, ParentPart
    <3>5. IsRed(Tree, parent[x])
      BY <1>5, <1>10, <3>3, <3>4 DEF IsRed
    <3>6. x = node
      BY <1>3, <3>2, <3>5
    <3> QED BY <1>10, <3>4, <3>6 DEF p
  <2> QED BY <1>3, <1>10, <2>1, <2>2 DEF Colours
<1>13. Loop(v, keys, pc, g, above, sd)
  BY <1>3, <1>10 DEF Loop
<1>14. Hole(v, pc, g, above) = NULL
  BY <1>3 DEF Hole
<1>15. Good(v, keys', pc', node', above', edge, new, sd)
  BY <1>2, <1>9, <1>11, <1>12, <1>13, <1>14 DEF Good, Sound
<1> QED BY <1>2, <1>15, Kept

LEMMA InsertDoneKeeps == ASSUME IInv, InsertDone PROVE IInv'
<1>1. PICK edge, bh, sd : Good(Tree, keys, pc, node, above, edge, bh, sd)
  BY DEF IInv
<1> DEFINE v == SetRed(Tree, root, FALSE)
           new == [bh EXCEPT ![root] = bh[root] + (IF Tree.red[root] THEN 1 ELSE 0)]
<1>2. /\ pc = "insert" /\ ~IsRed(Tree, parent[node]) /\ BecomeTree(v) /\ pc' = "idle" /\ node' = NULL
      /\ above' = above /\ keys' = keys
  BY DEF InsertDone
<1>3. /\ Search(Tree, keys, edge) /\ Bare(Tree, keys) /\ Balanced(Tree, keys, bh, Hole(Tree, pc, node, above), sd)
      /\ Colours(Tree, keys, pc, node) /\ Loop(Tree, keys, pc, node, above, sd)
  BY <1>1 DEF Good, Sound
<1>4. /\ Tree.root = root /\ Tree.child = child /\ Tree.parent = parent /\ Tree.red = red
      /\ \A x \in keys : x # NULL /\ x \in Node /\ x \in Pointer
      /\ Tree \in Trees /\ keys \subseteq Node
  BY <1>3, TreeFields, KeyFacts
<1>5. node \in keys /\ above = NULL /\ sd \in Side /\ root \in keys /\ Hole(Tree, pc, node, above) = NULL
  BY <1>2, <1>3, <1>4, RootIs DEF Loop, Hole
<1>6. Painted(v, Tree, keys) /\ NewRed(v, Tree, root, FALSE)
  BY <1>4, <1>5, PaintIs
<1>7. Balanced(v, keys, new, NULL, sd)
  BY <1>3, <1>4, <1>5, <1>6, BlackenKeeps
<1> HIDE DEF v
<1>8. Search(v, keys, edge) /\ Bare(v, keys)
  BY <1>3, <1>6, PaintKeeps
<1>9. v.root = root /\ v.parent = parent /\ \A x \in Node : v.red[x] = IF x = root THEN FALSE ELSE red[x]
  BY <1>4, <1>6 DEF NewRed
<1>10. Colours(v, keys, "idle", NULL)
  <2>1. ~IsRed(v, v.root)
    BY <1>4, <1>5, <1>9 DEF IsRed
  <2>2. ASSUME NEW x \in keys, v.red[x], IsRed(v, parent[x]) PROVE FALSE
    <3>1. red[x] /\ x # root
      BY <1>4, <1>9, <2>2
    <3>2. parent[x] # NULL /\ parent[x] \in keys /\ v.red[parent[x]]
      BY <1>3, <1>4, <2>2, <3>1 DEF IsRed, Search, ParentPart
    <3>3. IsRed(Tree, parent[x])
      BY <1>4, <1>9, <3>2 DEF IsRed
    <3>4. x = node
      BY <1>2, <1>3, <1>4, <3>1, <3>3 DEF Colours
    <3> QED BY <1>2, <3>3, <3>4
  <2> QED BY <1>9, <2>1, <2>2 DEF Colours
<1>11. Loop(v, keys, "idle", NULL, above, sd) /\ Hole(v, "idle", NULL, above) = NULL
  BY <1>5 DEF Loop, Hole
<1>12. Good(v, keys', pc', node', above', edge, new, sd)
  BY <1>2, <1>7, <1>8, <1>10, <1>11 DEF Good, Sound
<1> QED BY <1>2, <1>12, Kept

LEMMA EraseDoneKeeps == ASSUME IInv, EraseDone PROVE IInv'
<1>1. PICK edge, bh, sd : Good(Tree, keys, pc, node, above, edge, bh, sd)
  BY DEF IInv
<1> DEFINE v == SetRed(Tree, node, FALSE)
           new == [bh EXCEPT ![node] = bh[node] + (IF Tree.red[node] THEN 1 ELSE 0)]
<1>2. /\ pc = "erase" /\ (IsRed(Tree, node) \/ node = root) /\ BecomeTree(v) /\ pc' = "idle"
      /\ node' = NULL /\ above' = NULL /\ keys' = keys
  BY DEF EraseDone
<1>3. /\ Search(Tree, keys, edge) /\ Bare(Tree, keys) /\ Balanced(Tree, keys, bh, Hole(Tree, pc, node, above), sd)
      /\ Colours(Tree, keys, pc, node) /\ Loop(Tree, keys, pc, node, above, sd)
  BY <1>1 DEF Good, Sound
<1>4. /\ Tree.root = root /\ Tree.child = child /\ Tree.parent = parent /\ Tree.red = red
      /\ \A x \in keys : x # NULL /\ x \in Node /\ x \in Pointer
      /\ Tree \in Trees /\ keys \subseteq Node
  BY <1>3, TreeFields, KeyFacts
<1>5. node \in keys \cup {NULL} /\ sd \in Side
  BY <1>2, <1>3 DEF Loop
<1>6. Painted(v, Tree, keys) /\ NewRed(v, Tree, node, FALSE)
  BY <1>4, <1>5, PaintIs
<1> HIDE DEF v
<1>7. Search(v, keys, edge) /\ Bare(v, keys)
  BY <1>3, <1>6, PaintKeeps
<1>8. /\ v.root = root /\ v.parent = parent /\ v.child = child
      /\ \A x \in Node : v.red[x] = IF x = node THEN FALSE ELSE red[x]
  BY <1>4, <1>6 DEF NewRed
<1>9. Colours(v, keys, "idle", NULL)
  <2>1. ~IsRed(v, v.root)
    <3>1. SUFFICES ASSUME IsRed(v, root) PROVE FALSE
      BY <1>8
    <3>2. root \in keys /\ v.red[root]
      BY <1>3, <1>4, <3>1, RootIs DEF IsRed
    <3>3. IsRed(Tree, root) /\ root # node
      BY <1>4, <1>8, <3>2 DEF IsRed
    <3> QED BY <1>3, <1>4, <3>3 DEF Colours
  <2>2. ASSUME NEW x \in keys, v.red[x], IsRed(v, parent[x]) PROVE FALSE
    <3>1. red[x] /\ x # node
      BY <1>4, <1>8, <2>2
    <3>2. parent[x] # NULL /\ parent[x] \in keys /\ v.red[parent[x]]
      BY <1>3, <1>4, <2>2, RootIs DEF IsRed, Search, ParentPart
    <3>3. IsRed(Tree, parent[x]) /\ parent[x] # node
      BY <1>4, <1>8, <3>2 DEF IsRed
    <3> QED BY <1>3, <1>4, <3>1, <3>3 DEF Colours
  <2> QED BY <1>8, <2>1, <2>2 DEF Colours
<1>10. Loop(v, keys, "idle", NULL, NULL, sd) /\ Hole(v, "idle", NULL, NULL) = NULL
  BY <1>5 DEF Loop, Hole
<1>11. \E b : Balanced(v, keys, b, NULL, sd)
  <2>1. CASE node = NULL
    <3>1. keys = {}
      BY <1>2, <1>3, <1>4, <2>1, RootIs DEF IsRed
    <3> QED BY <1>3, <3>1 DEF Balanced
  <2>2. CASE node # NULL /\ node = root
    <3>1. Hole(Tree, pc, node, above) = NULL /\ node \in keys
      BY <1>4, <1>5, <2>2 DEF Hole
    <3>2. Balanced(v, keys, new, NULL, sd)
      BY <1>3, <1>4, <1>6, <2>2, <3>1, BlackenKeeps
    <3> QED BY <3>2
  <2>3. CASE node # NULL /\ node # root
    <3>1. Hole(Tree, pc, node, above) = above /\ node \in keys /\ above \in keys /\ child[sd][above] = node
      BY <1>2, <1>3, <1>4, <1>5, <2>3 DEF Hole, Loop
    <3>2. red[node]
      BY <1>2, <1>4, <2>3 DEF IsRed
    <3>3. Balanced(v, keys, new, NULL, sd)
      <4>1. above \in keys /\ sd \in Side /\ Tree.child[sd][above] = node /\ Tree.red[node]
        BY <1>4, <1>5, <3>1, <3>2
      <4>2. Search(Tree, keys, edge) /\ Balanced(Tree, keys, bh, above, sd) /\ node \in keys
        BY <1>3, <3>1
      <4> QED BY <1>6, <4>1, <4>2, BlackenKeeps
    <3> QED BY <3>3
  <2> QED BY <2>1, <2>2, <2>3
<1>12. PICK b : Balanced(v, keys, b, NULL, sd)
  BY <1>11
<1>13. Good(v, keys', pc', node', above', edge, b, sd)
  BY <1>2, <1>7, <1>9, <1>10, <1>12 DEF Good, Sound
<1> QED BY <1>2, <1>13, Kept

\* While the loop of __rb_erase_color goes on, the node has a sibling, and the
\* colours are in order.
LEMMA SiblingIs ==
  ASSUME NEW edge, NEW bh, NEW sd, Good(Tree, keys, pc, node, above, edge, bh, sd), Lacking
  PROVE  /\ pc = "erase" /\ sd \in Side /\ LackSide = sd /\ Other(sd) \in Side
         /\ node \in keys \cup {NULL} /\ node # root /\ above \in keys /\ child[sd][above] = node
         /\ Sibling \in keys /\ Sibling = child[Other(sd)][above] /\ parent[Sibling] = above
         /\ Sibling # above /\ Sibling # node /\ above # node
         /\ Balanced(Tree, keys, bh, above, sd) /\ bh[Sibling] >= 2
         /\ ~IsRed(Tree, node) /\ ~IsRed(Tree, root)
         /\ \A x \in keys : ~(red[x] /\ IsRed(Tree, parent[x]))
<1>1. /\ Search(Tree, keys, edge) /\ Balanced(Tree, keys, bh, Hole(Tree, pc, node, above), sd)
      /\ Colours(Tree, keys, pc, node) /\ Loop(Tree, keys, pc, node, above, sd)
  BY DEF Good, Sound
<1>2. /\ Tree.root = root /\ Tree.child = child /\ Tree.parent = parent /\ Tree.red = red
      /\ \A x \in keys : x # NULL /\ x \in Node /\ x \in Pointer
  BY <1>1, TreeFields, KeyFacts
<1>3. pc = "erase" /\ ~IsRed(Tree, node) /\ node # root
  BY DEF Lacking
<1>4. /\ sd \in Side /\ node \in keys \cup {NULL} /\ above \in keys /\ child[sd][above] = node
      /\ Hole(Tree, pc, node, above) = above
  BY <1>1, <1>2, <1>3 DEF Loop, Hole
<1>5. LackSide = sd
  BY <1>1, <1>2, <1>4, LackSideIs DEF LackSide
<1>6. Other(sd) \in Side /\ Other(sd) # sd
  BY <1>4, Sides
<1>7. Sibling = child[Other(sd)][above] /\ bh[Sibling] = bh[node] + 1 /\ bh[node] \in Nat \ {0}
  <2>1. Sibling = child[Other(sd)][above]
    BY <1>5 DEF Sibling
  <2>2. bh[above] = bh[node] + 1 + (IF red[above] THEN 0 ELSE 1)
    BY <1>1, <1>2, <1>4 DEF Balanced
  <2>3. bh[above] = bh[Sibling] + 0 + (IF red[above] THEN 0 ELSE 1)
    BY <1>1, <1>2, <1>4, <1>6, <2>1 DEF Balanced
  <2>4. Sibling \in Pointer /\ node \in Pointer
    <3>1. \A x \in Node : \A e \in Side : child[e][x] \in Pointer
      BY <1>1, <1>2, Fields DEF Search
    <3> QED BY <1>2, <1>4, <1>6, <2>1, <3>1
  <2>5. bh[Sibling] \in Nat /\ bh[node] \in Nat \ {0}
    BY <1>1, <2>4 DEF Balanced
  <2> QED BY <2>1, <2>2, <2>3, <2>5
<1>8. Sibling # NULL /\ bh[Sibling] >= 2
  BY <1>1, <1>7 DEF Balanced
<1>9. Sibling \in keys /\ parent[Sibling] = above
  BY <1>1, <1>2, <1>4, <1>6, <1>7, <1>8 DEF Search, ChildPart
<1>10. Sibling # above /\ Sibling # node /\ above # node
  <2>1. Sibling # above /\ above # node
    BY <1>1, <1>2, <1>4, <1>6, <1>7, NotItsOwn
  <2>2. Sibling # node
    BY <1>7, <1>8
  <2> QED BY <2>1, <2>2
<1>11. ~IsRed(Tree, root) /\ \A x \in keys : ~(red[x] /\ IsRed(Tree, parent[x]))
  <2>1. ~IsRed(Tree, root)
    BY <1>1, <1>2, <1>3 DEF Colours
  <2>2. \A x \in keys : red[x] => IsRed(Tree, x)
    BY <1>2 DEF IsRed
  <2>3. \A x \in keys : red[x] /\ IsRed(Tree, parent[x]) => node = x \/ node = parent[x]
    BY <1>1, <1>2 DEF Colours
  <2> QED BY <1>3, <2>1, <2>2, <2>3
<1> QED BY <1>1, <1>3, <1>4, <1>5, <1>6, <1>7, <1>8, <1>9, <1>10, <1>11

LEMMA EraseRecolourKeeps == ASSUME IInv, EraseRecolour PROVE IInv'
<1>1. PICK edge, bh, sd : Good(Tree, keys, pc, node, above, edge, bh, sd)
  BY DEF IInv
<1> DEFINE s == Sibling
           far == Other(sd)
           v == SetRed(Tree, s, TRUE)
           new == [bh EXCEPT ![s] = bh[s] - 1, ![above] = bh[above] - 1]
<1>2. /\ Lacking /\ ~IsRed(Tree, s) /\ \A d \in Side : ~IsRed(Tree, child[d][s])
      /\ BecomeTree(v) /\ node' = above /\ above' = parent[above] /\ pc' = pc /\ keys' = keys
  BY DEF EraseRecolour, NephewsBlack
<1>3. Search(Tree, keys, edge) /\ Bare(Tree, keys)
  BY <1>1 DEF Good, Sound
<1>4. /\ Tree.root = root /\ Tree.child = child /\ Tree.parent = parent /\ Tree.red = red
      /\ \A x \in keys : x # NULL /\ x \in Node /\ x \in Pointer
      /\ Tree \in Trees /\ keys \subseteq Node
  BY <1>3, TreeFields, KeyFacts
<1>5. /\ pc = "erase" /\ sd \in Side /\ far \in Side
      /\ node \in keys \cup {NULL} /\ node # root /\ above \in keys /\ child[sd][above] = node
      /\ s \in keys /\ s = child[far][above] /\ parent[s] = above
      /\ s # above /\ s # node /\ above # node
      /\ Balanced(Tree, keys, bh, above, sd) /\ bh[s] >= 2 /\ ~IsRed(Tree, root)
      /\ \A x \in keys : ~(red[x] /\ IsRed(Tree, parent[x]))
  BY <1>1, <1>2, SiblingIs
<1>6. far # sd /\ (\A e \in Side : e = sd \/ e = far)
  BY <1>5, Sides
<1> HIDE DEF s, far
<1>7. Painted(v, Tree, keys) /\ NewRed(v, Tree, s, TRUE)
  BY <1>4, <1>5, PaintIs
<1> HIDE DEF v
<1>8. Search(v, keys, edge) /\ Bare(v, keys)
  BY <1>3, <1>7, PaintKeeps
<1>9. /\ v.root = root /\ v.parent = parent /\ v.child = child
      /\ v.red[s] = TRUE /\ \A x \in keys : x # s => v.red[x] = red[x]
  BY <1>4, <1>5, <1>7 DEF NewRed
<1>10. ~red[s] /\ s # root
  <2>1. ~red[s]
    BY <1>2, <1>4, <1>5 DEF IsRed
  <2>2. s # root
    BY <1>3, <1>4, <1>5, RootIs
  <2> QED BY <2>1, <2>2
<1>11. PICK new_sd \in Side : above # root => /\ parent[above] \in keys /\ child[new_sd][parent[above]] = above
                                              /\ \A e \in Side : child[e][parent[above]] = above => e = new_sd
  <2>1. CASE above = root
    BY <1>5, <2>1
  <2>2. CASE above # root
    <3>1. parent[above] \in keys
      BY <1>3, <1>4, <1>5, <2>2 DEF Search, ParentPart
    <3>2. PICK e \in Side : child[e][parent[above]] = above
      BY <1>3, <1>4, <1>5, <2>2 DEF Search, ParentPart
    <3>3. child[Other(e)][parent[above]] # above
      BY <1>3, <1>4, <1>5, <3>1, <3>2, ChildrenDiffer
    <3>4. \A f \in Side : f = e \/ f = Other(e)
      BY Sides
    <3> QED BY <3>1, <3>2, <3>3, <3>4
  <2> QED BY <2>1, <2>2
<1>12. \A x \in keys : \A e \in Side : child[e][x] = above =>
         x = parent[above] /\ above # root /\ e = new_sd
  <2>1. \A x \in keys : \A e \in Side : child[e][x] = above => x = parent[above]
    BY <1>3, <1>4, <1>5 DEF Search, ChildPart
  <2>2. above = root => parent[above] \notin keys
    BY <1>3, <1>4, RootIs
  <2> QED BY <1>11, <2>1, <2>2
<1>13. Hole(v, pc, above, parent[above]) = IF above = root THEN NULL ELSE parent[above]
  BY <1>5, <1>9 DEF Hole
<1>14. Balanced(v, keys, new, Hole(v, pc, above, parent[above]), new_sd)
  <2> DEFINE h == Hole(v, pc, above, parent[above])
  <2>1. /\ bh \in [Pointer -> Nat \ {0}] /\ bh[NULL] = 1
        /\ \A x \in keys : \A e \in Side :
             bh[x] = bh[child[e][x]] + (IF x = above /\ e = sd THEN 1 ELSE 0) + (IF red[x] THEN 0 ELSE 1)
    BY <1>4, <1>5 DEF Balanced
  <2>2. bh[above] = bh[s] + (IF red[above] THEN 0 ELSE 1) /\ bh[s] \in Nat
    <3>1. bh[above] = bh[s] + 0 + (IF red[above] THEN 0 ELSE 1)
      BY <1>5, <1>6, <2>1
    <3>2. bh[s] \in Nat
      BY <1>4, <1>5, <2>1
    <3> QED BY <3>1, <3>2
  <2>3. /\ new \in [Pointer -> Nat \ {0}] /\ new[NULL] = 1 /\ new[s] = bh[s] - 1 /\ new[above] = bh[above] - 1
        /\ \A x \in Pointer : x # s /\ x # above => new[x] = bh[x]
    <3>1. s \in Pointer /\ above \in Pointer /\ s # NULL /\ above # NULL /\ NULL \in Pointer
      BY <1>4, <1>5, Numbers
    <3>2. bh[s] - 1 \in Nat \ {0}
      BY <1>5, <2>2
    <3>3. bh[above] - 1 \in Nat \ {0}
      BY <1>5, <2>2
    <3>4. new \in [Pointer -> Nat \ {0}]
      BY <2>1, <3>2, <3>3
    <3> QED BY <1>5, <2>1, <3>1, <3>4
  <2> HIDE DEF new
  <2>4. \A x \in keys : \A e \in Side : child[e][x] \in Pointer /\ bh[child[e][x]] \in Nat
    BY <1>3, <1>4, <2>1, Fields DEF Search
  <2>5. \A x \in keys : \A e \in Side : child[e][x] = s => x = above
    BY <1>3, <1>4, <1>5 DEF Search, ChildPart
  <2>6. ASSUME NEW x \in keys, NEW e \in Side
        PROVE  new[x] = new[child[e][x]] + (IF x = h /\ e = new_sd THEN 1 ELSE 0) + (IF v.red[x] THEN 0 ELSE 1)
    <3>1. (x = h /\ e = new_sd) <=> child[e][x] = above
      <4>1. child[e][x] = above => x = h /\ e = new_sd
        BY <1>12, <1>13
      <4>2. x = h => above # root /\ x = parent[above]
        BY <1>4, <1>13
      <4> QED BY <1>11, <4>1, <4>2
    <3>2. CASE x = s
      <4>1. child[e][x] # s /\ child[e][x] # above
        <5>1. parent[above] # s
          BY <1>3, <1>4, <1>5, NoCycle
        <5> QED BY <1>5, <1>12, <2>5, <3>2, <5>1
      <4>2. bh[s] = bh[child[e][x]] + 0 + 1
        BY <1>5, <1>10, <2>1, <3>2
      <4>3. new[child[e][x]] = bh[child[e][x]] /\ ~(x = h /\ e = new_sd) /\ v.red[x]
        BY <1>9, <2>3, <2>4, <3>1, <3>2, <4>1
      <4> QED BY <2>3, <2>4, <3>2, <4>2, <4>3
    <3>3. CASE x = above
      <4>1. child[e][x] # above /\ v.red[x] = red[x]
        BY <1>3, <1>4, <1>5, <1>9, <3>3, NotItsOwn
      <4>2. CASE e = sd
        <5>1. new[child[e][x]] = bh[child[e][x]]
          BY <1>5, <2>3, <2>4, <3>3, <4>1, <4>2
        <5>2. bh[x] = bh[child[e][x]] + 1 + (IF red[x] THEN 0 ELSE 1)
          BY <2>1, <3>3, <4>2
        <5> QED BY <2>3, <2>4, <3>1, <3>3, <4>1, <5>1, <5>2
      <4>3. CASE e = far
        <5>1. child[e][x] = s
          BY <1>5, <3>3, <4>3
        <5> QED BY <2>2, <2>3, <3>1, <3>3, <4>1, <5>1
      <4> QED BY <1>6, <4>2, <4>3
    <3>4. CASE x # s /\ x # above
      <4>1. child[e][x] # s /\ new[x] = bh[x] /\ v.red[x] = red[x]
        BY <1>4, <1>9, <2>3, <2>5, <3>4
      <4>2. bh[x] = bh[child[e][x]] + 0 + (IF red[x] THEN 0 ELSE 1)
        BY <2>1, <3>4
      <4>3. CASE child[e][x] = above
        <5>1. bh[x] = bh[above] + (IF red[x] THEN 0 ELSE 1) /\ bh[above] \in Nat
          BY <2>4, <4>2, <4>3
        <5>2. new[child[e][x]] = bh[above] - 1
          BY <2>3, <4>3
        <5> QED BY <3>1, <4>1, <4>3, <5>1, <5>2
      <4>4. CASE child[e][x] # above
        <5>1. new[child[e][x]] = bh[child[e][x]]
          BY <2>3, <2>4, <4>1, <4>4
        <5> QED BY <2>4, <3>1, <4>1, <4>2, <4>4, <5>1
      <4> QED BY <4>3, <4>4
    <3> QED BY <3>2, <3>3, <3>4
  <2> QED BY <1>9, <2>3, <2>6 DEF Balanced
<1>15. Colours(v, keys, pc, above)
  <2>1. ~IsRed(v, v.root)
    <3>1. root \in keys
      BY <1>3, <1>4, <1>5, RootIs
    <3> QED BY <1>4, <1>5, <1>9, <1>10, <3>1 DEF IsRed
  <2>2. ASSUME NEW x \in keys, v.red[x], IsRed(v, parent[x])
        PROVE  above = parent[x]
    <3>1. CASE x = s
      BY <1>5, <3>1
    <3>2. CASE x # s
      <4>1. red[x] /\ parent[x] \in keys /\ v.red[parent[x]]
        BY <1>3, <1>4, <1>9, <2>2, <3>2, RootIs DEF IsRed, Search, ParentPart
      <4>2. CASE parent[x] = s
        <5>1. x # root
          BY <1>3, <1>4, <1>5, <4>2, RootIs
        <5>2. \E e \in Side : child[e][s] = x
          BY <1>3, <1>4, <4>2, <5>1 DEF Search, ParentPart
        <5> QED BY <1>2, <1>4, <4>1, <5>2 DEF IsRed
      <4>3. CASE parent[x] # s
        BY <1>4, <1>5, <1>9, <4>1, <4>3 DEF IsRed
      <4> QED BY <4>2, <4>3
    <3> QED BY <3>1, <3>2
  <2> QED BY <1>5, <1>9, <2>1, <2>2 DEF Colours
<1>16. Loop(v, keys, pc, above, parent[above], new_sd)
  <2>1. parent[above] \in keys \cup {NULL}
    <3>1. above = root => parent[above] = NULL
      BY <1>3, <1>4, <1>5, RootIs
    <3> QED BY <1>11, <3>1
  <2> QED BY <1>5, <1>9, <1>11, <2>1 DEF Loop
<1>17. Good(v, keys', pc', node', above', edge, new, new_sd)
  BY <1>2, <1>8, <1>14, <1>15, <1>16 DEF Good, Sound
<1> QED BY <1>2, <1>17, Kept

\* What that does to the links and the colours: which nodes can now be red next
\* to a red parent.
Swung(v, t, ks, n, d, m) ==
  /\ v.root = IF t.root = n THEN m ELSE t.root
  /\ \A x \in ks : \A e \in Side :
       v.child[e][x] = IF t.child[e][x] = n THEN m
                       ELSE IF x = m /\ e = d THEN n
                       ELSE IF x = n /\ e = Other(d) THEN t.child[d][m] ELSE t.child[e][x]
  /\ v.red[n] = TRUE /\ v.red[m] = t.red[n] /\ \A x \in ks : x # n /\ x # m => v.red[x] = t.red[x]
  /\ IsRed(v, v.root) => IsRed(t, t.root)
  /\ \A x \in ks : v.red[x] /\ IsRed(v, v.parent[x]) =>
       \/ x # n /\ x # m /\ t.red[x] /\ IsRed(t, t.parent[x])
       \/ x = m /\ t.red[n] /\ IsRed(t, t.parent[n])
       \/ x = n /\ t.red[n]
       \/ x = t.child[d][n] /\ t.red[x]

LEMMA SwungIs ==
  ASSUME NEW t, NEW ks, NEW edge, Search(t, ks, edge), Bare(t, ks),
         NEW n \in ks, NEW d \in Side, NEW m, m = t.child[Other(d)][n], m # NULL, t.red[m],
         NEW u, Swapped(u, t, n, m), NEW v, Rotated(v, u, ks, n, d, m, t.child[d][m])
  PROVE  Swung(v, t, ks, n, d, m) /\ Bare(v, ks)
<1> DEFINE c == t.child[d][m]
<1>1. /\ u \in Trees /\ u.root = t.root /\ u.child = t.child /\ u.parent = t.parent
      /\ u.red[n] = TRUE /\ u.red[m] = t.red[n] /\ \A x \in Node : x # n /\ x # m => u.red[x] = t.red[x]
  BY DEF Swapped
<1>2. /\ \A x \in ks : x \in Node /\ x # NULL
      /\ m \in ks /\ m # n /\ t.parent[m] = n /\ m # t.root
  <2>1. Other(d) \in Side
    BY Sides
  <2>2. m \in ks /\ m # n /\ t.parent[m] = n /\ m # t.root
    BY <2>1, NoCycle
  <2> QED BY <2>2, KeyFacts
<1>3. c \in ks \cup {NULL} /\ (c # NULL => t.parent[c] = m)
  BY <1>2 DEF Search, ChildPart
<1> HIDE DEF c
<1>4. /\ v.root = IF t.root = n THEN m ELSE t.root
      /\ \A x \in ks : \A e \in Side :
           v.child[e][x] = IF t.child[e][x] = n THEN m
                           ELSE IF x = m /\ e = d THEN n
                           ELSE IF x = n /\ e = Other(d) THEN c ELSE t.child[e][x]
  BY <1>1, <1>2 DEF Rotated, c
<1>5. v.red[n] = TRUE /\ v.red[m] = t.red[n] /\ \A x \in ks : x # n /\ x # m => v.red[x] = t.red[x]
  <2>1. v.red = u.red
    BY DEF Rotated
  <2> QED BY <1>1, <1>2, <2>1
<1>6. \A x \in ks : v.parent[x] = IF x = n THEN m ELSE IF x = m THEN t.parent[n]
                                  ELSE IF x = c THEN n ELSE t.parent[x]
  BY <1>1, <1>2 DEF Rotated, c
<1>7. t.root \in ks /\ t.parent[t.root] = NULL
  BY RootIs
<1>8. IsRed(v, v.root) => IsRed(t, t.root)
  <2>1. CASE t.root = n
    BY <1>2, <1>4, <1>5, <2>1 DEF IsRed
  <2>2. CASE t.root # n
    BY <1>2, <1>4, <1>5, <1>7, <2>2 DEF IsRed
  <2> QED BY <2>1, <2>2
<1>9. ASSUME NEW x \in ks, v.red[x], IsRed(v, v.parent[x])
      PROVE  \/ x # n /\ x # m /\ t.red[x] /\ IsRed(t, t.parent[x])
             \/ x = m /\ t.red[n] /\ IsRed(t, t.parent[n])
             \/ x = n /\ t.red[n]
             \/ x = t.child[d][n] /\ t.red[x]
  <2>1. CASE x = n
    BY <1>5, <1>6, <1>9, <2>1 DEF IsRed
  <2>2. CASE x = m
    <3>1. v.parent[x] = t.parent[n] /\ t.red[n]
      BY <1>2, <1>5, <1>6, <1>9, <2>2
    <3>2. t.parent[n] # NULL /\ t.parent[n] \in ks /\ t.parent[n] # n /\ v.red[t.parent[n]]
      BY <1>7, <1>9, <3>1, NotItsOwn DEF IsRed, Search, ParentPart
    <3>3. t.parent[n] # m
      <4>1. Other(d) \in Side
        BY Sides
      <4> QED BY <4>1, NoCycle
    <3>4. IsRed(t, t.parent[n])
      BY <1>5, <3>2, <3>3 DEF IsRed
    <3> QED BY <2>2, <3>1, <3>4
  <2>3. CASE x # n /\ x # m /\ x = c
    <3>1. t.red[x] /\ t.parent[x] = m
      BY <1>2, <1>3, <1>5, <1>9, <2>3
    <3> QED BY <1>2, <2>3, <3>1 DEF IsRed
  <2>4. CASE x # n /\ x # m /\ x # c
    <3>1. t.red[x] /\ v.parent[x] = t.parent[x]
      BY <1>5, <1>6, <1>9, <2>4
    <3>2. t.parent[x] # NULL /\ t.parent[x] \in ks /\ v.red[t.parent[x]] /\ x # t.root
      BY <1>7, <1>9, <3>1 DEF IsRed, Search, ParentPart
    <3>3. CASE t.parent[x] = n
      <4>1. PICK e \in Side : t.child[e][n] = x
        BY <3>2, <3>3 DEF Search, ParentPart
      <4>2. e = d \/ e = Other(d)
        BY Sides
      <4>3. x = t.child[d][n]
        BY <2>4, <4>1, <4>2
      <4> QED BY <3>1, <4>3
    <3>4. CASE t.parent[x] = m
      BY <1>2, <2>4, <3>1, <3>4 DEF IsRed
    <3>5. CASE t.parent[x] # n /\ t.parent[x] # m
      BY <1>5, <2>4, <3>1, <3>2, <3>5 DEF IsRed
    <3> QED BY <3>3, <3>4, <3>5
  <2> QED BY <2>1, <2>2, <2>3, <2>4
<1>10. Bare(v, ks)
  <2>1. Bare(u, ks)
    BY <1>1, <1>2 DEF Bare
  <2> QED BY <1>2, <1>3, <2>1, TurnBare DEF c
<1> QED BY <1>4, <1>5, <1>8, <1>9, <1>10 DEF Swung, c

\* The code colours the two nodes before it rotates.
LEMMA SwappedIs ==
  ASSUME NEW t \in Trees, NEW n \in Node, NEW m \in Node, m # n, t.red[m], ~t.red[n]
  PROVE  Swapped(SetRed(SetRed(t, m, FALSE), n, TRUE), t, n, m)
<1> DEFINE w == SetRed(t, m, FALSE)
           u == SetRed(w, n, TRUE)
<1>1. m \in Pointer /\ n \in Pointer /\ t.red[n] \in BOOLEAN
  BY Numbers DEF Trees
<1>2. NewRed(w, t, m, FALSE)
  BY <1>1, SetRedIs
<1> HIDE DEF w
<1>3. NewRed(u, w, n, TRUE)
  BY <1>1, <1>2, SetRedIs DEF NewRed
<1> HIDE DEF u
<1>4. u.red[n] = TRUE
  BY <1>3 DEF NewRed
<1>5. u.red[m] = FALSE /\ t.red[n] = FALSE
  <2>1. u.red[m] = w.red[m] /\ w.red[m] = FALSE
    BY <1>2, <1>3 DEF NewRed
  <2> QED BY <1>1, <2>1
<1>6. \A x \in Node : x # n /\ x # m => u.red[x] = t.red[x]
  BY <1>2, <1>3 DEF NewRed
<1>7. u \in Trees /\ u.root = t.root /\ u.child = t.child /\ u.parent = t.parent
  BY <1>2, <1>3 DEF NewRed
<1>8. Swapped(u, t, n, m)
  BY <1>4, <1>5, <1>6, <1>7 DEF Swapped
<1> QED BY <1>8 DEF u, w

LEMMA EraseRedSiblingKeeps == ASSUME IInv, EraseRedSibling PROVE IInv'
<1>1. PICK edge, bh, sd : Good(Tree, keys, pc, node, above, edge, bh, sd)
  BY DEF IInv
<1> DEFINE s == Sibling
           far == Other(sd)
           u == SetRed(SetRed(Tree, s, FALSE), above, TRUE)
           v == Rotate(u, above, sd)
           new == [bh EXCEPT ![above] = bh[s], ![s] = bh[above]]
<1>2. /\ Lacking /\ IsRed(Tree, s) /\ BecomeTree(Rotate(u, above, LackSide))
      /\ node' = node /\ above' = above /\ pc' = pc /\ keys' = keys
  BY DEF EraseRedSibling
<1>3. Search(Tree, keys, edge) /\ Bare(Tree, keys)
  BY <1>1 DEF Good, Sound
<1>4. /\ Tree.root = root /\ Tree.child = child /\ Tree.parent = parent /\ Tree.red = red
      /\ \A x \in keys : x # NULL /\ x \in Node /\ x \in Pointer
      /\ Tree \in Trees /\ keys \subseteq Node
  BY <1>3, TreeFields, KeyFacts
<1>5. /\ pc = "erase" /\ sd \in Side /\ LackSide = sd /\ far \in Side
      /\ node \in keys \cup {NULL} /\ node # root /\ above \in keys /\ child[sd][above] = node
      /\ s \in keys /\ s = child[far][above] /\ parent[s] = above
      /\ s # above /\ s # node /\ above # node
      /\ Balanced(Tree, keys, bh, above, sd)
      /\ ~IsRed(Tree, node) /\ ~IsRed(Tree, root)
      /\ \A x \in keys : ~(red[x] /\ IsRed(Tree, parent[x]))
  BY <1>1, <1>2, SiblingIs
<1>6. far # sd
  BY <1>5, Sides
<1> HIDE DEF s
<1>7. red[s] /\ ~red[above]
  <2>1. red[s]
    BY <1>2, <1>4 DEF IsRed
  <2>2. ~IsRed(Tree, above)
    BY <1>5, <2>1
  <2> QED BY <1>4, <1>5, <2>1, <2>2 DEF IsRed
<1>8. s = Tree.child[Other(sd)][above] /\ s # NULL /\ Tree.red[s] /\ ~Tree.red[above]
  BY <1>4, <1>5, <1>7
<1>9. Swapped(u, Tree, above, s)
  BY <1>4, <1>5, <1>8, SwappedIs
<1> HIDE DEF u
<1>10. /\ Rotated(v, u, keys, above, sd, s, Tree.child[sd][s])
       /\ Search(v, keys, Turned(edge, above, sd, s))
       /\ Balanced(v, keys, new, above, sd)
  BY <1>3, <1>5, <1>8, <1>9, Swing
<1> HIDE DEF v
<1>11. Swung(v, Tree, keys, above, sd, s) /\ Bare(v, keys)
  BY <1>3, <1>5, <1>8, <1>9, <1>10, SwungIs
<1>12. v.child[sd][above] = node /\ node # v.root
  BY <1>4, <1>5, <1>6, <1>11 DEF Swung
<1>13. Colours(v, keys, pc, node)
  <2>1. ~IsRed(v, v.root)
    BY <1>4, <1>5, <1>11 DEF Swung
  <2>2. \A x \in keys : v.red[x] /\ IsRed(v, v.parent[x]) => FALSE
    <3>1. ~red[node] \/ node = NULL
      BY <1>4, <1>5 DEF IsRed
    <3> QED BY <1>4, <1>5, <1>7, <1>11, <3>1 DEF Swung
  <2> QED BY <2>1, <2>2 DEF Colours
<1>14. Loop(v, keys, pc, node, above, sd) /\ Hole(v, pc, node, above) = above
  BY <1>5, <1>12 DEF Loop, Hole
<1> HIDE DEF new
<1>15. Good(v, keys', pc', node', above', Turned(edge, above, sd, s), new, sd)
  BY <1>2, <1>10, <1>11, <1>13, <1>14 DEF Good, Sound
<1> QED BY <1>2, <1>5, <1>15, Kept DEF v

\* The last rotation of an insertion, for a red node p under a black one.
LEMMA GrandRotation ==
  ASSUME NEW t, NEW ks, NEW edge, NEW bh, NEW sd \in Side, NEW nd \in ks,
         Search(t, ks, edge), Bare(t, ks), Balanced(t, ks, bh, NULL, sd),
         NEW g \in ks, NEW d \in Side, NEW p \in ks, t.child[d][g] = p, t.red[p], ~t.red[g], t.red[nd], nd # p,
         ~IsRed(t, t.child[Other(d)][g]), ~IsRed(t, t.root),
         \A x \in ks : t.red[x] /\ IsRed(t, t.parent[x]) => x = nd,
         NEW v, v = Rotate(SetRed(SetRed(t, p, FALSE), g, TRUE), g, Other(d))
  PROVE  \E e, b : Good(v, ks, "insert", nd, NULL, e, b, sd)
<1> DEFINE o == Other(d)
           u == SetRed(SetRed(t, p, FALSE), g, TRUE)
           new == [bh EXCEPT ![g] = bh[p], ![p] = bh[g]]
<1>1. /\ \A x \in ks : x # NULL /\ x \in Node /\ x \in Pointer
      /\ t \in Trees /\ ks \subseteq Node
  BY KeyFacts
<1>2. o \in Side /\ Other(o) = d /\ p # NULL /\ g # NULL /\ nd # NULL
  BY <1>1, Sides
<1>3. p = t.child[Other(o)][g] /\ p # g
  BY <1>2, NotItsOwn
<1>4. Swapped(u, t, g, p)
  BY <1>1, <1>3, SwappedIs
<1>5. v = Rotate(u, g, o)
  OBVIOUS
<1> HIDE DEF u, o
<1>6. /\ Rotated(v, u, ks, g, o, p, t.child[o][p])
      /\ Search(v, ks, Turned(edge, g, o, p))
      /\ Balanced(v, ks, new, NULL, sd)
  <2>1. NULL # p /\ (NULL = g => sd = o)
    BY <1>2
  <2>2. /\ Rotated(Rotate(u, g, o), u, ks, g, o, p, t.child[o][p])
        /\ Search(Rotate(u, g, o), ks, Turned(edge, g, o, p))
        /\ Balanced(Rotate(u, g, o), ks, new, NULL, sd)
    BY <1>2, <1>3, <1>4, <2>1, Swing
  <2> QED BY <1>5, <2>2
<1>7. Swung(v, t, ks, g, o, p) /\ Bare(v, ks)
  BY <1>2, <1>3, <1>4, <1>6, SwungIs
<1>8. Colours(v, ks, "insert", nd)
  <2>1. ~IsRed(v, v.root)
    BY <1>7 DEF Swung
  <2>2. \A x \in ks : x = t.child[o][g] => ~t.red[x]
    BY <1>1 DEF IsRed, o
  <2>3. \A x \in ks : v.red[x] /\ IsRed(v, v.parent[x]) =>
          \/ t.red[x] /\ IsRed(t, t.parent[x])
          \/ t.red[g]
          \/ x = t.child[o][g] /\ t.red[x]
    BY <1>7 DEF Swung
  <2>4. \A x \in ks : v.red[x] /\ IsRed(v, v.parent[x]) => x = nd
    BY <2>2, <2>3
  <2> QED BY <2>1, <2>4 DEF Colours
<1>9. v.red[nd] = t.red[nd]
  BY <1>7 DEF Swung
<1>10. Loop(v, ks, "insert", nd, NULL, sd) /\ Hole(v, "insert", nd, NULL) = NULL
  BY <1>9 DEF Loop, Hole
<1> HIDE DEF new
<1>11. Good(v, ks, "insert", nd, NULL, Turned(edge, g, o, p), new, sd)
  BY <1>6, <1>7, <1>8, <1>10 DEF Good, Sound
<1> QED BY <1>11

LEMMA RotateInsertKeeps == ASSUME IInv, RotateInsert PROVE IInv'
<1>1. PICK edge, bh, sd : Good(Tree, keys, pc, node, above, edge, bh, sd)
  BY DEF IInv
<1> DEFINE p == parent[node]
           g == Gparent
           d == ParentSide
           inner == child[Other(d)][p] = node
           w == Rotate(Tree, p, d)
           t1 == IF inner THEN w ELSE Tree
           p1 == IF inner THEN node ELSE p
           nd == IF inner THEN p ELSE node
           v == Rotate(SetRed(SetRed(t1, p1, FALSE), g, TRUE), g, Other(d))
           mid == [bh EXCEPT ![p] = bh[node], ![node] = bh[p]]
<1>2. /\ RedParent /\ ~IsRed(Tree, Uncle) /\ BecomeTree(v) /\ node' = nd /\ pc' = pc /\ above' = above
      /\ keys' = keys
  BY DEF RotateInsert
<1>3. Search(Tree, keys, edge) /\ Bare(Tree, keys)
  BY <1>1 DEF Good, Sound
<1>4. /\ Tree.root = root /\ Tree.child = child /\ Tree.parent = parent /\ Tree.red = red
      /\ \A x \in keys : x # NULL /\ x \in Node /\ x \in Pointer
      /\ Tree \in Trees /\ keys \subseteq Node
  BY <1>3, TreeFields, KeyFacts
<1>5. /\ pc = "insert" /\ above = NULL /\ Balanced(Tree, keys, bh, NULL, sd) /\ sd \in Side
      /\ node \in keys /\ red[node] /\ p \in keys /\ red[p]
      /\ p # root /\ g \in keys /\ ~red[g] /\ d \in Side /\ child[d][g] = p
      /\ ~IsRed(Tree, root)
      /\ \A x \in keys : red[x] /\ IsRed(Tree, parent[x]) => x = node
  BY <1>1, <1>2, GrandparentIs
<1>6. ~IsRed(Tree, child[Other(d)][g]) /\ p # node /\ g # node /\ g # p /\ Other(d) \in Side /\ Other(d) # d
  <2>1. Other(d) \in Side /\ Other(d) # d
    BY <1>5, Sides
  <2>2. p # node /\ g # p
    BY <1>3, <1>4, <1>5, NotItsOwn
  <2>3. g # node
    BY <1>5
  <2>4. ~IsRed(Tree, child[Other(d)][g])
    BY <1>2 DEF Uncle
  <2> QED BY <2>1, <2>2, <2>3, <2>4
<1> HIDE DEF p, g, d
<1>7. CASE ~inner
  <2>1. nd = node /\ v = Rotate(SetRed(SetRed(Tree, p, FALSE), g, TRUE), g, Other(d))
    BY <1>7
  <2> HIDE DEF v
  <2>2. \E e, b : Good(v, keys, "insert", node, NULL, e, b, sd)
    BY <1>3, <1>4, <1>5, <1>6, <2>1, GrandRotation
  <2>3. PICK e, b : Good(v, keys', pc', node', above', e, b, sd)
    BY <1>2, <1>5, <2>1, <2>2
  <2> QED BY <1>2, <2>3, Kept
<1>8. CASE inner
  <2>1. nd = p /\ v = Rotate(SetRed(SetRed(w, node, FALSE), g, TRUE), g, Other(d))
    BY <1>8
  <2> HIDE DEF v
  <2>2. node = Tree.child[Other(d)][p] /\ node # NULL /\ Tree.red[node]
    BY <1>4, <1>5, <1>8
  <2>3. Swapped(Tree, Tree, p, node)
    <3>1. Tree.red[p] = TRUE /\ Tree.red[node] = TRUE
      <4>1. Tree.red[p] \in BOOLEAN /\ Tree.red[node] \in BOOLEAN
        BY <1>3, <1>4, <1>5, Fields DEF Search
      <4> QED BY <1>4, <1>5, <4>1
    <3> QED BY <1>4, <3>1 DEF Swapped
  <2>4. /\ Rotated(w, Tree, keys, p, d, node, Tree.child[d][node])
        /\ Search(w, keys, Turned(edge, p, d, node))
        /\ Balanced(w, keys, mid, NULL, sd)
    <3>1. NULL # node /\ (NULL = p => sd = d)
      BY <1>4, <1>5
    <3> QED BY <1>3, <1>5, <2>2, <2>3, <3>1, Swing
  <2> HIDE DEF w, mid
  <2>5. Swung(w, Tree, keys, p, d, node) /\ Bare(w, keys)
    BY <1>3, <1>5, <2>2, <2>3, <2>4, SwungIs
  <2>6. /\ w.child[d][g] = node /\ w.child[Other(d)][g] = child[Other(d)][g]
        /\ w.red[p] /\ w.red[node] /\ w.red[g] = red[g] /\ ~IsRed(w, w.root)
    <3>1. child[Other(d)][g] # p
      BY <1>3, <1>4, <1>5, ChildrenDiffer
    <3>2. w.child[d][g] = node /\ w.child[Other(d)][g] = child[Other(d)][g]
      BY <1>4, <1>5, <1>6, <2>5, <3>1 DEF Swung
    <3>3. w.red[p] /\ w.red[g] = red[g] /\ ~IsRed(w, w.root)
      BY <1>4, <1>5, <1>6, <2>5 DEF Swung
    <3>4. w.red[node]
      <4>1. w.red[node] = red[p]
        BY <1>4, <2>5 DEF Swung
      <4> QED BY <1>5, <4>1
    <3> QED BY <3>2, <3>3, <3>4
  <2>7. ~IsRed(w, w.child[Other(d)][g])
    <3>1. child[Other(d)][g] # p /\ child[Other(d)][g] # NULL => child[Other(d)][g] \in keys
      BY <1>3, <1>4, <1>5, <1>6 DEF Search, ChildPart
    <3>2. child[Other(d)][g] # p /\ child[Other(d)][g] # node
      <4>1. child[Other(d)][g] # p
        BY <1>3, <1>4, <1>5, ChildrenDiffer
      <4>2. child[Other(d)][g] # node
        BY <1>4, <1>5, <1>6 DEF IsRed
      <4> QED BY <4>1, <4>2
    <3>3. child[Other(d)][g] # NULL => w.red[child[Other(d)][g]] = red[child[Other(d)][g]]
      BY <1>4, <2>5, <3>1, <3>2 DEF Swung
    <3> QED BY <1>4, <1>6, <2>6, <3>3 DEF IsRed
  <2>8. ASSUME NEW x \in keys, w.red[x], IsRed(w, w.parent[x]) PROVE x = p
    <3>1. \/ x # p /\ x # node /\ red[x] /\ IsRed(Tree, parent[x])
          \/ x = node /\ red[p] /\ IsRed(Tree, parent[p])
          \/ x = p /\ red[p]
          \/ x = child[d][p] /\ red[x]
      BY <1>4, <2>5, <2>8 DEF Swung
    <3>2. CASE x = node /\ red[p] /\ IsRed(Tree, parent[p])
      BY <1>5, <1>6, <3>2
    <3>3. CASE x = child[d][p] /\ red[x]
      <4>1. parent[x] = p
        BY <1>3, <1>4, <1>5, <3>3 DEF Search, ChildPart
      <4>2. IsRed(Tree, parent[x])
        BY <1>4, <1>5, <4>1 DEF IsRed
      <4>3. x = node
        BY <1>5, <3>3, <4>2
      <4>4. Tree.child[d][p] = node /\ Tree.child[Other(d)][p] = node /\ node # NULL
        BY <1>4, <1>5, <1>8, <3>3, <4>3
      <4> QED BY <1>3, <1>5, <4>4, ChildrenDiffer
    <3> QED BY <1>5, <3>1, <3>2, <3>3
  <2>9. \E e, b : Good(v, keys, "insert", p, NULL, e, b, sd)
    <3>1. ~w.red[g]
      BY <1>5, <2>6
    <3> QED BY <1>5, <1>6, <2>1, <2>4, <2>5, <2>6, <2>7, <2>8, <3>1, GrandRotation
  <2>10. PICK e, b : Good(v, keys', pc', node', above', e, b, sd)
    BY <1>2, <1>5, <2>1, <2>9
  <2> QED BY <1>2, <2>10, Kept
<1> QED BY <1>7, <1>8

\* u is t with the colour of n given to m, and n and f black.
Lifted(u, t, ks, n, m, f) ==
  /\ Painted(u, t, ks) /\ u.red[m] = t.red[n] /\ u.red[n] = FALSE /\ u.red[f] = FALSE
  /\ \A x \in ks : x # n /\ x # m /\ x # f => u.red[x] = t.red[x]

LEMMA LiftedIs ==
  ASSUME NEW t \in Trees, NEW ks, ks \subseteq Node, NEW n \in ks, NEW m \in ks, NEW f \in ks,
         m # n, f # m, f # n, NEW r \in BOOLEAN, r = t.red[n]
  PROVE  Lifted(SetRed(SetRed(SetRed(t, m, r), n, FALSE), f, FALSE), t, ks, n, m, f)
<1> DEFINE u1 == SetRed(t, m, r)
           u2 == SetRed(u1, n, FALSE)
           u == SetRed(u2, f, FALSE)
<1>1. Painted(u1, t, ks) /\ NewRed(u1, t, m, r)
  BY PaintIs
<1> HIDE DEF u1
<1>2. Painted(u2, u1, ks) /\ NewRed(u2, u1, n, FALSE)
  <2>1. u1 \in Trees
    BY <1>1 DEF Painted
  <2> QED BY <2>1, PaintIs
<1> HIDE DEF u2
<1>3. Painted(u, u2, ks) /\ NewRed(u, u2, f, FALSE)
  <2>1. u2 \in Trees
    BY <1>2 DEF Painted
  <2> QED BY <2>1, PaintIs
<1> HIDE DEF u
<1>4. Painted(u, t, ks)
  BY <1>1, <1>2, <1>3 DEF Painted
<1>5. n \in Node /\ m \in Node /\ f \in Node
  OBVIOUS
<1>6. u.red[m] = t.red[n]
  <2>1. u.red[m] = u2.red[m] /\ u2.red[m] = u1.red[m] /\ u1.red[m] = r
    BY <1>1, <1>2, <1>3, <1>5 DEF NewRed
  <2> QED BY <2>1
<1>7. u.red[n] = FALSE
  BY <1>2, <1>3, <1>5 DEF NewRed
<1>8. u.red[f] = FALSE
  BY <1>3, <1>5 DEF NewRed
<1>9. \A x \in ks : x # n /\ x # m /\ x # f => u.red[x] = t.red[x]
  <2>1. ASSUME NEW x \in ks, x # n, x # m, x # f PROVE u.red[x] = t.red[x]
    <3>1. x \in Node
      OBVIOUS
    <3>2. u.red[x] = u2.red[x] /\ u2.red[x] = u1.red[x] /\ u1.red[x] = t.red[x]
      BY <1>1, <1>2, <1>3, <2>1, <3>1 DEF NewRed
    <3> QED BY <3>2
  <2> QED BY <2>1
<1>10. Lifted(u, t, ks, n, m, f)
  BY <1>4, <1>6, <1>7, <1>8, <1>9 DEF Lifted
<1> QED BY <1>10 DEF u, u1, u2

\* The last rotation of a removal: the side that lacked a black node gets one.
LEMMA LastRotation ==
  ASSUME NEW t, NEW ks, NEW edge, NEW bh, NEW sd \in Side, NEW n \in ks, NEW m \in ks, NEW f \in ks,
         Search(t, ks, edge), Bare(t, ks), Balanced(t, ks, bh, n, sd),
         m = t.child[Other(sd)][n], ~t.red[m], f = t.child[Other(sd)][m], t.red[f], ~IsRed(t, t.root),
         \A x \in ks : ~(t.red[x] /\ IsRed(t, t.parent[x])),
         NEW u, Lifted(u, t, ks, n, m, f), NEW v, v = Rotate(u, n, sd)
  PROVE  \E e, b : Good(v, ks, "erase", v.root, n, e, b, sd)
<1> DEFINE o == Other(sd)
           c == t.child[sd][m]
           new == [bh EXCEPT ![n] = bh[m], ![m] = bh[n], ![f] = bh[f] + 1]
<1>1. /\ \A x \in ks : x # NULL /\ x \in Node /\ x \in Pointer
      /\ t \in Trees /\ ks \subseteq Node /\ t.red[n] \in BOOLEAN
  <2>1. \A x \in Node : t.red[x] \in BOOLEAN
    BY Fields DEF Search
  <2> QED BY <2>1, KeyFacts
<1>2. o \in Side /\ o # sd /\ \A e \in Side : e = sd \/ e = o
  BY Sides
<1>3. /\ m # n /\ t.parent[m] = n /\ m # t.root /\ t.parent[n] # m /\ \A b \in Side : t.child[b][m] # n
      /\ f # m /\ f # n /\ t.parent[f] = m /\ f # t.root
  <2>1. /\ m # n /\ t.parent[m] = n /\ m # t.root /\ t.parent[n] # m /\ \A b \in Side : t.child[b][m] # n
    BY <1>1, <1>2, NoCycle
  <2>2. f # m /\ t.parent[f] = m /\ f # t.root
    BY <1>1, <1>2, NoCycle
  <2> QED BY <1>2, <2>1, <2>2
<1>4. c \in ks \cup {NULL} /\ (c # NULL => t.parent[c] = m) /\ c # f /\ c # n /\ c # m
  <2>1. c \in ks \cup {NULL} /\ (c # NULL => t.parent[c] = m)
    BY DEF Search, ChildPart
  <2>2. c # f
    BY <1>1, <1>2, Sides, ChildrenDiffer
  <2>3. c # n /\ c # m
    BY <1>3, NotItsOwn
  <2> QED BY <2>1, <2>2, <2>3
<1>5. /\ Painted(u, t, ks) /\ u.red[m] = t.red[n] /\ u.red[n] = FALSE /\ u.red[f] = FALSE
      /\ \A x \in ks : x # n /\ x # m /\ x # f => u.red[x] = t.red[x]
  BY DEF Lifted
<1>7. Search(u, ks, edge) /\ Bare(u, ks) /\ u.root = t.root /\ u.child = t.child /\ u.parent = t.parent
  BY <1>5, PaintKeeps DEF Painted
<1>8. Rotated(v, u, ks, n, sd, m, c)
  BY <1>1, <1>2, <1>7, RotateIs
<1>9. Search(v, ks, Turned(edge, n, sd, m))
  BY <1>1, <1>7, <1>8, RotateKeeps
<1> HIDE DEF c, o
<1>10. Bare(v, ks)
  BY <1>4, <1>7, <1>8, TurnBare
<1>11. v.root = IF t.root = n THEN m ELSE t.root
  BY <1>1, <1>7, <1>8 DEF Rotated
<1>12. \A x \in ks : v.parent[x] = IF x = n THEN m ELSE IF x = m THEN t.parent[n]
                                      ELSE IF x = c THEN n ELSE t.parent[x]
  BY <1>1, <1>7, <1>8 DEF Rotated
<1>13. \A x \in ks : \A e \in Side :
         v.child[e][x] = IF t.child[e][x] = n THEN m
                         ELSE IF x = m /\ e = sd THEN n
                         ELSE IF x = n /\ e = o THEN c ELSE t.child[e][x]
  BY <1>1, <1>7, <1>8 DEF Rotated, o
<1>14. /\ v.red[m] = t.red[n] /\ v.red[n] = FALSE /\ v.red[f] = FALSE
       /\ \A x \in ks : x # n /\ x # m /\ x # f => v.red[x] = t.red[x]
  <2>1. v.red = u.red
    BY <1>8 DEF Rotated
  <2> QED BY <1>5, <2>1
<1>15. /\ bh \in [Pointer -> Nat \ {0}] /\ bh[NULL] = 1
       /\ \A x \in ks : \A e \in Side :
            bh[x] = bh[t.child[e][x]] + (IF x = n /\ e = sd THEN 1 ELSE 0) + (IF t.red[x] THEN 0 ELSE 1)
  BY DEF Balanced
<1>16. \A x \in ks : \A e \in Side : t.child[e][x] \in Pointer /\ bh[t.child[e][x]] \in Nat
  BY <1>1, <1>15, Fields DEF Search
<1>17. bh[m] \in Nat /\ bh[n] \in Nat /\ bh[f] \in Nat
  BY <1>1, <1>15
<1>18. /\ new \in [Pointer -> Nat \ {0}] /\ new[NULL] = 1
       /\ new[n] = bh[m] /\ new[m] = bh[n] /\ new[f] = bh[f] + 1
       /\ \A x \in Pointer : x # n /\ x # m /\ x # f => new[x] = bh[x]
  <2>1. n \in Pointer /\ m \in Pointer /\ f \in Pointer /\ n # NULL /\ m # NULL /\ f # NULL /\ NULL \in Pointer
    BY <1>1, Numbers
  <2>2. bh[m] \in Nat \ {0} /\ bh[n] \in Nat \ {0} /\ bh[f] + 1 \in Nat \ {0}
    BY <1>15, <1>17, <2>1
  <2>3. new \in [Pointer -> Nat \ {0}]
    BY <1>15, <2>2
  <2> QED BY <1>3, <1>15, <2>1, <2>3
<1> HIDE DEF new
<1>19. /\ bh[n] = bh[m] + (IF t.red[n] THEN 0 ELSE 1)
       /\ bh[m] = bh[f] + 1 /\ bh[m] = bh[c] + 1 /\ bh[m] = bh[t.child[sd][n]] + 1
  <2>1. bh[n] = bh[m] + 0 + (IF t.red[n] THEN 0 ELSE 1)
    BY <1>2, <1>15 DEF o
  <2>2. bh[n] = bh[t.child[sd][n]] + 1 + (IF t.red[n] THEN 0 ELSE 1)
    BY <1>15
  <2>3. bh[m] = bh[f] + 0 + 1
    <3>1. bh[m] = bh[t.child[o][m]] + (IF m = n /\ o = sd THEN 1 ELSE 0) + (IF t.red[m] THEN 0 ELSE 1)
      BY <1>2, <1>15
    <3>2. t.child[o][m] = f
      BY DEF o
    <3> QED BY <1>3, <3>1, <3>2
  <2>4. bh[m] = bh[c] + 0 + 1
    <3>1. bh[m] = bh[t.child[sd][m]] + (IF m = n /\ sd = sd THEN 1 ELSE 0) + (IF t.red[m] THEN 0 ELSE 1)
      BY <1>15
    <3> QED BY <1>3, <3>1 DEF c
  <2>5. bh[c] \in Nat
    BY <1>16 DEF c
  <2>6. bh[t.child[sd][n]] \in Nat
    BY <1>16
  <2>7. bh[m] = bh[f] + 1 /\ bh[m] = bh[c] + 1
    BY <1>17, <2>3, <2>4, <2>5
  <2>8. bh[n] = bh[m] + (IF t.red[n] THEN 0 ELSE 1)
    BY <1>17, <2>1
  <2>9. bh[m] = bh[t.child[sd][n]] + 1
    <3>1. CASE t.red[n]
      BY <1>17, <2>2, <2>6, <2>8, <3>1
    <3>2. CASE ~t.red[n]
      BY <1>17, <2>2, <2>6, <2>8, <3>2
    <3> QED BY <3>1, <3>2
  <2> QED BY <2>7, <2>8, <2>9
<1>20. ASSUME NEW x \in ks, NEW e \in Side
       PROVE  new[x] = new[v.child[e][x]] + (IF v.red[x] THEN 0 ELSE 1)
  <2>1. CASE x = m /\ e = sd
    <3>1. v.child[e][x] = n
      <4>1. t.child[e][x] # n
        BY <1>3, <2>1
      <4> QED BY <1>13, <2>1, <4>1
    <3>2. new[n] = bh[m] /\ new[x] = bh[n] /\ v.red[n] = FALSE
      BY <1>14, <1>18, <2>1
    <3>3. (IF v.red[x] THEN 0 ELSE 1) = IF t.red[n] THEN 0 ELSE 1
      BY <1>14, <2>1
    <3> QED BY <1>19, <3>1, <3>2, <3>3
  <2>2. CASE x = m /\ e = o
    <3>1. v.child[e][x] = f
      <4>1. t.child[e][x] = f
        BY <2>2 DEF o
      <4>2. x # n /\ e # sd /\ t.child[e][x] # n
        BY <1>2, <1>3, <2>2, <4>1
      <4> QED BY <1>13, <4>1, <4>2
    <3>2. new[f] = bh[m] /\ new[x] = bh[n]
      BY <1>18, <1>19, <2>2
    <3>3. (IF v.red[x] THEN 0 ELSE 1) = IF t.red[n] THEN 0 ELSE 1
      BY <1>14, <2>2
    <3> QED BY <1>19, <3>1, <3>2, <3>3
  <2>3. CASE x = n /\ e = o
    <3>1. t.child[e][x] # n
      BY <2>3, NotItsOwn
    <3>2. v.child[e][x] = c
      <4>1. x # m /\ e # sd
        BY <1>2, <1>3, <2>3
      <4> QED BY <1>13, <2>3, <3>1, <4>1
    <3>3. new[c] = bh[c]
      BY <1>1, <1>4, <1>18, Numbers
    <3> QED BY <1>14, <1>18, <1>19, <2>3, <3>2, <3>3
  <2>4. CASE x = n /\ e = sd
    <3>1. t.child[e][x] # n
      BY <2>4, NotItsOwn
    <3>2. v.child[e][x] = t.child[sd][n]
      <4>1. x # m /\ e # o
        BY <1>2, <1>3, <2>4
      <4> QED BY <1>13, <2>4, <3>1, <4>1
    <3>3. t.child[sd][n] # m /\ t.child[sd][n] # f
      <4>1. t.child[sd][n] # m
        BY <1>1, Sides, ChildrenDiffer
      <4>2. t.child[sd][n] # NULL => t.parent[t.child[sd][n]] = n
        BY DEF Search, ChildPart
      <4>3. t.child[sd][n] # f
        BY <1>1, <1>3, <4>2
      <4> QED BY <4>1, <4>3
    <3>4. new[t.child[sd][n]] = bh[t.child[sd][n]]
      BY <1>16, <1>18, <2>4, <3>1, <3>3
    <3> QED BY <1>14, <1>18, <1>19, <2>4, <3>2, <3>4
  <2>5. CASE x # n /\ x # m
    <3>1. v.child[e][x] = IF t.child[e][x] = n THEN m ELSE t.child[e][x]
      BY <1>13, <2>5
    <3>2. t.child[e][x] # m /\ t.child[e][x] # f
      <4>1. t.child[e][x] # NULL => t.parent[t.child[e][x]] = x
        BY DEF Search, ChildPart
      <4> QED BY <1>1, <1>3, <2>5, <4>1
    <3>3. new[v.child[e][x]] = bh[t.child[e][x]] /\ bh[t.child[e][x]] \in Nat
      BY <1>16, <1>18, <3>1, <3>2
    <3>4. bh[x] = bh[t.child[e][x]] + 0 + (IF t.red[x] THEN 0 ELSE 1)
      BY <1>15, <2>5
    <3>5. CASE x = f
      <4>1. ~v.red[x] /\ t.red[x]
        BY <1>14, <3>5
      <4>2. new[x] = bh[x] + 1
        BY <1>18, <3>5
      <4> QED BY <3>3, <3>4, <4>1, <4>2
    <3>6. CASE x # f
      <4>1. new[x] = bh[x] /\ v.red[x] = t.red[x]
        BY <1>1, <1>14, <1>18, <2>5, <3>6
      <4> QED BY <3>3, <3>4, <4>1
    <3> QED BY <3>5, <3>6
  <2> QED BY <1>2, <2>1, <2>2, <2>3, <2>4, <2>5
<1>21. Balanced(v, ks, new, NULL, sd)
  <2>1. \A x \in ks : \A e \in Side : new[v.child[e][x]] \in Nat
    BY <1>9, <1>18, Fields, Numbers DEF Search
  <2>2. ASSUME NEW x \in ks, NEW e \in Side
        PROVE  new[x] = new[v.child[e][x]] + (IF x = NULL /\ e = sd THEN 1 ELSE 0) + (IF v.red[x] THEN 0 ELSE 1)
    <3>1. ~(x = NULL)
      BY <1>1
    <3> QED BY <1>20, <2>1, <3>1
  <2> QED BY <1>18, <2>2 DEF Balanced
<1>22. t.root \in ks /\ t.parent[t.root] = NULL
  BY RootIs
<1>23. Colours(v, ks, "erase", v.root)
  <2>1. ~IsRed(v, v.root)
    <3>1. CASE t.root = n
      BY <1>1, <1>11, <1>14, <3>1 DEF IsRed
    <3>2. CASE t.root # n
      <4>1. v.root = t.root /\ t.root # m /\ t.root # f
        BY <1>3, <1>11, <3>2
      <4>2. v.red[t.root] = t.red[t.root]
        BY <1>14, <1>22, <3>2, <4>1
      <4> QED BY <4>1, <4>2 DEF IsRed
    <3> QED BY <3>1, <3>2
  <2>2. ASSUME NEW x \in ks, v.red[x], IsRed(v, v.parent[x]) PROVE FALSE
    <3>1. x # n /\ x # f
      BY <1>14, <2>2
    <3>2. CASE x = m
      <4>1. t.red[n] /\ v.parent[x] = t.parent[n]
        <5>1. t.red[n]
          BY <1>14, <2>2, <3>2
        <5>2. v.parent[x] = t.parent[n]
          <6>1. x # n
            BY <3>1
          <6> QED BY <1>12, <3>2, <6>1
        <5> QED BY <5>1, <5>2
      <4>2. t.parent[n] # NULL /\ t.parent[n] \in ks /\ t.parent[n] # n /\ t.parent[n] # m /\ v.red[t.parent[n]]
        BY <1>3, <1>22, <2>2, <4>1, NotItsOwn DEF IsRed, Search, ParentPart
      <4>3. t.parent[n] # f
        BY <1>14, <4>2
      <4>4. IsRed(t, t.parent[n])
        BY <1>14, <4>2, <4>3 DEF IsRed
      <4> QED BY <4>1, <4>4
    <3>3. CASE x # m /\ x = c
      BY <1>12, <1>14, <2>2, <3>1, <3>3 DEF IsRed
    <3>4. CASE x # m /\ x # c
      <4>1. t.red[x] /\ v.parent[x] = t.parent[x]
        BY <1>12, <1>14, <2>2, <3>1, <3>4
      <4>2. t.parent[x] # NULL /\ t.parent[x] \in ks /\ v.red[t.parent[x]] /\ x # t.root
        BY <1>22, <2>2, <4>1 DEF IsRed, Search, ParentPart
      <4>3. t.parent[x] # n /\ t.parent[x] # f
        BY <1>14, <4>2
      <4>4. t.parent[x] # m
        <5>1. SUFFICES ASSUME t.parent[x] = m PROVE FALSE
          OBVIOUS
        <5>2. PICK e \in Side : t.child[e][m] = x
          BY <4>2, <5>1 DEF Search, ParentPart
        <5>3. e = sd \/ e = o
          BY <1>2
        <5> QED BY <3>1, <3>4, <5>2, <5>3 DEF c, o
      <4>5. IsRed(t, t.parent[x])
        BY <1>14, <4>2, <4>3, <4>4 DEF IsRed
      <4> QED BY <4>1, <4>5
    <3> QED BY <3>2, <3>3, <3>4
  <2> QED BY <2>1, <2>2 DEF Colours
<1>24. Loop(v, ks, "erase", v.root, n, sd) /\ Hole(v, "erase", v.root, n) = NULL
  BY <1>11, <1>22 DEF Loop, Hole
<1>25. Good(v, ks, "erase", v.root, n, Turned(edge, n, sd, m), new, sd)
  BY <1>9, <1>10, <1>21, <1>23, <1>24 DEF Good, Sound
<1> QED BY <1>25

LEMMA EraseRotateKeeps == ASSUME IInv, EraseRotate PROVE IInv'
<1>1. PICK edge, bh, sd : Good(Tree, keys, pc, node, above, edge, bh, sd)
  BY DEF IInv
<1> DEFINE s == Sibling
           far == Other(sd)
           turn == ~IsRed(Tree, child[far][s])
           m == child[sd][s]
           u == SetRed(SetRed(Tree, m, FALSE), s, TRUE)
           w == Rotate(u, s, far)
           t1 == IF turn THEN w ELSE Tree
           s1 == t1.child[far][above]
           t2 == SetRed(SetRed(t1, s1, red[above]), above, FALSE)
           v == Rotate(SetRed(t2, t2.child[far][s1], FALSE), above, sd)
           mid == [bh EXCEPT ![s] = bh[m], ![m] = bh[s]]
<1>2. Lacking /\ ~IsRed(Tree, s) /\ ~NephewsBlack
  BY DEF EraseRotate
<1>3. Search(Tree, keys, edge) /\ Bare(Tree, keys)
  BY <1>1 DEF Good, Sound
<1>4. /\ Tree.root = root /\ Tree.child = child /\ Tree.parent = parent /\ Tree.red = red
      /\ \A x \in keys : x # NULL /\ x \in Node /\ x \in Pointer
      /\ Tree \in Trees /\ keys \subseteq Node
  BY <1>3, TreeFields, KeyFacts
<1>5. /\ pc = "erase" /\ sd \in Side /\ LackSide = sd /\ far \in Side
      /\ node \in keys \cup {NULL} /\ node # root /\ above \in keys /\ child[sd][above] = node
      /\ s \in keys /\ s = child[far][above] /\ parent[s] = above
      /\ s # above /\ s # node /\ above # node
      /\ Balanced(Tree, keys, bh, above, sd)
      /\ ~IsRed(Tree, node) /\ ~IsRed(Tree, root)
      /\ \A x \in keys : ~(red[x] /\ IsRed(Tree, parent[x]))
  BY <1>1, <1>2, SiblingIs
<1>6. /\ BecomeTree(v) /\ node' = root' /\ above' = above /\ pc' = pc /\ keys' = keys
  BY <1>5 DEF EraseRotate
<1>7. far # sd /\ Other(far) = sd /\ \A e \in Side : e = sd \/ e = far
  BY <1>5, Sides
<1>8. ~red[s] /\ \E e \in Side : IsRed(Tree, child[e][s])
  BY <1>2, <1>4, <1>5 DEF IsRed, NephewsBlack
<1> HIDE DEF s
<1>9. red[above] \in BOOLEAN
  <2>1. \A x \in Node : Tree.red[x] \in BOOLEAN
    BY <1>3, Fields DEF Search
  <2> QED BY <1>4, <1>5, <2>1
\* What the last rotation starts from, in both cases.
<1>10. ASSUME NEW t, NEW e1, NEW b1, NEW q \in keys, NEW f \in keys,
              Search(t, keys, e1), Bare(t, keys), Balanced(t, keys, b1, above, sd),
              q = t.child[far][above], ~t.red[q], f = t.child[far][q], t.red[f], ~IsRed(t, t.root),
              \A x \in keys : ~(t.red[x] /\ IsRed(t, t.parent[x])), t.red[above] = red[above],
              v = Rotate(SetRed(SetRed(SetRed(t, q, red[above]), above, FALSE), f, FALSE), above, sd)
       PROVE  IInv'
  <2> DEFINE o == SetRed(SetRed(SetRed(t, q, red[above]), above, FALSE), f, FALSE)
  <2> HIDE DEF v, far
  <2>1. q # above /\ f # q /\ f # above
    <3>1. q # above /\ f # q
      BY <1>5, <1>10, NotItsOwn
    <3>2. f # above
      BY <1>4, <1>5, <1>10, NoCycle
    <3> QED BY <3>1, <3>2
  <2>2. t \in Trees
    BY <1>10, KeyFacts
  <2>3. Lifted(o, t, keys, above, q, f)
    BY <1>4, <1>5, <1>9, <1>10, <2>1, <2>2, LiftedIs
  <2>4. v = Rotate(o, above, sd)
    BY <1>10
  <2> HIDE DEF o
  <2>5. \E e, b : Good(v, keys, "erase", v.root, above, e, b, sd)
    <3>1. /\ above \in keys /\ far = Other(sd) /\ sd \in Side
          /\ q = t.child[Other(sd)][above] /\ f = t.child[Other(sd)][q]
      BY <1>5, <1>10 DEF far
    <3>2. /\ Search(t, keys, e1) /\ Bare(t, keys) /\ Balanced(t, keys, b1, above, sd)
          /\ ~t.red[q] /\ t.red[f] /\ ~IsRed(t, t.root)
          /\ \A x \in keys : ~(t.red[x] /\ IsRed(t, t.parent[x]))
      BY <1>10
    <3> QED BY <2>3, <2>4, <3>1, <3>2, LastRotation
  <2>6. root' = v.root
    BY <1>6 DEF BecomeTree
  <2>7. PICK e, b : Good(v, keys', pc', node', above', e, b, sd)
    BY <1>5, <1>6, <2>5, <2>6
  <2> QED BY <1>6, <2>7, Kept
<1>11. CASE ~turn
  <2> DEFINE f == child[far][s]
  <2>1. f # NULL /\ red[f] /\ f \in keys
    <3>1. f # NULL /\ red[f]
      BY <1>4, <1>11 DEF IsRed
    <3> QED BY <1>3, <1>4, <1>5, <3>1 DEF Search, ChildPart
  <2>2. t1 = Tree /\ s1 = s
    BY <1>4, <1>5, <1>11
  <2>3. t2.child = child
    <3> DEFINE a == SetRed(Tree, s, red[above])
    <3>1. a \in Trees /\ a.child = child
      BY <1>4, <1>5, <1>9, PaintIs DEF Painted
    <3> HIDE DEF a
    <3>2. SetRed(a, above, FALSE).child = child
      <4>1. Painted(SetRed(a, above, FALSE), a, keys)
        BY <1>4, <1>5, <3>1, PaintIs
      <4> QED BY <3>1, <4>1 DEF Painted
    <3> QED BY <2>2, <3>2 DEF a
  <2>4. v = Rotate(SetRed(SetRed(SetRed(Tree, s, red[above]), above, FALSE), f, FALSE), above, sd)
    <3>1. t2 = SetRed(SetRed(Tree, s, red[above]), above, FALSE) /\ t2.child[far][s1] = f
      BY <2>2, <2>3
    <3> QED BY <3>1
  <2> HIDE DEF v
  <2>5. /\ s = Tree.child[far][above] /\ ~Tree.red[s] /\ f = Tree.child[far][s] /\ Tree.red[f]
        /\ ~IsRed(Tree, Tree.root) /\ Tree.red[above] = red[above]
        /\ \A x \in keys : ~(Tree.red[x] /\ IsRed(Tree, Tree.parent[x]))
    BY <1>4, <1>5, <1>8, <2>1
  <2> HIDE DEF f, far
  <2> QED BY <1>3, <1>5, <1>10, <2>1, <2>4, <2>5
<1>12. CASE turn
  <2>1. IsRed(Tree, m) /\ ~IsRed(Tree, child[far][s])
    BY <1>7, <1>8, <1>12
  <2>2. m # NULL /\ red[m] /\ m \in keys /\ parent[m] = s /\ m # s /\ m # above
    <3>1. m # NULL /\ red[m]
      BY <1>4, <2>1 DEF IsRed
    <3>2. m \in keys /\ parent[m] = s /\ m # s
      BY <1>3, <1>4, <1>5, <3>1, NoCycle
    <3>3. m # above
      BY <1>3, <1>4, <1>5, <3>1, NoCycle
    <3> QED BY <3>1, <3>2, <3>3
  <2> HIDE DEF m
  <2>3. m = Tree.child[Other(far)][s] /\ Tree.red[m] /\ ~Tree.red[s]
    BY <1>4, <1>7, <1>8, <2>2 DEF m
  <2>4. Swapped(u, Tree, s, m)
    BY <1>4, <1>5, <2>2, <2>3, SwappedIs
  <2> HIDE DEF u
  <2>5. /\ Rotated(w, u, keys, s, far, m, Tree.child[far][m])
        /\ Search(w, keys, Turned(edge, s, far, m))
        /\ Balanced(w, keys, mid, above, sd)
    <3>1. above # m /\ (above = s => sd = far)
      BY <1>5, <2>2
    <3>2. /\ Search(Tree, keys, edge) /\ Balanced(Tree, keys, bh, above, sd) /\ s \in keys /\ far \in Side
          /\ m = Tree.child[Other(far)][s] /\ m # NULL /\ Tree.red[m]
      BY <1>3, <1>5, <2>2, <2>3
    <3> HIDE DEF far
    <3> QED BY <2>4, <3>1, <3>2, Swing
  <2>6. t1 = w
    BY <1>12
  <2> HIDE DEF w, mid
  <2>7. Swung(w, Tree, keys, s, far, m) /\ Bare(w, keys)
    BY <1>3, <1>5, <2>2, <2>3, <2>4, <2>5, SwungIs
  <2>8. w.child[far][above] = m /\ w.child[far][m] = s
    <3>1. w.child[far][above] = m
      BY <1>4, <1>5, <2>7 DEF Swung
    <3>2. Tree.child[far][m] # s
      BY <1>3, <1>4, <1>5, <1>7, <2>2, <2>3, NoCycle
    <3>3. w.child[far][m] = s
      BY <1>5, <2>2, <2>7, <3>2 DEF Swung
    <3> QED BY <3>1, <3>3
  <2>9. ~w.red[m] /\ w.red[s] /\ w.red[above] = red[above]
    <3>1. w.red[m] = red[s] /\ w.red[s] = TRUE
      BY <1>4, <2>7 DEF Swung
    <3>2. w.red[above] = red[above]
      BY <1>4, <1>5, <2>2, <2>7 DEF Swung
    <3> QED BY <1>8, <3>1, <3>2
  <2>10. ~IsRed(w, w.root)
    BY <1>4, <1>5, <2>7 DEF Swung
  <2>11. \A x \in keys : ~(w.red[x] /\ IsRed(w, w.parent[x]))
    <3>1. ASSUME NEW x \in keys, w.red[x], IsRed(w, w.parent[x])
          PROVE  \/ red[x] /\ IsRed(Tree, parent[x])
                 \/ red[s]
                 \/ x = child[far][s] /\ red[x]
      BY <1>4, <2>7, <3>1 DEF Swung
    <3>2. \A x \in keys : x = child[far][s] => ~red[x]
      BY <1>4, <2>1 DEF IsRed
    <3> QED BY <1>5, <1>8, <3>1, <3>2
  <2>12. s1 = m
    BY <2>6, <2>8
  <2>13. t2.child = w.child
    <3> DEFINE a == SetRed(w, m, red[above])
    <3>1. w \in Trees
      BY <2>5, KeyFacts
    <3>2. a \in Trees /\ a.child = w.child
      BY <1>4, <1>9, <2>2, <3>1, PaintIs DEF Painted
    <3> HIDE DEF a
    <3>3. SetRed(a, above, FALSE).child = w.child
      <4>1. Painted(SetRed(a, above, FALSE), a, keys)
        BY <1>4, <1>5, <3>2, PaintIs
      <4> QED BY <3>2, <4>1 DEF Painted
    <3> QED BY <2>6, <2>12, <3>3 DEF a
  <2>14. v = Rotate(SetRed(SetRed(SetRed(w, m, red[above]), above, FALSE), s, FALSE), above, sd)
    <3>1. t2 = SetRed(SetRed(w, m, red[above]), above, FALSE) /\ t2.child[far][s1] = s
      BY <2>6, <2>8, <2>12, <2>13
    <3> QED BY <3>1
  <2> HIDE DEF v, far
  <2> QED BY <1>5, <1>10, <2>2, <2>5, <2>7, <2>8, <2>9, <2>10, <2>11, <2>14
<1> QED BY <1>11, <1>12

-----------------------------------------------------------------------------
(* The calls *)

\* Between calls the tree has no defect.
LEMMA IdleIs ==
  ASSUME NEW edge, NEW bh, NEW sd, Good(Tree, keys, pc, node, above, edge, bh, sd), pc = "idle"
  PROVE  /\ node = NULL /\ above = NULL /\ sd \in Side
         /\ Search(Tree, keys, edge) /\ Bare(Tree, keys) /\ Balanced(Tree, keys, bh, NULL, sd)
         /\ Colours(Tree, keys, "idle", NULL)
         /\ Sound(Tree, keys, "idle", NULL, NULL, edge, bh, sd)
<1>1. node = NULL /\ above = NULL /\ sd \in Side
  BY DEF Good, Sound, Loop
<1>2. Sound(Tree, keys, "idle", NULL, NULL, edge, bh, sd) /\ Bare(Tree, keys)
  BY <1>1 DEF Good
<1>3. Hole(Tree, "idle", NULL, NULL) = NULL
  BY DEF Hole
<1> QED BY <1>1, <1>2, <1>3 DEF Sound

\* A new red leaf has no other defect than a red parent, or being the root.
LEMMA LeafKeeps ==
  ASSUME NEW t, NEW ks, NEW edge, NEW bh, NEW sd \in Side, Search(t, ks, edge), Bare(t, ks),
         Balanced(t, ks, bh, NULL, sd), Colours(t, ks, "idle", NULL),
         NEW k \in Node, k \notin ks, NEW p \in ks \cup {NULL}, NEW d \in Side,
         p = NULL => ks = {}, p # NULL => t.child[d][p] = NULL,
         NEW v, Linked(v, t, k, p, d), NEW e, Search(v, ks \cup {k}, e)
  PROVE  \E b : Good(v, ks \cup {k}, "insert", k, NULL, e, b, sd)
<1> DEFINE all == ks \cup {k}
           new == [bh EXCEPT ![k] = 1]
<1>1. /\ \A x \in ks : x # NULL /\ x \in Node /\ x \in Pointer /\ x # k
      /\ t \in Trees /\ ks \subseteq Node /\ k \in Pointer /\ k # NULL /\ p # k
  <2>1. k \in Pointer /\ k # NULL
    BY Numbers
  <2> QED BY <2>1, KeyFacts
<1>2. /\ v \in Trees /\ v.root = (IF p = NULL THEN k ELSE t.root)
      /\ v.red[k] = TRUE /\ v.parent[k] = p /\ \A f \in Side : v.child[f][k] = NULL
  BY <1>1 DEF Linked
<1>3. /\ \A x \in Node : x # k => v.red[x] = t.red[x] /\ v.parent[x] = t.parent[x]
      /\ \A x \in Node : \A f \in Side : x # k => v.child[f][x] = IF x = p /\ f = d THEN k ELSE t.child[f][x]
  BY <1>1 DEF Linked
<1>4. Bare(v, all)
  <2>1. \A x \in Node \ all : x # k /\ x # p
    BY <1>1, Numbers
  <2> QED BY <1>3, <2>1 DEF Bare
<1>5. Balanced(v, all, new, NULL, sd)
  <2>1. /\ bh \in [Pointer -> Nat \ {0}] /\ bh[NULL] = 1
        /\ \A x \in ks : \A f \in Side :
             bh[x] = bh[t.child[f][x]] + (IF x = NULL /\ f = sd THEN 1 ELSE 0) + (IF t.red[x] THEN 0 ELSE 1)
    BY DEF Balanced
  <2>2. /\ new \in [Pointer -> Nat \ {0}] /\ new[NULL] = 1 /\ new[k] = 1
        /\ \A x \in Pointer : x # k => new[x] = bh[x]
    BY <1>1, <2>1, Numbers
  <2> HIDE DEF new
  <2>3. ASSUME NEW x \in all, NEW f \in Side
        PROVE  new[x] = new[v.child[f][x]] + (IF x = NULL /\ f = sd THEN 1 ELSE 0) + (IF v.red[x] THEN 0 ELSE 1)
    <3>1. CASE x = k
      <4>1. ~(x = NULL) /\ v.red[x] /\ v.child[f][x] = NULL
        BY <1>1, <1>2, <3>1
      <4> QED BY <2>2, <3>1, <4>1
    <3>2. CASE x \in ks
      <4>1. new[x] = bh[x] /\ v.red[x] = t.red[x]
        BY <1>1, <1>3, <2>2, <3>2
      <4>2. new[v.child[f][x]] = bh[t.child[f][x]]
        <5>1. CASE x = p /\ f = d
          <6>1. v.child[f][x] = k /\ t.child[f][x] = NULL
            BY <1>1, <1>3, <3>2, <5>1
          <6> QED BY <2>1, <2>2, <6>1
        <5>2. CASE ~(x = p /\ f = d)
          <6>1. v.child[f][x] = t.child[f][x]
            BY <1>1, <1>3, <3>2, <5>2
          <6>2. t.child[f][x] \in Pointer /\ t.child[f][x] # k
            <7>1. t.child[f][x] \in ks \cup {NULL}
              BY <3>2 DEF Search, ChildPart
            <7> QED BY <1>1, <7>1, Numbers
          <6> QED BY <2>2, <6>1, <6>2
        <5> QED BY <5>1, <5>2
      <4>3. bh[x] = bh[t.child[f][x]] + (IF x = NULL /\ f = sd THEN 1 ELSE 0) + (IF t.red[x] THEN 0 ELSE 1)
        BY <2>1, <3>2
      <4> QED BY <4>1, <4>2, <4>3
    <3> QED BY <3>1, <3>2
  <2> QED BY <2>2, <2>3 DEF Balanced
<1>6. Colours(v, all, "insert", k)
  <2>1. IsRed(v, v.root) => v.root = k
    <3>1. CASE p = NULL
      BY <1>2, <3>1
    <3>2. CASE p # NULL
      <4>1. v.root = t.root /\ t.root \in ks
        BY <1>2, <3>2, RootIs
      <4>2. ~IsRed(t, t.root)
        BY DEF Colours
      <4> QED BY <1>1, <1>3, <4>1, <4>2 DEF IsRed
    <3> QED BY <3>1, <3>2
  <2>2. ASSUME NEW x \in ks, v.red[x], IsRed(v, v.parent[x]) PROVE FALSE
    <3>1. t.red[x] /\ v.parent[x] = t.parent[x]
      BY <1>1, <1>3, <2>2
    <3>2. t.parent[x] # NULL /\ t.parent[x] \in ks /\ v.red[t.parent[x]]
      BY <2>2, <3>1, RootIs DEF IsRed, Search, ParentPart
    <3>3. IsRed(t, t.parent[x])
      BY <1>1, <1>3, <3>2 DEF IsRed
    <3> QED BY <3>1, <3>3 DEF Colours
  <2> QED BY <2>1, <2>2 DEF Colours
<1>7. Loop(v, all, "insert", k, NULL, sd) /\ Hole(v, "insert", k, NULL) = NULL
  BY <1>2 DEF Loop, Hole
<1> HIDE DEF new
<1>8. Good(v, all, "insert", k, NULL, e, new, sd)
  BY <1>4, <1>5, <1>6, <1>7 DEF Good, Sound
<1> QED BY <1>8

LEMMA InsertKeeps == ASSUME IInv, NEW k \in Node, Insert(k) PROVE IInv'
<1>1. PICK edge, bh, sd : Good(Tree, keys, pc, node, above, edge, bh, sd)
  BY DEF IInv
<1>2. /\ pc = "idle" /\ k \notin keys /\ pc' = "insert" /\ node' = k /\ keys' = keys \cup {k}
      /\ above' = above
  BY DEF Insert
<1>3. /\ above = NULL /\ sd \in Side /\ Search(Tree, keys, edge) /\ Bare(Tree, keys)
      /\ Balanced(Tree, keys, bh, NULL, sd) /\ Colours(Tree, keys, "idle", NULL)
  BY <1>1, <1>2, IdleIs
<1>4. Tree \in Trees /\ keys \subseteq Node /\ Tree.child = child
  BY <1>3, KeyFacts, TreeFields
<1>5. SUFFICES ASSUME NEW v, BecomeTree(v), \E e, b : Good(v, keys \cup {k}, "insert", k, NULL, e, b, sd)
               PROVE  IInv'
  <2>1. CASE keys = {}
    <3> DEFINE v == LinkNode(Tree, k, NULL, "left")
               e == [f \in Side |-> [x \in Node |-> End(f)]]
    <3>1. BecomeTree(v)
      BY <2>1 DEF Insert
    <3>2. Linked(v, Tree, k, NULL, "left") /\ "left" \in Side
      BY <1>4, Numbers, LinkNodeIs DEF Side
    <3> HIDE DEF v
    <3>3. Search(v, {k}, e)
      BY <1>3, <2>1, <3>2, FirstKeeps
    <3> HIDE DEF e
    <3>4. Search(v, keys \cup {k}, e)
      <4>1. keys \cup {k} = {k}
        BY <2>1
      <4> QED BY <3>3, <4>1
    <3>5. \E b : Good(v, keys \cup {k}, "insert", k, NULL, e, b, sd)
      BY <1>2, <1>3, <2>1, <3>2, <3>4, LeafKeeps
    <3> QED BY <3>1, <3>5
  <2>2. CASE keys # {}
    <3> DEFINE p == Place(k)[1]
               d == Place(k)[2]
               v == LinkNode(Tree, k, p, d)
               e == Widened(edge, k, p, d)
    <3>1. BecomeTree(v)
      BY <2>2 DEF Insert
    <3>2. p \in keys /\ d \in Side /\ child[d][p] = NULL /\ Inside(k, edge[d][p], p)
      BY <1>2, <1>3, <2>2, PlaceIs
    <3> HIDE DEF p, d
    <3>3. p \in Pointer /\ p # NULL
      BY <1>3, <3>2, KeyFacts
    <3>4. Linked(v, Tree, k, p, d)
      BY <1>4, <3>2, <3>3, LinkNodeIs
    <3> HIDE DEF v
    <3>5. Search(v, keys \cup {k}, e)
      BY <1>2, <1>3, <1>4, <3>2, <3>4, LinkKeeps
    <3> HIDE DEF e
    <3>6. \E b : Good(v, keys \cup {k}, "insert", k, NULL, e, b, sd)
      BY <1>2, <1>3, <1>4, <3>2, <3>3, <3>4, <3>5, LeafKeeps
    <3> QED BY <3>1, <3>6
  <2> QED BY <2>1, <2>2
<1>6. PICK e, b : Good(v, keys', pc', node', above', e, b, sd)
  BY <1>2, <1>3, <1>5
<1> QED BY <1>5, <1>6, Kept

\* After the removed node is forgotten, the tree is the one that was sound.
LEMMA RemovedKeeps ==
  ASSUME NEW t, NEW c, NEW p, NEW r, NEW k \in Node, NEW ks, ks = keys \ {k}, Removed(k, t, c, p, r),
         NEW edge, NEW bh, NEW sd,
         Sound(t, ks, IF r THEN "idle" ELSE "erase", IF r THEN NULL ELSE c, IF r THEN NULL ELSE p, edge, bh, sd),
         Bare(t, keys)
  PROVE  IInv'
<1> DEFINE v == Forget(t, k)
           phase == IF r THEN "idle" ELSE "erase"
           nd == IF r THEN NULL ELSE c
           ab == IF r THEN NULL ELSE p
<1>1. BecomeTree(v) /\ keys' = ks /\ pc' = phase /\ node' = nd /\ above' = ab
  BY DEF Removed
<1>2. Sound(t, ks, phase, nd, ab, edge, bh, sd) /\ k \notin ks
  OBVIOUS
<1>3. t \in Trees
  BY <1>2, KeyFacts DEF Sound
<1>4. Forgotten(v, t, k)
  BY <1>3, ForgetIs
<1> HIDE DEF v, phase, nd, ab
<1>5. Sound(v, ks, phase, nd, ab, edge, bh, sd)
  BY <1>2, <1>4, ForgetKeeps
<1>6. Bare(v, ks)
  <2>1. ASSUME NEW x \in Node \ ks
        PROVE  v.parent[x] = NULL /\ v.red[x] = FALSE /\ \A e \in Side : v.child[e][x] = NULL
    <3>1. CASE x = k
      BY <1>4, <3>1 DEF Forgotten
    <3>2. CASE x # k
      <4>1. x \in Node \ keys
        BY <3>2
      <4> QED BY <1>4, <3>2, <4>1 DEF Forgotten, Bare
    <3> QED BY <3>1, <3>2
  <2> QED BY <2>1 DEF Bare
<1>7. Good(v, keys', pc', node', above', edge, bh, sd)
  BY <1>1, <1>5, <1>6 DEF Good
<1> QED BY <1>1, <1>7, Kept

\* Neither operation touches the nodes outside the tree.
LEMMA SpliceBare ==
  ASSUME NEW t, NEW ks, Bare(t, ks), NEW n \in ks, NEW c \in ks \cup {NULL}, NEW v, Spliced(v, t, ks, n, c)
  PROVE  Bare(v, ks)
<1>1. SUFFICES ASSUME NEW x \in Node \ ks
               PROVE  v.parent[x] = NULL /\ v.red[x] = FALSE /\ \A e \in Side : v.child[e][x] = NULL
  BY DEF Bare
<1>2. x # c /\ x \notin ks
  BY Numbers
<1>3. t.parent[x] = NULL /\ t.red[x] = FALSE /\ \A e \in Side : t.child[e][x] = NULL
  BY <1>1 DEF Bare
<1> QED BY <1>1, <1>2, <1>3 DEF Spliced

LEMMA TakeBare ==
  ASSUME NEW t, NEW ks, NEW all, ks \subseteq all, Bare(t, all), NEW edge, Search(t, ks, edge),
         NEW n \in ks, NEW m \in Node, NEW v, Taken(v, t, ks, n, m)
  PROVE  Bare(v, all \cup {m})
<1>1. SUFFICES ASSUME NEW x \in Node \ (all \cup {m})
               PROVE  v.parent[x] = NULL /\ v.red[x] = FALSE /\ \A e \in Side : v.child[e][x] = NULL
  BY DEF Bare
<1>2. x # m /\ x \notin ks /\ x \in Node \ all
  BY <1>1
<1>3. t.parent[x] = NULL /\ t.red[x] = FALSE /\ \A e \in Side : t.child[e][x] = NULL
  BY <1>2 DEF Bare
<1>4. ~(x # NULL /\ \E e \in Side : x = t.child[e][n])
  BY <1>2 DEF Search, ChildPart
<1> QED BY <1>1, <1>2, <1>3, <1>4 DEF Taken

LEMMA EraseSimpleKeeps == ASSUME IInv, NEW k \in Node, EraseSimple(k) PROVE IInv'
<1>1. PICK edge, bh, sd : Good(Tree, keys, pc, node, above, edge, bh, sd)
  BY DEF IInv
<1> DEFINE c == IF child["left"][k] = NULL THEN child["right"][k] ELSE child["left"][k]
           t == SpliceOut(Tree, k, c)
<1>2. Removed(k, t, c, parent[k], red[k])
  BY DEF EraseSimple
<1>3. k \in keys /\ pc = "idle"
  BY DEF EraseSimple
<1>4. /\ Search(Tree, keys, edge) /\ Bare(Tree, keys) /\ Sound(Tree, keys, "idle", NULL, NULL, edge, bh, sd)
  BY <1>1, <1>3, IdleIs
<1>5. Tree.root = root /\ Tree.child = child /\ Tree.parent = parent /\ Tree.red = red
  BY TreeFields
<1>6. PICK a \in Side : Tree.child[a][k] = NULL /\ c = Tree.child[Other(a)][k]
  <2>1. CASE child["left"][k] = NULL
    BY <1>5, <2>1, Sides
  <2>2. CASE child["left"][k] # NULL
    <3>1. child["right"][k] = NULL
      BY <2>2 DEF EraseSimple
    <3> QED BY <1>5, <2>2, <3>1, Sides
  <2> QED BY <2>1, <2>2
<1> HIDE DEF c
<1>7. c \in keys \cup {NULL} /\ c \in Pointer
  <2>1. Other(a) \in Side
    BY Sides
  <2>2. c \in keys \cup {NULL}
    BY <1>3, <1>4, <1>6, <2>1 DEF Search, ChildPart
  <2> QED BY <1>4, <2>2, KeyFacts, Numbers
<1>8. Spliced(t, Tree, keys, k, c)
  BY <1>3, <1>4, <1>7, SpliceIs
<1> HIDE DEF t
<1>9. Bare(t, keys)
  BY <1>3, <1>4, <1>7, <1>8, SpliceBare
<1>10. PICK d : Sound(t, keys \ {k}, IF red[k] THEN "idle" ELSE "erase", IF red[k] THEN NULL ELSE c,
                      IF red[k] THEN NULL ELSE parent[k], Closed(edge, k), bh, d)
  BY <1>3, <1>4, <1>5, <1>6, <1>8, SpliceSound
<1> QED BY <1>2, <1>9, <1>10, RemovedKeeps

LEMMA EraseInnerKeeps == ASSUME IInv, NEW k \in Node, EraseInner(k) PROVE IInv'
<1>1. PICK edge, bh, sd : Good(Tree, keys, pc, node, above, edge, bh, sd)
  BY DEF IInv
<1> DEFINE top == child["right"][k]
           s == Outermost(Tree, top, "left")
           c == child["right"][s]
           p == IF parent[s] = k THEN s ELSE parent[s]
           out == SpliceOut(Tree, s, c)
           t == TakePlace(out, k, s)
           ks == keys \ {s}
           r == red[s]
           phase == IF r THEN "idle" ELSE "erase"
           nd == IF r THEN NULL ELSE c
           ab == IF r THEN NULL ELSE parent[s]
           e1 == Closed(edge, s)
           e2 == Renamed(e1, k, s)
           b2 == [bh EXCEPT ![s] = bh[k]]
<1>2. /\ pc = "idle" /\ k \in keys /\ top # NULL /\ Removed(k, t, c, p, r)
  BY DEF EraseInner
<1>3. /\ Search(Tree, keys, edge) /\ Bare(Tree, keys) /\ Sound(Tree, keys, "idle", NULL, NULL, edge, bh, sd)
  BY <1>1, <1>2, IdleIs
<1>4. /\ Tree.root = root /\ Tree.child = child /\ Tree.parent = parent /\ Tree.red = red
      /\ \A x \in keys : x # NULL /\ x \in Node /\ x \in Pointer /\ x \in Int
      /\ "left" \in Side /\ "right" \in Side /\ Other("right") = "left" /\ Other("left") = "right"
  <2>1. "left" \in Side /\ "right" \in Side /\ Other("right") = "left" /\ Other("left") = "right"
    BY DEF Side, Other
  <2> QED BY <1>3, <2>1, TreeFields, KeyFacts
<1>5. top \in keys /\ edge["left"][top] = k
  BY <1>2, <1>3, <1>4 DEF Search, ChildPart
<1> HIDE DEF top
<1>6. s \in keys /\ child["left"][s] = NULL /\ IsNext(keys, "right", k, s)
  <2>1. /\ s \in keys /\ Tree.child["left"][s] = NULL
        /\ IsNext(keys, Other("left"), edge["left"][top], s)
    BY <1>3, <1>4, <1>5, OutermostIs
  <2> QED BY <1>4, <1>5, <2>1
<1> HIDE DEF s
<1>7. s # k /\ k < s /\ \A x \in keys : x # k => (x < k <=> x < s) \/ x = s
  <2>1. k < s /\ \A x \in keys : k < x => x = s \/ s < x
    BY <1>6 DEF IsNext, Beyond
  <2>2. k \in Int /\ s \in Int
    BY <1>2, <1>4, <1>6
  <2> QED BY <1>4, <2>1, <2>2
<1>8. c \in keys \cup {NULL} /\ c \in Pointer /\ c = Tree.child[Other("left")][s] /\ Tree.child["left"][s] = NULL
  <2>1. c \in keys \cup {NULL}
    BY <1>3, <1>4, <1>6 DEF Search, ChildPart
  <2> QED BY <1>4, <1>6, <2>1, Numbers
<1>9. c # k
  <2>1. c = k => edge["left"][k] = s
    BY <1>2, <1>3, <1>4, <1>6 DEF Search, ChildPart
  <2>2. c = k => s < k
    BY <1>2, <1>3, <1>4, <2>1 DEF Search, EdgePart, Beyond
  <2> QED BY <1>2, <1>4, <1>6, <1>7, <2>2
<1> HIDE DEF c
<1>10. Spliced(out, Tree, keys, s, c)
  BY <1>3, <1>6, <1>8, SpliceIs
<1> HIDE DEF out
<1>11. Bare(out, keys)
  BY <1>3, <1>6, <1>8, <1>10, SpliceBare
<1>12. PICK d : Sound(out, ks, phase, nd, ab, e1, bh, d)
  BY <1>3, <1>4, <1>6, <1>8, <1>10, SpliceSound
<1> HIDE DEF e1, phase, nd, ab
<1>13. Search(out, ks, e1) /\ k \in ks /\ s \in Node /\ s \notin ks /\ ks \subseteq keys
  BY <1>2, <1>4, <1>6, <1>7, <1>12 DEF Sound
<1>14. Taken(t, out, ks, k, s)
  BY <1>13, TakePlaceIs
<1> HIDE DEF t
<1>15. Sound(t, (ks \ {k}) \cup {s}, phase, IF nd = k THEN s ELSE nd, IF ab = k THEN s ELSE ab, e2, b2, d)
  <2>1. \A x \in ks : x # k => (x < k <=> x < s)
    BY <1>7
  <2> HIDE DEF ks
  <2> QED BY <1>12, <1>13, <1>14, <2>1, TakeSound
<1>16. (ks \ {k}) \cup {s} = keys \ {k}
  BY <1>6, <1>7
<1>17. /\ (IF nd = k THEN s ELSE nd) = (IF r THEN NULL ELSE c)
       /\ (IF ab = k THEN s ELSE ab) = (IF r THEN NULL ELSE p)
  <2>1. NULL # k
    BY <1>2, <1>4
  <2> QED BY <1>9, <2>1 DEF nd, ab
<1>18. Bare(t, keys)
  <2>1. Bare(t, keys \cup {s})
    BY <1>11, <1>13, <1>14, TakeBare
  <2>2. keys \cup {s} = keys
    BY <1>6
  <2> QED BY <2>1, <2>2
<1> HIDE DEF e2, b2, ks, p
<1>19. Sound(t, keys \ {k}, IF r THEN "idle" ELSE "erase", IF r THEN NULL ELSE c, IF r THEN NULL ELSE p, e2, b2, d)
  BY <1>15, <1>16, <1>17 DEF phase
<1> HIDE DEF r
<1> QED BY <1>2, <1>18, <1>19, RemovedKeeps

LEMMA ReplaceKeeps == ASSUME IInv, NEW k \in Node, NEW new \in Node, Replace(k, new) PROVE IInv'
<1>1. PICK edge, bh, sd : Good(Tree, keys, pc, node, above, edge, bh, sd)
  BY DEF IInv
<1> DEFINE t == TakePlace(Tree, k, new)
           v == Forget(t, k)
           all == (keys \ {k}) \cup {new}
           e == Renamed(edge, k, new)
           b == [bh EXCEPT ![new] = bh[k]]
<1>2. /\ pc = "idle" /\ k \in keys /\ new \notin keys /\ Pred(k) < new /\ (Succ(k) = NULL \/ new < Succ(k))
      /\ BecomeTree(v) /\ keys' = all /\ pc' = pc /\ node' = node /\ above' = above
  BY DEF Replace
<1>3. /\ Search(Tree, keys, edge) /\ Bare(Tree, keys) /\ Sound(Tree, keys, "idle", NULL, NULL, edge, bh, sd)
      /\ node = NULL /\ above = NULL
  BY <1>1, <1>2, IdleIs
<1>4. /\ \A x \in keys : x # NULL /\ x \in Node /\ x \in Int
      /\ keys \in SUBSET Node /\ k \in Nat /\ k \in Int /\ new \in Int /\ "left" \in Side /\ "right" \in Side
  <2>1. k \in Nat /\ new \in Int /\ "left" \in Side /\ "right" \in Side
    BY DEF Node, Side
  <2> QED BY <1>2, <1>3, <2>1, KeyFacts
<1>5. \A x \in keys : x # k => (x < k <=> x < new)
  <2>1. ASSUME NEW x \in keys, x < k PROVE x < new
    <3>1. Beyond("left", x, k)
      BY <2>1 DEF Beyond
    <3>2. PICK q : IsNext(keys, "left", k, q)
      BY <1>4, <3>1, NextExists
    <3>3. Pred(k) = q
      BY <1>4, <3>2, SuccIs
    <3>4. q \in keys /\ (x = q \/ x < q)
      BY <3>1, <3>2 DEF IsNext, Beyond
    <3> QED BY <1>2, <1>4, <3>3, <3>4
  <2>2. ASSUME NEW x \in keys, k < x PROVE new < x
    <3>1. Beyond("right", x, k)
      BY <2>2 DEF Beyond
    <3>2. PICK q : IsNext(keys, "right", k, q)
      BY <1>4, <3>1, NextExists
    <3>3. Succ(k) = q
      BY <1>4, <3>2, SuccIs
    <3>4. q \in keys /\ (x = q \/ q < x)
      BY <3>1, <3>2 DEF IsNext, Beyond
    <3>5. new < q
      BY <1>2, <1>4, <3>3, <3>4
    <3> QED BY <1>4, <3>4, <3>5
  <2> QED BY <1>4, <2>1, <2>2
<1>6. Taken(t, Tree, keys, k, new)
  BY <1>2, <1>3, TakePlaceIs
<1> HIDE DEF t
<1>7. Sound(t, all, "idle", NULL, NULL, e, b, sd)
  <2>1. Sound(t, all, "idle", IF NULL = k THEN new ELSE NULL, IF NULL = k THEN new ELSE NULL, e, b, sd)
    BY <1>2, <1>3, <1>5, <1>6, TakeSound
  <2>2. NULL # k
    BY <1>2, <1>4
  <2> HIDE DEF e, b, all
  <2> QED BY <2>1, <2>2
<1>8. Bare(t, keys \cup {new})
  BY <1>2, <1>3, <1>6, TakeBare
<1>9. t \in Trees /\ k \notin all
  BY <1>2, <1>6 DEF Taken
<1>10. Forgotten(v, t, k)
  BY <1>9, ForgetIs
<1> HIDE DEF v, e, b
<1>11. Sound(v, all, "idle", NULL, NULL, e, b, sd)
  BY <1>7, <1>9, <1>10, ForgetKeeps
<1>12. Bare(v, all)
  <2>1. ASSUME NEW x \in Node \ all
        PROVE  v.parent[x] = NULL /\ v.red[x] = FALSE /\ \A f \in Side : v.child[f][x] = NULL
    <3>1. CASE x = k
      BY <1>10, <3>1 DEF Forgotten
    <3>2. CASE x # k
      <4>1. x \in Node \ (keys \cup {new})
        BY <3>2
      <4> QED BY <1>8, <1>10, <3>2, <4>1 DEF Forgotten, Bare
    <3> QED BY <3>1, <3>2
  <2> QED BY <2>1 DEF Bare
<1>13. Good(v, keys', pc', node', above', e, b, sd)
  BY <1>2, <1>3, <1>11, <1>12 DEF Good
<1> QED BY <1>2, <1>13, Kept

-----------------------------------------------------------------------------
(* The theorems *)

LEMMA InitSound == ASSUME Init PROVE IInv
<1> DEFINE edge == [d \in Side |-> [x \in Node |-> End(d)]]
           bh == [x \in Pointer |-> 1]
<1>1. /\ Tree.root = NULL /\ Tree.child = [d \in Side |-> [n \in Node |-> NULL]]
      /\ Tree.parent = [n \in Node |-> NULL] /\ Tree.red = [n \in Node |-> FALSE]
      /\ pc = "idle" /\ node = NULL /\ above = NULL /\ keys = {}
  BY TreeFields DEF Init
<1>2. Tree \in Trees
  BY Numbers DEF Init, Tree, Trees
<1>3. edge \in [Side -> [Node -> Bound]]
  BY Numbers
<1> HIDE DEF edge
<1>4. Search(Tree, keys, edge)
  BY <1>1, <1>2, <1>3 DEF Search, Typed, RootPart, ParentPart, EdgePart, ChildPart, GapPart
<1>5. Bare(Tree, keys)
  BY <1>1 DEF Bare
<1>6. Hole(Tree, pc, node, above) = NULL /\ "left" \in Side
  BY <1>1 DEF Hole, Side
<1>7. bh \in [Pointer -> Nat \ {0}] /\ bh[NULL] = 1
  BY Numbers
<1> HIDE DEF bh
<1>8. Balanced(Tree, keys, bh, Hole(Tree, pc, node, above), "left")
  BY <1>1, <1>7 DEF Balanced
<1>9. Colours(Tree, keys, pc, node) /\ Loop(Tree, keys, pc, node, above, "left")
  BY <1>1, <1>6 DEF Colours, Loop, IsRed
<1> QED BY <1>4, <1>5, <1>8, <1>9 DEF IInv, Good, Sound

\* Every step of a call, and every call, keeps the tree good.
LEMMA StepSound == ASSUME IInv, [Next]_vars PROVE IInv'
<1>1. CASE \E k \in Node : Insert(k) \/ EraseSimple(k) \/ EraseInner(k) \/ \E m \in Node : Replace(k, m)
  <2>1. PICK k \in Node : Insert(k) \/ EraseSimple(k) \/ EraseInner(k) \/ \E m \in Node : Replace(k, m)
    BY <1>1
  <2>2. CASE Insert(k)
    BY <2>2, InsertKeeps
  <2>3. CASE EraseSimple(k)
    BY <2>3, EraseSimpleKeeps
  <2>4. CASE EraseInner(k)
    BY <2>4, EraseInnerKeeps
  <2>5. CASE \E m \in Node : Replace(k, m)
    BY <2>5, ReplaceKeeps
  <2> QED BY <2>1, <2>2, <2>3, <2>4, <2>5
<1>2. CASE Recolour
  BY <1>2, RecolourKeeps
<1>3. CASE RotateInsert
  BY <1>3, RotateInsertKeeps
<1>4. CASE InsertDone
  BY <1>4, InsertDoneKeeps
<1>5. CASE EraseRedSibling
  BY <1>5, EraseRedSiblingKeeps
<1>6. CASE EraseRecolour
  BY <1>6, EraseRecolourKeeps
<1>7. CASE EraseRotate
  BY <1>7, EraseRotateKeeps
<1>8. CASE EraseDone
  BY <1>8, EraseDoneKeeps
<1>9. CASE UNCHANGED vars
  <2>1. Tree' = Tree /\ keys' = keys /\ pc' = pc /\ node' = node /\ above' = above
    BY <1>9 DEF vars, Tree
  <2> QED BY <2>1 DEF IInv
<1> QED BY <1>1, <1>2, <1>3, <1>4, <1>5, <1>6, <1>7, <1>8, <1>9 DEF Next, InLoop

\* Between any two turns of the loops the tree is good: in the order of its
\* keys, and balanced but for the one defect the loop variables name.
THEOREM TreeStaysGood == Spec => []IInv
<1>1. Init => IInv
  BY InitSound
<1>2. IInv /\ [Next]_vars => IInv'
  BY StepSound
<1> QED BY <1>1, <1>2, PTL DEF Spec

\* Every link and loop variable of hmp_rbtree.c holds a node or NULL, and no
\* node is ever linked to itself, which rb_next and rb_prev read as "in no tree".
THEOREM TreeTypeCorrect == Spec => []TypeOK
<1>1. IInv => TypeOK
  BY TypeInv
<1> QED BY <1>1, TreeStaysGood, PTL

\* rb_first, rb_last, rb_next and rb_prev see exactly the keys that were linked
\* and not erased, in order, whatever rotations and replacements there were,
\* and also between two turns of rb_insert_color and of __rb_erase_color.
THEOREM WalksSeeKeys == Spec => []WalkSeesKeys
<1>1. IInv => WalkSeesKeys
  BY Implied
<1> QED BY <1>1, TreeStaysGood, PTL

\* A call leaves a red-black tree, and in the middle of one there is no defect
\* but the one that the loop of rb_insert_color or __rb_erase_color is at.
THEOREM OnlyOneDefect == Spec => []OneDefect
<1>1. IInv => OneDefect
  BY Implied
<1> QED BY <1>1, TreeStaysGood, PTL
=============================================================================
