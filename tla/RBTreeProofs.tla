---------------------------- MODULE RBTreeProofs -----------------------------
(***************************************************************************)
(* Proofs about the red-black tree, for every set of nodes, every msec_t   *)
(* and every workload.                                                     *)
(*                                                                         *)
(* The inductive invariant TreeInv says that some layout fits the tree     *)
(* (Shape), which is a red-black tree between calls and during the descent *)
(* of an insert (Calm), has a red node with perhaps a red parent in the    *)
(* loop of rbtree_insert (Growing), and lacks a black node on the paths    *)
(* through temp in that of rbtree_delete (Shrinking); and that the order   *)
(* of the layout is the order of the keys (Searchable).  The last rests,   *)
(* for timers, on KeysClose: signed differences order keys only if these   *)
(* are in one half of their circle.                                        *)
(*                                                                         *)
(* RoundsInv adds to it that the iterations a call has made are paid for   *)
(* by the black heights it has passed.                                     *)
(***************************************************************************)
EXTENDS RBTreeShape, FiniteSetTheorems

-----------------------------------------------------------------------------
(* The loop of rbtree_insert. *)

\* The links of y are those of x.
SameLinks(x, y) ==
    /\ Root(y) = Root(x)
    /\ \A e, m : e \in Sides /\ m \in Places => Kid(y, e, m) = Kid(x, e, m)
    /\ \A m : m \in Places => Par(y, m) = Par(x, m)

\* Colours are no part of the shape.
LEMMA PaintShape ==
    ASSUME NEW x, NEW w, Shape(x, w), NEW n \in Places
    PROVE  /\ Shape(Black(x, n), w) /\ SameLinks(x, Black(x, n)) /\ Reds(Black(x, n)) = Reds(x) \ {n}
           /\ Shape(Red(x, n), w) /\ SameLinks(x, Red(x, n)) /\ Reds(Red(x, n)) = Reds(x) \cup {n}
           /\ \A r : r \in BOOLEAN =>
                 /\ Shape(SetRed(x, n, r), w) /\ SameLinks(x, SetRed(x, n, r))
                 /\ Reds(SetRed(x, n, r)) = IF r THEN Reds(x) \cup {n} ELSE Reds(x) \ {n}
<1>1. x \in Trees
  BY DEF Shape
<1>2. ASSUME NEW y \in Trees, SameLinks(x, y) PROVE Shape(y, w)
  <2>1. /\ Root(y) = Root(x)
        /\ \A e, m : e \in Sides /\ m \in Places => Kid(y, e, m) = Kid(x, e, m)
        /\ \A m : m \in Nodes => Par(y, m) = Par(x, m)
    BY <1>2, Apart DEF SameLinks
  <2> QED BY <2>1, SameShape
<1>3. Black(x, n) \in Trees /\ SameLinks(x, Black(x, n)) /\ Reds(Black(x, n)) = Reds(x) \ {n}
  BY <1>1, ColourEffect DEF SameLinks
<1>4. Red(x, n) \in Trees /\ SameLinks(x, Red(x, n)) /\ Reds(Red(x, n)) = Reds(x) \cup {n}
  BY <1>1, ColourEffect DEF SameLinks
<1>5. \A r : r \in BOOLEAN => /\ SetRed(x, n, r) \in Trees /\ SameLinks(x, SetRed(x, n, r))
                              /\ Reds(SetRed(x, n, r)) = IF r THEN Reds(x) \cup {n} ELSE Reds(x) \ {n}
  BY <1>1, SetRedEffect DEF SameLinks
<1> QED BY <1>2, <1>3, <1>4, <1>5

\* The nodes of v are those of w, in the same order.
Same(w, v) == Members(v) = Members(w) /\ \A m : m \in Members(w) => Pos(v, m) = Pos(w, m)

\* Same is reflexive and transitive.
LEMMA SameIs ==
    /\ \A w : Same(w, w)
    /\ \A w, v, u : Same(w, v) /\ Same(v, u) => Same(w, u)
BY DEF Same

\* What RotateShape says of the links.
LEMMA RotateTurns ==
    ASSUME NEW x, NEW w, Shape(x, w), NEW n \in Members(w), NEW d \in Sides,
           NEW up, up = Kid(x, Other(d), n), up # Sentinel
    PROVE  /\ Turned(x, Rotate(x, n, d), Members(w), n, d, up)
           /\ Reds(Rotate(x, n, d)) = Reds(x) /\ Par(Rotate(x, n, d), n) = up
           /\ Par(Rotate(x, n, d), Sentinel) = Par(x, Sentinel)
           /\ \E v : Shape(Rotate(x, n, d), v) /\ Same(w, v)
<1> DEFINE y == Rotate(x, n, d)
<1>1. /\ Reds(y) = Reds(x)
      /\ Root(y) = IF n = Root(x) THEN up ELSE Root(x)
      /\ \A e, m : e \in Sides /\ m \in Members(w) =>
            Kid(y, e, m) = IF m = n /\ e = Other(d) THEN Kid(x, d, up)
                           ELSE IF m = up /\ e = d THEN n
                           ELSE IF Kid(x, e, m) = n THEN up
                           ELSE Kid(x, e, m)
      /\ Par(y, n) = up
      /\ Par(y, Sentinel) = Par(x, Sentinel)
      /\ \E v : /\ Shape(y, v)
                /\ Members(v) = Members(w) /\ Size(v) = Size(w)
                /\ \A m : m \in Nodes => Pos(v, m) = Pos(w, m)
  BY RotateShape
<1> HIDE DEF y
<1>2. Turned(x, y, Members(w), n, d, up)
  BY <1>1 DEF Turned
<1>3. PICK v : Shape(y, v) /\ Members(v) = Members(w) /\ \A m : m \in Nodes => Pos(v, m) = Pos(w, m)
  BY <1>1
<1>4. Same(w, v)
  BY <1>3, ShapeTypes DEF Same
<1> QED BY <1>1, <1>2, <1>3, <1>4 DEF y

\* Between two operations, and while rbtree_insert looks for the place.
Calm(x, w) == \E h : Balanced(x, Members(w), h, "left", None) /\ Painted(x, Members(w), None, None)

\* In the loop of rbtree_insert: node n may have a red parent, or be a red root.
Growing(x, w, n) ==
    /\ n \in Members(w) /\ n \in Reds(x)
    /\ \E h : Balanced(x, Members(w), h, "left", None)
    /\ Painted(x, Members(w), n, None)

\* The loop of rbtree_insert has nothing to do at n.
Settled(x, n) == n = Root(x) \/ Par(x, n) \notin Reds(x)

\* Whatever black heights the nodes M of x have, those of the nodes N of y may be
\* such that the root's is the same, and that of m is i more than that of n was.
Lifted(x, M, y, N, n, m, i) ==
    \A h : Balanced(x, M, h, "left", None) =>
        \E h1 : /\ Balanced(y, N, h1, "left", None)
               /\ Hgt(h1, Root(y)) = Hgt(h, Root(x)) /\ Hgt(h1, m) = Hgt(h, n) + i

\* The last rotation of rbtree_insert.
LEMMA InsertTurn ==
    ASSUME NEW x, NEW w, Shape(x, w), NEW d \in Sides,
           NEW g \in Members(w), NEW p \in Members(w), p = Kid(x, d, g), NEW n, n = Kid(x, d, p),
           p \in Reds(x), g \notin Reds(x), Kid(x, Other(d), g) \notin Reds(x), Growing(x, w, n),
           NEW y, y = Rotate(Red(Black(x, p), g), g, Other(d))
    PROVE  (\E v : Shape(y, v) /\ Same(w, v) /\ Growing(y, v, n)) /\ Settled(y, n)
<1> DEFINE z1 == Black(x, p)
           z == Red(z1, g)
           M == Members(w)
<1>1. p \in Places /\ g \in Places /\ \A m : m \in M => m \in Places /\ m # Sentinel
  BY ShapeTypes
<1>2. Shape(z1, w) /\ SameLinks(x, z1) /\ Reds(z1) = Reds(x) \ {p}
  BY <1>1, PaintShape
<1> HIDE DEF z1
<1>3. Shape(z, w) /\ SameLinks(z1, z) /\ Reds(z) = Reds(z1) \cup {g}
  BY <1>1, <1>2, PaintShape
<1> HIDE DEF z
<1>4. SameLinks(x, z) /\ Reds(z) = (Reds(x) \ {p}) \cup {g}
  BY <1>2, <1>3 DEF SameLinks
<1>5. y = Rotate(z, g, Other(d)) /\ Other(d) \in Sides /\ Other(Other(d)) = d
  BY Mirror DEF z, z1
<1>6. p = Kid(z, d, g) /\ p # Sentinel
  BY <1>1, <1>4 DEF SameLinks
<1>7. Turned(z, y, M, g, Other(d), p) /\ Reds(y) = Reds(z) /\ \E v : Shape(y, v) /\ Same(w, v)
  BY <1>3, <1>5, <1>6, RotateTurns
<1>8. Turned(x, y, M, g, Other(d), p)
  BY <1>1, <1>4, <1>5, <1>7 DEF Turned, SameLinks
<1>9. PICK h : Balanced(x, M, h, "left", None)
  BY DEF Growing
<1>10. n \in M /\ n \in Reds(x) /\ Painted(x, M, n, None)
  BY DEF Growing
<1>11. Reds(y) = (Reds(x) \ {p}) \cup {g}
  BY <1>4, <1>7
<1>12. /\ \E h1 : Balanced(y, M, h1, "left", None)
       /\ Painted(y, M, n, None)
  BY <1>8, <1>9, <1>10, <1>11, InsertOuter
<1>13. n # p
  <2>1. n # Sentinel
    BY <1>1, <1>10
  <2> QED BY <2>1, KidIs
<1>14. PICK v : Shape(y, v) /\ Same(w, v)
  BY <1>7
<1>15. Growing(y, v, n)
  BY <1>10, <1>11, <1>12, <1>13, <1>14 DEF Growing, Same
<1>16. Settled(y, n)
  <2>1. n # g /\ Kid(x, d, p) = n /\ p # g
    <3>1. p # g
      BY <1>6, <1>3, KidIs
    <3> QED BY <1>10, <3>1
  <2>2. Kid(y, d, p) = n
    BY <1>5, <1>8, <2>1 DEF Turned
  <2>3. n # Sentinel /\ p \in Members(v)
    BY <1>1, <1>10, <1>14 DEF Same
  <2>4. Par(y, n) = p
    BY <1>14, <2>2, <2>3, KidIs
  <2>5. p \notin Reds(y)
    BY <1>11, <2>1
  <2> QED BY <2>4, <2>5 DEF Settled
<1> QED BY <1>14, <1>15, <1>16

\* One iteration of the loop of rbtree_insert.
LEMMA InsertFixStep ==
    ASSUME NEW w, Shape(t, w), Growing(t, w, node), InsertFix
    PROVE  /\ \E v : Shape(t', v) /\ Same(w, v) /\ Growing(t', v, node')
           /\ Settled(t', node') \/ Lifted(t, Members(w), t', Members(w), node, node', 1)
<1> DEFINE p == Par(t, node)
           g == Par(t, p)
           d == SideOf(t, p)
           o == Other(d)
           u == Kid(t, o, g)
           M == Members(w)
<1>1. /\ node \in M /\ node \in Reds(t) /\ Painted(t, M, node, None) /\ node # Root(t)
      /\ \A m : m \in M => m \in Nodes /\ m \in Places /\ m # Sentinel /\ m # None
      /\ t \in Trees
  BY ShapeTypes, Apart DEF Growing, InsertFix, InsertUnbalanced, Root
<1>2. PICK h : Balanced(t, M, h, "left", None)
  BY DEF Growing
<1>3. /\ p \in M /\ p # node /\ SideOf(t, node) \in Sides /\ Kid(t, SideOf(t, node), p) = node
      /\ p \in Reds(t)
  <2>1. p \in M /\ p # node /\ SideOf(t, node) \in Sides /\ Kid(t, SideOf(t, node), p) = node
    BY <1>1, ParentIs
  <2>2. t.red[p]
    BY DEF InsertFix, InsertUnbalanced, Par
  <2> QED BY <1>1, <2>1, <2>2, TreeTypes
<1>4. p # Root(t)
  BY <1>1, <1>3 DEF Painted
<1>5. g \in M /\ g # p /\ d \in Sides /\ Kid(t, d, g) = p
  BY <1>3, <1>4, ParentIs
<1>6. g \notin Reds(t)
  BY <1>1, <1>3, <1>5 DEF Painted
<1>7. o \in Sides /\ o # d /\ Other(o) = d /\ \A e : e \in Sides => e = d \/ e = o
  BY <1>5, Mirror
<1>8. u \in M \cup {Sentinel} /\ Sentinel \notin Reds(t) /\ u \in Places
  BY <1>1, <1>2, <1>5, <1>7, HeightFacts
<1> HIDE DEF M
<1>9. CASE u \in Reds(t)
  <2>1. t' = Red(Black(Black(t, p), u), g) /\ node' = g
    <3>1. t.red[u]
      BY <1>8, <1>1, <1>9, TreeTypes
    <3> QED BY <3>1 DEF InsertFix, Kid, Par
  <2> DEFINE y1 == Black(t, p)
             y2 == Black(y1, u)
             y == Red(y2, g)
  <2>2. Shape(y1, w) /\ SameLinks(t, y1) /\ Reds(y1) = Reds(t) \ {p}
    BY <1>1, <1>3, PaintShape
  <2> HIDE DEF y1
  <2>3. Shape(y2, w) /\ SameLinks(y1, y2) /\ Reds(y2) = Reds(y1) \ {u}
    BY <1>8, <2>2, PaintShape
  <2> HIDE DEF y2
  <2>4. Shape(y, w) /\ SameLinks(y2, y) /\ Reds(y) = Reds(y2) \cup {g}
    BY <1>1, <1>5, <2>3, PaintShape
  <2>5. t' = y
    BY <2>1 DEF y, y2, y1
  <2> HIDE DEF y
  <2>6. SameLinks(t, y) /\ Reds(y) = ((Reds(t) \ {p}) \ {u}) \cup {g}
    BY <2>2, <2>3, <2>4 DEF SameLinks
  <2>7. Root(y) = Root(t) /\ \A e, m : e \in Sides /\ m \in Places => Kid(y, e, m) = Kid(t, e, m)
    BY <2>6 DEF SameLinks
  <2>8. (\E h1 : Balanced(y, M, h1, "left", None)) /\ Painted(y, M, g, None)
    <3>1. Balanced(t, Members(w), h, "left", None) /\ Painted(t, Members(w), node, None)
      BY <1>1, <1>2 DEF M
    <3>2. node \in Members(w) /\ p \in Members(w) /\ g \in Members(w) /\ p = Kid(t, d, g)
      BY <1>1, <1>3, <1>5 DEF M
    <3>3. (\E h1 : Balanced(y, Members(w), h1, "left", None)) /\ Painted(y, Members(w), g, None)
      BY <1>1, <1>3, <1>5, <1>6, <1>9, <2>6, <2>7, <3>1, <3>2, InsertClimb
    <3> QED BY <3>3 DEF M
  <2>10. Lifted(t, M, y, M, node, g, 1)
    <3> SUFFICES ASSUME NEW h1, Balanced(t, M, h1, "left", None)
                 PROVE  \E h2 : /\ Balanced(y, M, h2, "left", None)
                               /\ Hgt(h2, Root(y)) = Hgt(h1, Root(t)) /\ Hgt(h2, g) = Hgt(h1, node) + 1
      BY DEF Lifted
    <3>1. Balanced(t, Members(w), h1, "left", None) /\ Painted(t, Members(w), node, None)
      BY <1>1 DEF M
    <3>2. node \in Members(w) /\ p \in Members(w) /\ g \in Members(w) /\ p = Kid(t, d, g)
      BY <1>1, <1>3, <1>5 DEF M
    <3>3. \E h2 : /\ Balanced(y, Members(w), h2, "left", None)
                 /\ Hgt(h2, Root(y)) = Hgt(h1, Root(t)) /\ Hgt(h2, g) = Hgt(h1, node) + 1
      BY <1>1, <1>3, <1>5, <1>6, <1>9, <2>6, <2>7, <3>1, <3>2, InsertClimb
    <3> QED BY <3>3 DEF M
  <2>9. Growing(y, w, g)
    BY <1>5, <2>6, <2>8 DEF Growing, M
  <2> QED BY <2>1, <2>4, <2>5, <2>9, <2>10, SameIs DEF M
<1>10. CASE u \notin Reds(t) /\ node # Kid(t, o, p)
  <2>1. Kid(t, d, p) = node
    BY <1>3, <1>7, <1>10
  <2>2. t' = Rotate(Red(Black(t, p), g), g, o) /\ node' = node
    <3>1. ~t.red[u]
      BY <1>8, <1>1, <1>10, TreeTypes
    <3> QED BY <1>10, <3>1 DEF InsertFix, Kid, Par
  <2>3. (\E v : Shape(t', v) /\ Same(w, v) /\ Growing(t', v, node)) /\ Settled(t', node)
    <3> HIDE DEF p, g, d, u
    <3>1. g \in Members(w) /\ p \in Members(w) /\ p = Kid(t, d, g) /\ node = Kid(t, d, p) /\ d \in Sides
      BY <1>3, <1>5, <2>1 DEF M
    <3>2. Kid(t, Other(d), g) \notin Reds(t)
      BY <1>10 DEF u
    <3> QED BY <1>3, <1>6, <2>2, <3>1, <3>2, InsertTurn
  <2> QED BY <2>2, <2>3
<1>11. CASE u \notin Reds(t) /\ node = Kid(t, o, p)
  <2> DEFINE x == Rotate(t, p, d)
  <2>1. t' = Rotate(Red(Black(x, Par(x, p)), Par(x, Par(x, p))), Par(x, Par(x, p)), o) /\ node' = p
    <3>1. ~t.red[u]
      BY <1>8, <1>1, <1>11, TreeTypes
    <3> QED BY <1>11, <3>1 DEF InsertFix, Kid, Par
  <2>2. Turned(t, x, M, p, d, node) /\ Reds(x) = Reds(t) /\ Par(x, p) = node /\ \E v : Shape(x, v) /\ Same(w, v)
    BY <1>1, <1>3, <1>5, <1>11, RotateTurns DEF M
  <2> HIDE DEF x, p, g, d
  <2>3. PICK v : Shape(x, v) /\ Same(w, v)
    BY <2>2
  <2>4. Balanced(x, M, h, "left", None) /\ Painted(x, M, p, None) /\ Root(x) = Root(t)
    <3>1. M = Members(w)
      BY DEF M
    <3> QED BY <1>1, <1>2, <1>3, <1>5, <1>11, <2>2, <3>1, InsertInner DEF o
  <2>5. Kid(x, d, g) = node /\ Kid(x, d, node) = p /\ Kid(x, o, g) = u
    <3>1. g # p /\ g # node /\ u # p
      BY <1>1, <1>3, <1>5, <1>6, <1>11
    <3> QED BY <1>1, <1>3, <1>5, <1>7, <2>2, <3>1 DEF Turned, u
  <2>6. Par(x, node) = g
    <3>1. g \in Members(v) /\ node = Kid(x, d, g) /\ node # Sentinel
      BY <1>1, <1>5, <2>3, <2>5 DEF Same, M
    <3> QED BY <1>5, <2>3, <3>1, KidIs
  <2>7. t' = Rotate(Red(Black(x, node), g), g, Other(d))
    BY <2>1, <2>2, <2>6 DEF o
  <2>8. Growing(x, v, p)
    BY <1>3, <2>2, <2>3, <2>4 DEF Growing, Same, M
  <2>9. (\E v1 : Shape(t', v1) /\ Same(v, v1) /\ Growing(t', v1, p)) /\ Settled(t', p)
    <3>1. g \in Members(v) /\ node \in Members(v) /\ node = Kid(x, d, g) /\ p = Kid(x, d, node) /\ d \in Sides
      BY <1>1, <1>5, <2>3, <2>5 DEF Same, M
    <3>2. node \in Reds(x) /\ g \notin Reds(x) /\ Kid(x, Other(d), g) \notin Reds(x)
      BY <1>1, <1>6, <1>11, <2>2, <2>5 DEF o
    <3> QED BY <2>3, <2>7, <2>8, <3>1, <3>2, InsertTurn
  <2> QED BY <2>1, <2>3, <2>9, SameIs
<1> QED BY <1>9, <1>10, <1>11

-----------------------------------------------------------------------------
(* The loop of rbtree_delete. *)

\* In the loop of rbtree_delete: the paths through c have a black node less.
Shrinking(x, w, c) ==
    /\ c \in Places
    /\ Painted(x, Members(w), c, c)
    /\ c = Root(x) => \E h : Balanced(x, Members(w), h, "left", None)
    /\ c # Root(x) => \E h, d, p : /\ d \in Sides /\ p \in Members(w) /\ Kid(x, d, p) = c /\ Par(x, c) = p
                                   /\ Balanced(x, Members(w), h, d, p)

\* The same of a black c below p.
Hole(x, w, d, p, c) ==
    /\ d \in Sides /\ p \in Members(w) /\ Kid(x, d, p) = c /\ Par(x, c) = p /\ c \in Places /\ c \notin Reds(x)
    /\ \E h : Balanced(x, Members(w), h, d, p)
    /\ Painted(x, Members(w), None, None)

\* The sibling of c is a node, and so are the children of a red one.
LEMMA HoleIs ==
    ASSUME NEW x, NEW w, Shape(x, w), NEW d, NEW p, NEW c, Hole(x, w, d, p, c),
           NEW s, s = Kid(x, Other(d), p)
    PROVE  /\ s \in Members(w) /\ s # c /\ s # p /\ c # p /\ c # Root(x)
           /\ \A e : e \in Sides /\ s \in Reds(x) => Kid(x, e, s) \in Members(w)
<1> DEFINE M == Members(w)
           o == Other(d)
<1>1. PICK h : Balanced(x, M, h, d, p)
  BY DEF Hole
<1>2. d \in Sides /\ p \in M /\ Kid(x, d, p) = c /\ Kid(x, o, p) = s /\ o \in Sides /\ o # d
  BY Mirror DEF Hole
<1> HIDE DEF M, o
<1>3. M = Members(w)
  BY DEF M
<1>4. /\ \A e, m : e \in Sides /\ m \in M =>
             /\ Kid(x, e, m) \in M \cup {Sentinel} /\ Kid(x, e, m) \in Places /\ Kid(x, e, m) # m
             /\ Hgt(h, Kid(x, e, m)) \in Nat
             /\ Hgt(h, m) = Hgt(h, Kid(x, e, m)) + (IF m \in Reds(x) THEN 0 ELSE 1) + (IF e = d /\ m = p THEN 1 ELSE 0)
      /\ \A e, m, k : e \in Sides /\ m \in M /\ k = Kid(x, e, m) /\ k \in M =>
             k # Root(x) /\ Par(x, k) = m /\ SideOf(x, k) = e
      /\ Sentinel \notin M /\ None \notin M /\ Sentinel \in Places /\ Root(x) \in M \cup {Sentinel}
      /\ Hgt(h, Sentinel) = 0 /\ Sentinel \notin Reds(x)
  BY <1>1, <1>3, HeightFacts
<1>5. Hgt(h, c) \in Nat /\ Hgt(h, s) = Hgt(h, c) + 1 /\ s # p /\ c # p
  BY <1>2, <1>4
<1>6. s \in M /\ s # c
  BY <1>2, <1>4, <1>5
<1>7. c # Root(x)
  BY <1>2, <1>3, <1>4, RootIs
<1>8. ASSUME NEW e \in Sides, s \in Reds(x) PROVE Kid(x, e, s) \in M
  <2>1. Hgt(h, s) = Hgt(h, Kid(x, e, s)) /\ Kid(x, e, s) \in M \cup {Sentinel}
    BY <1>4, <1>5, <1>6, <1>8
  <2> QED BY <1>4, <1>5, <2>1
<1> QED BY <1>3, <1>5, <1>6, <1>7, <1>8

\* temp, if it is black and not the root, makes a hole on its side.
LEMMA ShrinkingHole ==
    ASSUME NEW x, NEW w, Shape(x, w), NEW c, Shrinking(x, w, c), c # Root(x), c \notin Reds(x)
    PROVE  Hole(x, w, SideOf(x, c), Par(x, c), c)
<1>1. PICK h, d, p : /\ d \in Sides /\ p \in Members(w) /\ Kid(x, d, p) = c /\ Par(x, c) = p
                     /\ Balanced(x, Members(w), h, d, p)
  BY DEF Shrinking
<1>2. Painted(x, Members(w), None, None)
  BY DEF Shrinking, Painted
<1>3. Hole(x, w, d, p, c)
  BY <1>1, <1>2 DEF Shrinking, Hole
<1>4. Kid(x, Other(d), p) # c
  BY <1>3, HoleIs
<1>5. SideOf(x, c) = d
  BY <1>1, <1>4, SideIs, LeftRight
<1> QED BY <1>1, <1>3, <1>5

\* The parent link of c after a rotation that leaves c below p.
LEMMA ParentKept ==
    ASSUME NEW x, NEW w, Shape(x, w), NEW d \in Sides, NEW p \in Members(w), NEW c, Par(x, c) = p,
           NEW y, NEW v, Shape(y, v), Members(v) = Members(w), Kid(y, d, p) = c, Par(y, Sentinel) = Par(x, Sentinel)
    PROVE  Par(y, c) = p
<1>1. CASE c = Sentinel
  BY <1>1
<1>2. CASE c # Sentinel
  BY <1>2, KidIs
<1> QED BY <1>1, <1>2

\* First the sibling, if it is red, is rotated away.
LEMMA RedSiblingStep ==
    ASSUME NEW x, NEW w, Shape(x, w), NEW d, NEW p, NEW c, Hole(x, w, d, p, c),
           NEW s, s = Kid(x, Other(d), p), s \in Reds(x), NEW y, y = Rotate(Red(Black(x, s), p), p, d)
    PROVE  \E v : Shape(y, v) /\ Same(w, v) /\ Hole(y, v, d, p, c) /\ Kid(y, Other(d), p) \notin Reds(y) /\ p \in Reds(y)
<1> DEFINE z1 == Black(x, s)
           z == Red(z1, p)
           M == Members(w)
<1>1. /\ s \in M /\ s # c /\ s # p /\ c # p /\ p \in M /\ d \in Sides /\ c \notin Reds(x) /\ c \in Places
      /\ Kid(x, d, p) = c /\ Par(x, c) = p /\ Painted(x, M, None, None)
      /\ \A m : m \in M => m \in Places /\ m # Sentinel
  BY HoleIs, ShapeTypes DEF Hole
<1>2. PICK h : Balanced(x, M, h, d, p)
  BY DEF Hole
<1>3. Shape(z1, w) /\ SameLinks(x, z1) /\ Reds(z1) = Reds(x) \ {s}
  BY <1>1, PaintShape
<1> HIDE DEF z1
<1>4. Shape(z, w) /\ SameLinks(z1, z) /\ Reds(z) = Reds(z1) \cup {p}
  BY <1>1, <1>3, PaintShape
<1> HIDE DEF z
<1>5. SameLinks(x, z) /\ Reds(z) = (Reds(x) \ {s}) \cup {p} /\ Sentinel \in Places
  BY <1>3, <1>4, Apart DEF SameLinks
<1>6. y = Rotate(z, p, d) /\ s = Kid(z, Other(d), p) /\ s # Sentinel
  BY <1>1, <1>5, Mirror DEF SameLinks, z, z1
<1>7. Turned(z, y, M, p, d, s) /\ Reds(y) = Reds(z) /\ Par(y, Sentinel) = Par(z, Sentinel) /\ \E v : Shape(y, v) /\ Same(w, v)
  BY <1>1, <1>4, <1>6, RotateTurns
<1>8. Turned(x, y, M, p, d, s) /\ Reds(y) = (Reds(x) \ {s}) \cup {p} /\ Par(y, Sentinel) = Par(x, Sentinel)
  BY <1>1, <1>5, <1>7, Mirror DEF Turned, SameLinks
<1>9. /\ \E h1 : Balanced(y, M, h1, d, p)
      /\ Painted(y, M, None, None) /\ Kid(y, d, p) = c /\ Kid(y, Other(d), p) \notin Reds(y)
  <2> HIDE DEF M
  <2>1. M = Members(w)
    BY DEF M
  <2>2. Kid(x, d, p) \notin Reds(x)
    BY <1>1
  <2>3. /\ (\E h1 : Balanced(y, M, h1, d, p)) /\ Painted(y, M, None, None)
        /\ Kid(y, d, p) = Kid(x, d, p) /\ Kid(y, Other(d), p) \notin Reds(y) /\ s \in M
    BY <1>1, <1>2, <1>8, <2>1, <2>2, DeleteRedSibling
  <2> QED BY <1>1, <2>3
<1>10. PICK v : Shape(y, v) /\ Same(w, v)
  BY <1>7
<1>11. Members(v) = M
  BY <1>10 DEF Same
<1>12. Par(y, c) = p
  BY <1>1, <1>8, <1>9, <1>10, <1>11, ParentKept
<1>13. Hole(y, v, d, p, c)
  BY <1>1, <1>8, <1>9, <1>11, <1>12 DEF Hole
<1> QED BY <1>8, <1>9, <1>10, <1>13

\* Unless p ends the loop of rbtree_delete, the place that lacks a black node has
\* become higher than c was.
Raised(x, M, d, c, y, p) ==
    \/ p = Root(y) \/ p \in Reds(y)
    \/ \A h : Balanced(x, M, h, d, Par(x, c)) =>
          \E h1 : Balanced(y, M, h1, SideOf(y, p), Par(y, p)) /\ Hgt(h1, p) = Hgt(h, c) + 1

\* The hole moves up.
LEMMA ClimbStep ==
    ASSUME NEW x, NEW w, Shape(x, w), NEW d, NEW p, NEW c, Hole(x, w, d, p, c),
           NEW s, s = Kid(x, Other(d), p), s \notin Reds(x),
           \A e : e \in Sides => Kid(x, e, s) \notin Reds(x), NEW y, y = Red(x, s)
    PROVE  Shape(y, w) /\ Shrinking(y, w, p) /\ Raised(x, Members(w), d, c, y, p)
<1> DEFINE M == Members(w)
<1>1. /\ s \in M /\ p \in M /\ d \in Sides /\ Painted(x, M, None, None)
      /\ \A m : m \in M => m \in Places
  BY HoleIs, ShapeTypes DEF Hole
<1>2. PICK h : Balanced(x, M, h, d, p)
  BY DEF Hole
<1>3. Shape(y, w) /\ SameLinks(x, y) /\ Reds(y) = Reds(x) \cup {s}
  BY <1>1, PaintShape
<1>4. Root(y) = Root(x) /\ \A e, m : e \in Sides /\ m \in Places => Kid(y, e, m) = Kid(x, e, m)
  BY <1>3 DEF SameLinks
<1>5. /\ Painted(y, M, p, p)
      /\ p = Root(x) => \E h1 : Balanced(y, M, h1, "left", None)
      /\ p # Root(x) => \E h1 : Balanced(y, M, h1, SideOf(x, p), Par(x, p))
  <2> HIDE DEF M
  <2>1. M = Members(w)
    BY DEF M
  <2> QED BY <1>1, <1>2, <1>3, <1>4, <2>1, DeleteClimb
<1>6. ASSUME p # Root(y)
      PROVE  \E h1, e, q : /\ e \in Sides /\ q \in M /\ Kid(y, e, q) = p /\ Par(y, p) = q
                           /\ Balanced(y, M, h1, e, q)
  <2>1. PICK h1 : Balanced(y, M, h1, SideOf(x, p), Par(x, p))
    BY <1>4, <1>5, <1>6
  <2>2. Par(x, p) \in M /\ SideOf(x, p) \in Sides /\ Kid(x, SideOf(x, p), Par(x, p)) = p
    BY <1>1, <1>4, <1>6, ParentIs
  <2>3. Kid(y, SideOf(x, p), Par(x, p)) = p /\ Par(y, p) = Par(x, p)
    BY <1>1, <1>3, <2>2 DEF SameLinks
  <2> QED BY <2>1, <2>2, <2>3
<1>7. Raised(x, M, d, c, y, p)
  <2> SUFFICES ASSUME NEW h1, Balanced(x, M, h1, d, p), p # Root(y), p \notin Reds(y)
               PROVE  \E h2 : Balanced(y, M, h2, SideOf(y, p), Par(y, p)) /\ Hgt(h2, p) = Hgt(h1, c) + 1
    BY DEF Raised, Hole
  <2>1. p # Root(x) /\ p \notin Reds(x) /\ c = Kid(x, d, p)
    BY <1>3, <1>4 DEF Hole
  <2>2. \E h2 : Balanced(y, M, h2, SideOf(x, p), Par(x, p)) /\ Hgt(h2, p) = Hgt(h1, c) + 1
    <3> HIDE DEF M
    <3>1. M = Members(w)
      BY DEF M
    <3> QED BY <1>1, <1>3, <1>4, <2>1, <3>1, DeleteClimb
  <2>3. Par(y, p) = Par(x, p) /\ Par(x, p) \in Places
    <3>1. Par(x, p) \in M
      BY <1>1, <2>1, ParentIs
    <3> QED BY <1>1, <1>3, <3>1 DEF SameLinks
  <2>4. SideOf(y, p) = SideOf(x, p)
    BY <1>4, <2>3, SideIs, LeftRight
  <2> QED BY <2>2, <2>3, <2>4
<1> QED BY <1>1, <1>3, <1>4, <1>5, <1>6, <1>7 DEF Shrinking

\* Then the inner nephew, if it alone is red, is rotated above the sibling.
LEMMA NephewStep ==
    ASSUME NEW x, NEW w, Shape(x, w), NEW d, NEW p, NEW c, Hole(x, w, d, p, c),
           NEW s, s = Kid(x, Other(d), p), s \notin Reds(x), Kid(x, Other(d), s) \notin Reds(x),
           NEW i, i = Kid(x, d, s), i \in Reds(x), NEW y, y = Rotate(Red(Black(x, i), s), s, Other(d))
    PROVE  \E v : /\ Shape(y, v) /\ Same(w, v) /\ Hole(y, v, d, p, c)
                  /\ Kid(y, Other(d), p) \notin Reds(y) /\ Kid(y, Other(d), Kid(y, Other(d), p)) \in Reds(y)
<1> DEFINE z1 == Black(x, i)
           z == Red(z1, s)
           M == Members(w)
           o == Other(d)
<1>1. /\ s \in M /\ s # c /\ s # p /\ c # p /\ p \in M /\ d \in Sides /\ c \notin Reds(x) /\ c \in Places
      /\ Kid(x, d, p) = c /\ Par(x, c) = p /\ Painted(x, M, None, None)
      /\ \A m : m \in M => m \in Places /\ m # Sentinel
  BY HoleIs, ShapeTypes DEF Hole
<1>2. PICK h : Balanced(x, M, h, d, p)
  BY DEF Hole
<1>3. o \in Sides /\ Other(o) = d
  BY <1>1, Mirror
<1>4. i \in Places /\ i # Sentinel
  BY <1>1, <1>2, HeightFacts
<1>5. Shape(z1, w) /\ SameLinks(x, z1) /\ Reds(z1) = Reds(x) \ {i}
  BY <1>4, PaintShape
<1> HIDE DEF z1
<1>6. Shape(z, w) /\ SameLinks(z1, z) /\ Reds(z) = Reds(z1) \cup {s}
  BY <1>1, <1>5, PaintShape
<1> HIDE DEF z
<1>7. SameLinks(x, z) /\ Reds(z) = (Reds(x) \ {i}) \cup {s} /\ Sentinel \in Places
  BY <1>5, <1>6, Apart DEF SameLinks
<1>8. y = Rotate(z, s, o) /\ i = Kid(z, Other(o), s)
  BY <1>1, <1>3, <1>7 DEF SameLinks, z, z1
<1>9. Turned(z, y, M, s, o, i) /\ Reds(y) = Reds(z) /\ Par(y, Sentinel) = Par(z, Sentinel) /\ \E v : Shape(y, v) /\ Same(w, v)
  BY <1>1, <1>3, <1>4, <1>6, <1>8, RotateTurns
<1>10. Turned(x, y, M, s, o, i) /\ Reds(y) = (Reds(x) \ {i}) \cup {s} /\ Par(y, Sentinel) = Par(x, Sentinel)
  BY <1>1, <1>3, <1>4, <1>7, <1>9 DEF Turned, SameLinks
<1>11. /\ \E h1 : Balanced(y, M, h1, d, p)
       /\ Painted(y, M, None, None)
       /\ Kid(y, d, p) = c /\ Kid(y, o, p) = i /\ Kid(y, o, i) = s
       /\ i \notin Reds(y)
  <2> HIDE DEF M
  <2>1. M = Members(w)
    BY DEF M
  <2>2. /\ \E h1 : Balanced(y, M, h1, d, p)
        /\ Painted(y, M, None, None)
        /\ Kid(y, d, p) = Kid(x, d, p) /\ Kid(y, Other(d), p) = i /\ Kid(y, Other(d), i) = s /\ i \in M
        /\ i \notin Reds(y) /\ Root(y) = Root(x)
    BY <1>1, <1>2, <1>10, <2>1, DeleteNephew
  <2> QED BY <1>1, <2>2
<1>12. PICK v : Shape(y, v) /\ Same(w, v)
  BY <1>9
<1>13. Members(v) = M
  BY <1>12 DEF Same
<1>14. Par(y, c) = p
  BY <1>1, <1>10, <1>11, <1>12, <1>13, ParentKept
<1>15. Hole(y, v, d, p, c)
  BY <1>1, <1>10, <1>11, <1>13, <1>14 DEF Hole
<1> QED BY <1>10, <1>11, <1>12, <1>15

\* Last, with a red outer nephew, one rotation fills the hole.
LEMMA OuterStep ==
    ASSUME NEW x, NEW w, Shape(x, w), NEW d, NEW p, NEW c, Hole(x, w, d, p, c),
           NEW s, s = Kid(x, Other(d), p), s \notin Reds(x), NEW r, r = Kid(x, Other(d), s), r \in Reds(x),
           NEW b \in BOOLEAN, b <=> p \in Reds(x),
           NEW y, y = Rotate(Black(Black(SetRed(x, s, b), p), r), p, d)
    PROVE  \E v : Shape(y, v) /\ Same(w, v) /\ Shrinking(y, v, Root(y))
<1> DEFINE z1 == SetRed(x, s, b)
           z2 == Black(z1, p)
           z == Black(z2, r)
           M == Members(w)
<1>1. /\ s \in M /\ s # c /\ s # p /\ c # p /\ p \in M /\ d \in Sides /\ c \notin Reds(x)
      /\ Kid(x, d, p) = c /\ Painted(x, M, None, None)
      /\ \A m : m \in M => m \in Places /\ m # Sentinel
  BY HoleIs, ShapeTypes DEF Hole
<1>2. PICK h : Balanced(x, M, h, d, p)
  BY DEF Hole
<1>3. r \in Places
  BY <1>1, <1>2, HeightFacts, Mirror
<1>4. Shape(z1, w) /\ SameLinks(x, z1) /\ Reds(z1) = IF b THEN Reds(x) \cup {s} ELSE Reds(x) \ {s}
  BY <1>1, PaintShape
<1> HIDE DEF z1
<1>5. Shape(z2, w) /\ SameLinks(z1, z2) /\ Reds(z2) = Reds(z1) \ {p}
  BY <1>1, <1>4, PaintShape
<1> HIDE DEF z2
<1>6. Shape(z, w) /\ SameLinks(z2, z) /\ Reds(z) = Reds(z2) \ {r}
  BY <1>3, <1>5, PaintShape
<1> HIDE DEF z
<1>7. /\ SameLinks(x, z)
      /\ Reds(z) = ((IF p \in Reds(x) THEN Reds(x) \cup {s} ELSE Reds(x) \ {s}) \ {p}) \ {r}
  BY <1>4, <1>5, <1>6 DEF SameLinks
<1>8. y = Rotate(z, p, d) /\ s = Kid(z, Other(d), p) /\ s # Sentinel
  BY <1>1, <1>7, Mirror DEF SameLinks, z, z2, z1
<1>9. Turned(z, y, M, p, d, s) /\ Reds(y) = Reds(z) /\ \E v : Shape(y, v) /\ Same(w, v)
  BY <1>1, <1>6, <1>8, RotateTurns
<1>10. /\ Turned(x, y, M, p, d, s)
       /\ Reds(y) = ((IF p \in Reds(x) THEN Reds(x) \cup {s} ELSE Reds(x) \ {s}) \ {p}) \ {r}
  BY <1>1, <1>7, <1>9, Mirror DEF Turned, SameLinks
<1>11. (\E h1 : Balanced(y, M, h1, "left", None)) /\ Painted(y, M, None, None)
  <2> HIDE DEF M
  <2>1. M = Members(w)
    BY DEF M
  <2>2. Kid(x, d, p) \notin Reds(x)
    BY <1>1
  <2> QED BY <1>1, <1>2, <1>10, <2>1, <2>2, DeleteOuter
<1>12. PICK v : Shape(y, v) /\ Same(w, v)
  BY <1>9
<1>13. Root(y) \in Places /\ Members(v) = M
  BY <1>12, TreeTypes DEF Shape, Same
<1>14. Painted(y, M, Root(y), Root(y))
  <2>1. \A e, m : e \in Sides /\ m \in M => m # None /\ Kid(y, e, m) # None
    BY <1>12, <1>13, Links, Apart
  <2> QED BY <1>11, <2>1 DEF Painted
<1> QED BY <1>11, <1>12, <1>13, <1>14 DEF Shrinking

\* One iteration of the loop of rbtree_delete.
LEMMA DeleteFixStep ==
    ASSUME NEW w, Shape(t, w), Shrinking(t, w, temp), DeleteFix
    PROVE  /\ \E v : Shape(t', v) /\ Same(w, v) /\ Shrinking(t', v, temp')
           /\ Raised(t, Members(w), SideOf(t, temp), temp, t', temp')
<1> DEFINE p == Par(t, temp)
           d == SideOf(t, temp)
           o == Other(d)
           w0 == Kid(t, o, p)
           x == IF w0 \in Reds(t) THEN Rotate(Red(Black(t, w0), p), p, d) ELSE t
           s == Kid(x, o, p)
           i == Kid(x, d, s)
           r == Kid(x, o, s)
           y == IF r \in Reds(x) THEN x ELSE Rotate(Red(Black(x, i), s), s, o)
           w1 == Kid(y, o, p)
           n == Kid(y, o, w1)
           z == Black(Black(SetRed(y, w1, y.red[p]), p), n)
<1>1. t \in Trees /\ temp \in Places /\ temp # Root(t) /\ temp \notin Reds(t)
  <2>1. t \in Trees /\ temp \in Places
    BY DEF Shape, Shrinking
  <2> QED BY <2>1, TreeTypes DEF DeleteFix, DeleteUnbalanced, Root
<1>2. Hole(t, w, d, p, temp)
  BY <1>1, ShrinkingHole
<1>3. d \in Sides /\ o \in Sides /\ o # d /\ \A e : e \in Sides => e = d \/ e = o
  BY <1>2, Mirror DEF Hole
<1>4. w0 \in Places /\ p \in Places
  BY <1>2, HoleIs, ShapeTypes DEF Hole
<1>5. x = IF t.red[w0] THEN Rotate(Red(Black(t, w0), p), p, d) ELSE t
  BY <1>1, <1>4, TreeTypes
<1>6. \E v : Shape(x, v) /\ Same(w, v) /\ Hole(x, v, d, p, temp) /\ s \notin Reds(x) /\ (x = t \/ p \in Reds(x))
  <2> HIDE DEF p, d
  <2>1. CASE w0 \in Reds(t)
    <3>1. x = Rotate(Red(Black(t, w0), p), p, d)
      BY <2>1
    <3> HIDE DEF x
    <3> QED BY <1>2, <2>1, <3>1, RedSiblingStep
  <2>2. CASE w0 \notin Reds(t)
    <3>1. x = t
      BY <2>2
    <3> QED BY <1>2, <2>2, <3>1, SameIs
  <2> QED BY <2>1, <2>2
<1>7. /\ p = t.parent[temp] /\ w0 = t.kid[o][p] /\ s = x.kid[o][p] /\ i = x.kid[d][s] /\ r = x.kid[o][s]
      /\ w1 = y.kid[o][p] /\ n = y.kid[o][w1]
  BY DEF Par, Kid
<1>8. y = IF x.red[r] THEN x ELSE Rotate(Red(Black(x, i), s), s, o)
  <2>1. PICK v : Shape(x, v) /\ Hole(x, v, d, p, temp)
    BY <1>6
  <2> HIDE DEF p, d, w0, x
  <2>2. s \in Members(v)
    BY <2>1, HoleIs
  <2>3. x \in Trees /\ r \in Places
    BY <1>3, <2>1, <2>2, Links DEF Shape
  <2>4. r \in Reds(x) <=> x.red[r]
    BY <2>3, TreeTypes
  <2> QED BY <2>4
<1>9. /\ ~x.red[x.kid["left"][s]] /\ ~x.red[x.kid["right"][s]] => t' = Red(x, s) /\ temp' = p
      /\ ~(~x.red[x.kid["left"][s]] /\ ~x.red[x.kid["right"][s]]) => t' = Rotate(z, p, d) /\ temp' = t'.root
  \* the same in the words of DeleteFix
  <2> DEFINE d2 == SideOf(t, temp)
             o2 == Other(d2)
             p2 == t.parent[temp]
             v0 == t.kid[o2][p2]
             x2 == IF t.red[v0] THEN Rotate(Red(Black(t, v0), p2), p2, d2) ELSE t
             s2 == x2.kid[o2][p2]
             y2 == IF x2.red[x2.kid[o2][s2]] THEN x2 ELSE Rotate(Red(Black(x2, x2.kid[d2][s2]), s2), s2, o2)
             v1 == y2.kid[o2][p2]
             z2 == Black(Black(SetRed(y2, v1, y2.red[p2]), p2), y2.kid[o2][v1])
  <2>1. IF ~x2.red[x2.kid["left"][s2]] /\ ~x2.red[x2.kid["right"][s2]]
        THEN t' = Red(x2, s2) /\ temp' = p2
        ELSE t' = Rotate(z2, p2, d2) /\ temp' = t'.root
    BY DEF DeleteFix
  <2>2. d2 = d /\ o2 = o /\ p2 = p /\ v0 = w0
    BY <1>7
  <2>3. x2 = IF t.red[v0] THEN Rotate(Red(Black(t, v0), p2), p2, d2) ELSE t
    OBVIOUS
  <2>4. s2 = x2.kid[o2][p2]
    OBVIOUS
  <2>5. y2 = IF x2.red[x2.kid[o2][s2]] THEN x2 ELSE Rotate(Red(Black(x2, x2.kid[d2][s2]), s2), s2, o2)
    OBVIOUS
  <2>6. v1 = y2.kid[o2][p2] /\ z2 = Black(Black(SetRed(y2, v1, y2.red[p2]), p2), y2.kid[o2][v1])
    OBVIOUS
  <2> HIDE DEF p, d, o, w0, x, s, i, r, y, w1, n, d2, o2, p2, v0, x2, s2, y2, v1, z2
  <2>7. x2 = x /\ s2 = s
    BY <1>5, <1>7, <2>2, <2>3, <2>4
  <2>8. y2 = y /\ v1 = w1
    BY <1>7, <1>8, <2>2, <2>5, <2>6, <2>7
  <2>9. z2 = z
    BY <1>7, <2>2, <2>6, <2>8
  <2> HIDE DEF z
  <2> QED BY <2>1, <2>2, <2>7, <2>9
<1> HIDE DEF p, d, w0, x
<1>10. PICK v : Shape(x, v) /\ Same(w, v) /\ Hole(x, v, d, p, temp) /\ s \notin Reds(x) /\ (x = t \/ p \in Reds(x))
  BY <1>6
<1>11. s \in Members(v) /\ x \in Trees /\ \A e : e \in Sides => Kid(x, e, s) \in Places
  <2>1. s \in Members(v)
    BY <1>10, HoleIs
  <2> QED BY <1>10, <2>1, Links DEF Shape
<1>12. \A e : e \in Sides => (x.red[Kid(x, e, s)] <=> Kid(x, e, s) \in Reds(x))
  BY <1>11, TreeTypes
<1>13. CASE \A e : e \in Sides => Kid(x, e, s) \notin Reds(x)
  <2>1. t' = Red(x, s) /\ temp' = p
    <3>1. ~x.red[x.kid["left"][s]] /\ ~x.red[x.kid["right"][s]]
      BY <1>12, <1>13, LeftRight DEF Kid
    <3> QED BY <1>9, <3>1
  <2>2. Shape(t', v) /\ Shrinking(t', v, p) /\ Raised(x, Members(v), d, temp, t', p)
    BY <1>10, <1>13, <2>1, ClimbStep
  <2>3. Raised(t, Members(w), d, temp, t', p)
    <3>1. CASE x = t
      BY <1>10, <2>2, <3>1 DEF Same
    <3>2. CASE p \in Reds(x)
      <4>1. Reds(t') = Reds(x) \cup {s}
        BY <1>10, <1>11, <2>1, ShapeTypes, PaintShape
      <4> QED BY <3>2, <4>1 DEF Raised
    <3> QED BY <1>10, <3>1, <3>2
  <2> QED BY <1>10, <2>1, <2>2, <2>3 DEF d
<1>14. CASE ~ \A e : e \in Sides => Kid(x, e, s) \notin Reds(x)
  <2>1. t' = Rotate(z, p, d) /\ temp' = Root(t')
    <3>1. ~(~x.red[x.kid["left"][s]] /\ ~x.red[x.kid["right"][s]])
      BY <1>12, <1>14, LeftRight DEF Kid
    <3> QED BY <1>9, <3>1 DEF Root
  <2>2. \E v1 : Shape(y, v1) /\ Same(w, v1) /\ Hole(y, v1, d, p, temp) /\ w1 \notin Reds(y) /\ n \in Reds(y)
    <3>1. CASE r \in Reds(x)
      <4>1. y = x
        BY <3>1
      <4> QED BY <1>10, <3>1, <4>1
    <3>2. CASE r \notin Reds(x)
      <4>1. i \in Reds(x) /\ y = Rotate(Red(Black(x, i), s), s, o)
        BY <1>3, <1>14, <3>2
      <4> HIDE DEF y
      <4>2. \E v1 : /\ Shape(y, v1) /\ Same(v, v1) /\ Hole(y, v1, d, p, temp)
                    /\ Kid(y, Other(d), p) \notin Reds(y) /\ Kid(y, Other(d), Kid(y, Other(d), p)) \in Reds(y)
        <5> HIDE DEF i
        <5> QED BY <1>10, <3>2, <4>1, NephewStep DEF i
      <4> QED BY <1>10, <4>2, SameIs
    <3> QED BY <3>1, <3>2
  <2> HIDE DEF y, s, i, r
  <2>3. PICK v1 : Shape(y, v1) /\ Same(w, v1) /\ Hole(y, v1, d, p, temp) /\ w1 \notin Reds(y) /\ n \in Reds(y)
    BY <2>2
  <2>4. y.red[p] \in BOOLEAN /\ (y.red[p] <=> p \in Reds(y))
    <3>1. y \in Trees
      BY <2>3 DEF Shape
    <3>2. y.red[p] \in BOOLEAN
      BY <1>4, <3>1 DEF Trees
    <3> QED BY <1>4, <3>1, <3>2, TreeTypes
  <2>5. \E v2 : Shape(t', v2) /\ Same(v1, v2) /\ Shrinking(t', v2, Root(t'))
    BY <2>1, <2>3, <2>4, OuterStep
  <2>6. Raised(t, Members(w), SideOf(t, temp), temp, t', temp')
    BY <2>1 DEF Raised
  <2> QED BY <2>1, <2>3, <2>5, <2>6, SameIs
<1> QED BY <1>13, <1>14

-----------------------------------------------------------------------------
(* The steps of the calls. *)

\* The nodes that are linked in x.
LinkedIn(x) == LET s == InOrder(x) IN {s[i] : i \in 1 .. Len(s)}

\* The nodes that are linked are the members.
LEMMA LinkedIs ==
    /\ \A x, w : Shape(x, w) => LinkedIn(x) = Members(w)
    /\ Linked = LinkedIn(t) /\ Linked' = LinkedIn(t')
<1>1. ASSUME NEW x, NEW w, Shape(x, w) PROVE LinkedIn(x) = Members(w)
  <2> DEFINE s == Part(w, 0, Size(w) + 1)
  <2>1. Size(w) \in Nat /\ InOrder(x) = s
    BY <1>1, ShapeTypes, InOrderIs
  <2>2. Lists(s, w, 0, Size(w) + 1 - 0 - 1)
    BY <1>1, <2>1, PartIs
  <2> HIDE DEF s
  <2>3. Len(s) = Size(w) /\ \A i : i \in 1 .. Size(w) => s[i] = At(w, i)
    BY <2>1, <2>2 DEF Lists
  <2>4. LinkedIn(x) = {s[i] : i \in 1 .. Size(w)}
    BY <2>1, <2>3 DEF LinkedIn
  <2>5. /\ \A i : i \in 1 .. Size(w) => At(w, i) \in Members(w)
        /\ \A n : n \in Members(w) => At(w, Pos(w, n)) = n /\ Pos(w, n) \in 1 .. Size(w)
    BY <1>1, AtIs, ShapeTypes DEF Shape
  <2> QED BY <2>3, <2>4, <2>5
<1> QED BY <1>1 DEF Linked, LinkedIn

\* What the tree is in the step c of a call, with node n and temp m.
Fits(x, c, n, m, w) ==
    /\ Shape(x, w)
    /\ c = "idle" => Calm(x, w)
    /\ c = "descend" => Calm(x, w) /\ n \in Nodes \ Members(w) /\ m \in Members(w)
    /\ c = "insert_fix" => Growing(x, w, n)
    /\ c = "delete_fix" => Shrinking(x, w, m)

\* The nodes of v are nodes of w, in the same order.
Keeps(w, v) ==
    /\ Members(v) \subseteq Members(w)
    /\ \A a, b : a \in Members(v) /\ b \in Members(v) /\ Pos(v, a) < Pos(v, b) => Pos(w, a) < Pos(w, b)

\* The same positions are in the same order.
LEMMA SameKeeps == \A w, v : Same(w, v) => Keeps(w, v)
BY DEF Same, Keeps

\* The insert into an empty tree.
LEMMA InsertFirstStep ==
    ASSUME NEW w, Fits(t, pc, node, temp, w), NEW n \in Nodes, NEW k, InsertFirst(n, k)
    PROVE  \E v : Fits(t', pc', node', temp', v) /\ Members(w) = {} /\ Members(v) = {n}
<1>1. /\ Shape(t, w) /\ Root(t) = Sentinel /\ Calm(t, w) /\ t' = SetRoot(Black(Leaf(t, n, None), n), n) /\ pc' = "idle"
  BY DEF InsertFirst, Fits, Root
<1>2. Sentinel \notin Reds(t)
  BY <1>1 DEF Calm, Balanced
<1>3. PICK v, h : /\ Shape(t', v) /\ Members(v) = {n}
                  /\ Balanced(t', {n}, h, "left", None) /\ Painted(t', {n}, None, None)
  BY <1>1, <1>2, FirstShape
<1>4. Fits(t', pc', node', temp', v)
  BY <1>1, <1>3 DEF Fits, Calm
<1> QED BY <1>1, <1>3, <1>4, RootIs

\* The insert into a tree that is not empty starts at the root.
LEMMA InsertStep ==
    ASSUME NEW w, Fits(t, pc, node, temp, w), NEW n \in Nodes, NEW k, Insert(n, k)
    PROVE  /\ Fits(t', pc', node', temp', w)
           /\ n \notin Members(w) /\ node' = n /\ temp' = Root(t)
           /\ Bnd(w, "left", temp') = 0 /\ Bnd(w, "right", temp') = Size(w) + 1
<1>1. /\ Shape(t, w) /\ Root(t) # Sentinel /\ Calm(t, w) /\ t' = t /\ pc' = "descend" /\ node' = n /\ temp' = Root(t)
      /\ n \notin Linked
  BY DEF Insert, Fits, Root
<1>2. n \notin Members(w)
  BY <1>1, LinkedIs
<1>3. Root(t) \in Members(w) /\ Bnd(w, "left", Root(t)) = 0 /\ Bnd(w, "right", Root(t)) = Size(w) + 1
  BY <1>1, RootIs
<1> QED BY <1>1, <1>2, <1>3 DEF Fits

\* The loop of tree->insert goes on, or links the node before or after temp.
LEMMA DescendStep ==
    ASSUME NEW w, Fits(t, pc, node, temp, w), Descend,
           NEW d, d = IF Less(key[node], key[temp]) THEN "left" ELSE "right"
    PROVE  \/ /\ Fits(t', pc', node', temp', w) /\ pc' = "descend" /\ t' = t
              /\ temp' = Kid(t, d, temp) /\ temp' \in Members(w)
           \/ \E v : /\ Fits(t', pc', node', temp', v) /\ pc' = "insert_fix"
                     /\ Kid(t, d, temp) = Sentinel
                     /\ v = Grow(w, node, IF d = "left" THEN Pos(w, temp) ELSE Pos(w, temp) + 1)
                     /\ Members(v) = Members(w) \cup {node}
                     /\ Lifted(t, Members(w), t', Members(v), Sentinel, node, 0)
<1> DEFINE M == Members(w)
           q == IF d = "left" THEN Pos(w, temp) ELSE Pos(w, temp) + 1
           v == Grow(w, node, q)
<1>1. /\ Shape(t, w) /\ Calm(t, w) /\ node \in Nodes \ M /\ temp \in M /\ pc = "descend" /\ node' = node /\ d \in Sides
  BY LeftRight DEF Descend, Fits
<1>2. /\ Kid(t, d, temp) # Sentinel => temp' = Kid(t, d, temp) /\ t' = t /\ pc' = pc
      /\ Kid(t, d, temp) = Sentinel => /\ t' = Red(Leaf(SetKid(t, d, temp, node), node, temp), node)
                                       /\ pc' = "insert_fix"
  BY DEF Descend, Kid
<1>3. CASE Kid(t, d, temp) # Sentinel
  <2>1. Kid(t, d, temp) \in M
    BY <1>1, <1>3, Links
  <2> QED BY <1>1, <1>2, <1>3, <2>1 DEF Fits
<1>4. CASE Kid(t, d, temp) = Sentinel
  <2>1. /\ Reds(t') = Reds(t) \cup {node} /\ Root(t') = Root(t)
        /\ \A e, m : e \in Sides /\ m \in Places =>
              Kid(t', e, m) = IF m = node THEN Sentinel ELSE IF m = temp /\ e = d THEN node ELSE Kid(t, e, m)
        /\ Shape(t', v)
    BY <1>1, <1>2, <1>4, GrowShape
  <2>2. Members(v) = M \cup {node}
    <3>1. w \in Layouts /\ q \in Int
      BY <1>1, ShapeTypes
    <3> QED BY <1>1, <3>1, GrowIs
  <2> HIDE DEF v
  <2>3. PICK h : Balanced(t, M, h, "left", None) /\ Painted(t, M, None, None)
    BY <1>1 DEF Calm
  <2>4. (\E h1 : Balanced(t', M \cup {node}, h1, "left", None)) /\ Painted(t', M \cup {node}, node, None)
    <3> HIDE DEF M
    <3>1. M = Members(w)
      BY DEF M
    <3>2. /\ \E h1 : /\ Balanced(t', M \cup {node}, h1, "left", None)
                    /\ Hgt(h1, Root(t')) = Hgt(h, Root(t)) /\ Hgt(h1, node) = 0
          /\ Painted(t', M \cup {node}, node, None)
      BY <1>1, <1>4, <2>1, <2>3, <3>1, LeafColours
    <3> QED BY <3>2
  <2>7. Lifted(t, M, t', M \cup {node}, Sentinel, node, 0)
    <3> SUFFICES ASSUME NEW h1, Balanced(t, M, h1, "left", None)
                 PROVE  \E h2 : /\ Balanced(t', M \cup {node}, h2, "left", None)
                               /\ Hgt(h2, Root(t')) = Hgt(h1, Root(t)) /\ Hgt(h2, node) = Hgt(h1, Sentinel) + 0
      BY DEF Lifted
    <3>1. Hgt(h1, Sentinel) = 0
      BY DEF Balanced
    <3> HIDE DEF M
    <3>2. M = Members(w)
      BY DEF M
    <3>3. \E h2 : /\ Balanced(t', M \cup {node}, h2, "left", None)
                 /\ Hgt(h2, Root(t')) = Hgt(h1, Root(t)) /\ Hgt(h2, node) = 0
      BY <1>1, <1>4, <2>1, <2>3, <3>2, LeafColours
    <3> QED BY <3>1, <3>3
  <2>5. Growing(t', v, node)
    BY <2>1, <2>2, <2>4 DEF Growing
  <2>6. Fits(t', pc', node', temp', v)
    BY <1>1, <1>2, <1>4, <2>1, <2>5 DEF Fits
  <2> QED BY <1>2, <1>4, <2>2, <2>6, <2>7 DEF v
<1> QED BY <1>3, <1>4

\* The end of rbtree_insert leaves a red-black tree.
LEMMA InsertDoneStep ==
    ASSUME NEW w, Fits(t, pc, node, temp, w), InsertDone
    PROVE  Fits(t', pc', node', temp', w)
<1> DEFINE M == Members(w)
<1>1. Shape(t, w) /\ Growing(t, w, node) /\ t' = Black(t, Root(t)) /\ pc' = "idle"
      /\ (node = Root(t) \/ ~t.red[Par(t, node)])
  BY DEF InsertDone, InsertUnbalanced, Fits, Root, Par
<1>2. node \in M /\ node \in Reds(t) /\ Painted(t, M, node, None)
      /\ \A m : m \in M => m \in Places /\ m # Sentinel /\ m # None
  BY <1>1, ShapeTypes, Apart DEF Growing
<1>3. PICK h : Balanced(t, M, h, "left", None)
  BY <1>1 DEF Growing
<1>4. Root(t) \in M
  BY <1>1, <1>2, RootIs
<1>5. Shape(t', w) /\ SameLinks(t, t') /\ Reds(t') = Reds(t) \ {Root(t)}
  BY <1>1, <1>2, <1>4, PaintShape
<1>6. \A e, m : e \in Sides /\ m \in M /\ m \in Reds(t) => Kid(t, e, m) \notin Reds(t)
  <2> SUFFICES ASSUME NEW e \in Sides, NEW m \in M, m \in Reds(t), Kid(t, e, m) \in Reds(t) PROVE FALSE
    OBVIOUS
  <2>1. Kid(t, e, m) = node
    BY <1>2 DEF Painted
  <2>2. node # Root(t) /\ Par(t, node) = m
    BY <1>1, <1>2, <2>1, Links
  <2>3. t.red[m]
    BY <1>1, <1>2, TreeTypes DEF Shape
  <2> QED BY <1>1, <2>2, <2>3
<1>7. Calm(t', w)
  <2>0. Root(t') = Root(t) /\ \A e, m : e \in Sides /\ m \in Places => Kid(t', e, m) = Kid(t, e, m)
    BY <1>5 DEF SameLinks
  <2> HIDE DEF M
  <2>1. M = Members(w)
    BY DEF M
  <2>2. CASE Root(t) \in Reds(t)
    <3>1. (\E h1 : Balanced(t', M, h1, "left", None)) /\ Painted(t', M, None, None)
      BY <1>1, <1>3, <1>4, <1>5, <1>6, <2>0, <2>1, <2>2, MakeBlack
    <3> QED BY <2>1, <3>1 DEF Calm
  <2>3. CASE Root(t) \notin Reds(t)
    <3>1. Reds(t') = Reds(t)
      BY <1>5, <2>3
    <3>2. Balanced(t', M, h, "left", None)
      BY <1>2, <1>3, <2>0, <3>1 DEF Balanced
    <3>3. Painted(t', M, None, None)
      BY <1>2, <1>6, <2>0, <2>3, <3>1 DEF Painted
    <3> QED BY <2>1, <3>2, <3>3 DEF Calm
  <2> QED BY <2>2, <2>3
<1> QED BY <1>1, <1>5, <1>7 DEF Fits

\* The end of rbtree_delete leaves a red-black tree.
LEMMA DeleteDoneStep ==
    ASSUME NEW w, Fits(t, pc, node, temp, w), DeleteDone
    PROVE  Fits(t', pc', node', temp', w)
<1> DEFINE M == Members(w)
<1>1. /\ Shape(t, w) /\ Shrinking(t, w, temp) /\ t' = Black(t, temp) /\ pc' = "idle"
      /\ (temp = Root(t) \/ t.red[temp])
  BY DEF DeleteDone, DeleteUnbalanced, Fits, Root
<1>2. /\ temp \in Places /\ Painted(t, M, temp, temp)
      /\ \A m : m \in M => m \in Places /\ m # Sentinel /\ m # None
  BY <1>1, ShapeTypes, Apart DEF Shrinking
<1>3. Shape(t', w) /\ SameLinks(t, t') /\ Reds(t') = Reds(t) \ {temp}
  BY <1>1, <1>2, PaintShape
<1>4. Root(t') = Root(t) /\ \A e, m : e \in Sides /\ m \in Places => Kid(t', e, m) = Kid(t, e, m)
  BY <1>3 DEF SameLinks
<1>5. \A e, m : e \in Sides /\ m \in M /\ m \in Reds(t) /\ Kid(t, e, m) \in Reds(t) => Kid(t, e, m) = temp \/ m = temp
  BY <1>2 DEF Painted
<1>6. Root(t) \in Reds(t) => Root(t) = temp
  BY <1>2 DEF Painted
<1>7. temp \in Reds(t) => temp \in M
  <2>1. Sentinel \notin Reds(t)
    BY <1>1 DEF Shrinking, Balanced
  <2>2. temp \in M \cup {Sentinel}
    <3>1. CASE temp = Root(t)
      BY <1>1, <3>1, Links
    <3>2. CASE temp # Root(t)
      BY <1>1, <3>2, Links DEF Shrinking
    <3> QED BY <3>1, <3>2
  <2> QED BY <2>1, <2>2
<1>8. Calm(t', w)
  <2> HIDE DEF M
  <2>1. M = Members(w)
    BY DEF M
  <2>2. CASE temp \in Reds(t)
    <3>1. PICK h, hd, hp : /\ Balanced(t, M, h, hd, hp)
                           /\ \/ temp = Root(t) /\ hp = None
                              \/ hd \in Sides /\ hp \in M /\ temp = Kid(t, hd, hp)
      BY <1>1, <2>1 DEF Shrinking
    <3>2. (\E h1 : Balanced(t', M, h1, "left", None)) /\ Painted(t', M, None, None)
      BY <1>1, <1>3, <1>4, <1>5, <1>6, <1>7, <2>1, <2>2, <3>1, MakeBlack
    <3> QED BY <2>1, <3>2 DEF Calm
  <2>3. CASE temp \notin Reds(t)
    <3>0. temp = Root(t)
      <4>1. ~t.red[temp]
        BY <1>1, <1>2, <2>3, TreeTypes DEF Shape
      <4> QED BY <1>1, <4>1
    <3>1. Reds(t') = Reds(t)
      BY <1>3, <2>3
    <3>2. PICK h : Balanced(t, M, h, "left", None)
      BY <1>1, <2>1, <3>0 DEF Shrinking
    <3>3. Balanced(t', M, h, "left", None)
      BY <1>2, <1>4, <3>1, <3>2 DEF Balanced
    <3>4. Painted(t', M, None, None)
      BY <1>2, <1>4, <1>5, <1>6, <2>3, <3>1 DEF Painted
    <3> QED BY <2>1, <3>3, <3>4 DEF Calm
  <2> QED BY <2>2, <2>3
<1> QED BY <1>1, <1>3, <1>8 DEF Fits

\* rbtree_delete, up to the loop.
LEMMA DeleteStep ==
    ASSUME NEW w, Fits(t, pc, node, temp, w), NEW n, Delete(n)
    PROVE  n \in Members(w) /\ \E v : Fits(t', pc', node', temp', v) /\ Keeps(w, v) /\ Members(v) = Members(w) \ {n}
<1> DEFINE M == Members(w)
           s == Substitute(t, n)
           c == Orphan(t, n, s)
<1>1. Shape(t, w) /\ Calm(t, w) /\ n \in M /\ pc = "idle"
  <2>1. Shape(t, w) /\ Calm(t, w) /\ n \in Linked /\ pc = "idle"
    BY DEF Delete, Fits
  <2> QED BY <2>1, LinkedIs
<1>2. /\ t' = IF s = Root(t) THEN Clear(Black(SetRoot(t, c), c), n) ELSE Clear(Unlink(t, n, s, c), n)
      /\ s = Root(t) \/ t.red[s] => pc' = "idle"
      /\ ~(s = Root(t) \/ t.red[s]) => pc' = "delete_fix" /\ temp' = c
  BY DEF Delete, Root
<1>0. s = Substitute(t, n) /\ c = Orphan(t, n, s)
  OBVIOUS
<1> HIDE DEF s, c
<1>3. /\ Root(t') = Now(n, s, c, Root(t))
      /\ Reds(t') = IF s = Root(t) THEN Reds(t) \ {c}
                    ELSE IF s = n THEN Reds(t)
                    ELSE IF n \in Reds(t) THEN Reds(t) \cup {s} ELSE Reds(t) \ {s}
      /\ \A e, m : e \in Sides /\ m \in M \ {n} => Kid(t', e, m) = Now(n, s, c, Kid(t, e, Before(n, s, m)))
      /\ s # Root(t) => Par(t', c) = IF s # n /\ Par(t, s) = n THEN s ELSE Par(t, s)
      /\ \E v : /\ Shape(t', v) /\ Members(v) = M \ {n}
                /\ \A a, b : /\ a \in Members(v) /\ b \in Members(v) /\ Pos(v, a) < Pos(v, b)
                              => Pos(w, a) < Pos(w, b)
  BY <1>0, <1>1, <1>2, DeleteShape
<1>4. /\ s \in M /\ (s # n => s # Root(t))
      /\ \E d : d \in Sides /\ Kid(t, d, s) = Sentinel /\ c = Kid(t, Other(d), s)
  BY <1>0, <1>1, SubstituteIs
<1>5. PICK d \in Sides : Kid(t, d, s) = Sentinel /\ c = Kid(t, Other(d), s)
  BY <1>4
<1>6. PICK h : Balanced(t, M, h, "left", None) /\ Painted(t, M, None, None)
  BY <1>1 DEF Calm
<1>7. PICK v : Shape(t', v) /\ Members(v) = M \ {n} /\ Keeps(w, v)
  BY <1>3 DEF Keeps
<1> DEFINE u == IF s # n /\ Par(t, s) = n THEN s ELSE Par(t, s)
<1>8. /\ s = Root(t) \/ s \in Reds(t) =>
           /\ \E h1 : Balanced(t', M \ {n}, h1, "left", None)
           /\ Painted(t', M \ {n}, None, None)
      /\ s # Root(t) /\ s \notin Reds(t) =>
           /\ \E h1 : Balanced(t', M \ {n}, h1, SideOf(t, s), u)
           /\ Painted(t', M \ {n}, c, c)
           /\ SideOf(t, s) \in Sides /\ u \in M \ {n} /\ Kid(t', SideOf(t, s), u) = c
           /\ c # Root(t')
  <2> HIDE DEF M
  <2>1. M = Members(w)
    BY DEF M
  <2>2. /\ Root(t') = Now(n, s, c, Root(t))
        /\ Reds(t') = IF s = Root(t) THEN Reds(t) \ {c}
                      ELSE IF s = n THEN Reds(t)
                      ELSE IF n \in Reds(t) THEN Reds(t) \cup {s} ELSE Reds(t) \ {s}
        /\ \A e, m : e \in Sides /\ m \in M \ {n} => Kid(t', e, m) = Now(n, s, c, Kid(t, e, Before(n, s, m)))
        /\ s = Root(t) => s = n
        /\ u = IF s # n /\ Par(t, s) = n THEN s ELSE Par(t, s)
    BY <1>3, <1>4
  <2> HIDE DEF u
  <2>3. Recoloured(t, t', M, n, s, c, u)
    BY <1>1, <1>4, <1>5, <1>6, <2>1, <2>2, DeleteColours
  <2> QED BY <2>3 DEF Recoloured
<1>9. t.red[s] <=> s \in Reds(t)
  BY <1>1, <1>4, ShapeTypes, TreeTypes
<1>10. c \in Places
  BY <1>1, <1>4, <1>5, Links, Mirror
<1>11. CASE s = Root(t) \/ s \in Reds(t)
  <2>1. pc' = "idle"
    BY <1>2, <1>9, <1>11
  <2>2. Calm(t', v)
    BY <1>7, <1>8, <1>11 DEF Calm
  <2> QED BY <1>1, <1>7, <2>1, <2>2 DEF Fits
<1>12. CASE s # Root(t) /\ s \notin Reds(t)
  <2>1. pc' = "delete_fix" /\ temp' = c /\ Par(t', c) = u
    BY <1>2, <1>3, <1>9, <1>12
  <2>2. PICK h1 : Balanced(t', M \ {n}, h1, SideOf(t, s), u)
    BY <1>8, <1>12
  <2> HIDE DEF u
  <2>3. Shrinking(t', v, c)
    BY <1>7, <1>8, <1>10, <1>12, <2>1, <2>2 DEF Shrinking
  <2> QED BY <1>1, <1>7, <2>1, <2>3 DEF Fits
<1> QED BY <1>11, <1>12

-----------------------------------------------------------------------------
(* The order of the keys. *)

\* The order of the insert function f.
LessBy(f, a, b) == IF f = "rbtree_insert_timer_value" THEN msec_int(a, b) < 0 ELSE a < b

\* The nodes of w are in the order of their keys k.
Sorted(f, k, w) ==
    \A m, n : m \in Members(w) /\ n \in Members(w) /\ Pos(w, m) < Pos(w, n) => ~LessBy(f, k[n], k[m])

\* The place of n in this order is between the positions a and b.
Sought(f, k, n, w, a, b) ==
    /\ \A m : m \in Members(w) /\ Pos(w, m) <= a => ~LessBy(f, k[n], k[m])
    /\ \A m : m \in Members(w) /\ Pos(w, m) >= b => ~LessBy(f, k[m], k[n])

\* The nodes are in order, and during the descent n belongs below m.
Searchable(f, k, c, n, m, w) ==
    /\ Sorted(f, k, w)
    /\ c = "descend" => Sought(f, k, n, w, Bnd(w, "left", m), Bnd(w, "right", m))

\* The keys of the timers that are linked or being inserted are in one half of
\* the circle of the keys.
KeysClose ==
    work.insert = "rbtree_insert_timer_value" =>
        \E base \in 0 .. KeyMod - 1 : \A n \in Linked \cup ({node} \ {None}) : 2 * ((key[n] - base) % KeyMod) < KeyMod

\* The keys are ordered as the numbers r.
Ranked(f, k, S, r) == \A a, b : a \in S /\ b \in S => r[a] \in Int /\ (LessBy(f, k[a], k[b]) <=> r[a] < r[b])

\* The order of the tree is that of its insert function.
LEMMA LessIs == \A a, b : Less(a, b) <=> LessBy(work.insert, a, b)
BY DEF Less, LessBy

\* Keys that are close are ordered as their distances from a base are.
LEMMA RanksExist ==
    ASSUME key \in [Nodes -> 0 .. KeyMod - 1], KeysClose, NEW S, S \subseteq Linked \cup ({node} \ {None}), S \subseteq Nodes
    PROVE  \E r : Ranked(work.insert, key, S, r)
<1>1. KeyMod \in Nat \ {0} /\ \A n : n \in S => key[n] \in Int
  BY KeyModAssumption
<1>2. CASE work.insert = "rbtree_insert_timer_value"
  <2>1. PICK base \in 0 .. KeyMod - 1 : \A n \in S : 2 * ((key[n] - base) % KeyMod) < KeyMod
    BY <1>2 DEF KeysClose
  <2> DEFINE r == [n \in S |-> (key[n] - base) % KeyMod]
  <2>2. ASSUME NEW a \in S, NEW b \in S
        PROVE  r[a] \in Int /\ (LessBy(work.insert, key[a], key[b]) <=> r[a] < r[b])
    <3> DEFINE ra == (key[a] - base) % KeyMod
               rb == (key[b] - base) % KeyMod
               qa == (key[a] - base) \div KeyMod
               qb == (key[b] - base) \div KeyMod
               q  == qa - qb
               e  == ra - rb
               k  == key[a] - key[b]
    <3>1. /\ qa \in Int /\ ra \in 0 .. KeyMod - 1 /\ key[a] - base = KeyMod * qa + ra
          /\ qb \in Int /\ rb \in 0 .. KeyMod - 1 /\ key[b] - base = KeyMod * qb + rb
      <4>1. key[a] - base \in Int /\ key[b] - base \in Int
        BY <1>1
      <4> QED BY <1>1, <4>1, DivMod
    <3>2. 2 * ra < KeyMod /\ 2 * rb < KeyMod
      BY <2>1
    <3> HIDE DEF ra, rb, qa, qb
    <3>3. q \in Int /\ e \in Int /\ k \in Int /\ k = KeyMod * q + e /\ -KeyMod < 2 * e /\ 2 * e < KeyMod
      <4>1. KeyMod * (qa - qb) = KeyMod * qa - KeyMod * qb
        BY <1>1, <3>1
      <4> QED BY <1>1, <3>1, <3>2, <4>1
    <3> HIDE DEF q, e, k
    <3>4. Signed(k, KeyMod) = e
      BY <1>1, <3>3, SignedExact
    <3>5. LessBy(work.insert, key[a], key[b]) <=> e < 0
      BY <1>2, <3>4 DEF LessBy, msec_int, k
    <3>6. r[a] = ra /\ r[b] = rb
      BY DEF ra, rb
    <3> QED BY <3>1, <3>5, <3>6 DEF e
  <2> QED BY <2>2 DEF Ranked
<1>3. CASE work.insert # "rbtree_insert_timer_value"
  BY <1>1, <1>3 DEF Ranked, LessBy
<1> QED BY <1>2, <1>3

\* Fewer nodes in the same order.
LEMMA KeepsSorted ==
    ASSUME NEW f, NEW k, NEW w, Sorted(f, k, w), NEW v, Keeps(w, v),
           NEW k1, \A m : m \in Members(v) => k1[m] = k[m]
    PROVE  Sorted(f, k1, v)
BY DEF Sorted, Keeps

\* What one comparison with temp tells of the nodes before or after it.
LEMMA Narrow ==
    ASSUME NEW x, NEW w, Shape(x, w), NEW f, NEW k, Sorted(f, k, w), NEW n, NEW m \in Members(w),
           NEW r, Ranked(f, k, Members(w) \cup {n}, r)
    PROVE  /\ LessBy(f, k[n], k[m]) => \A a : a \in Members(w) /\ Pos(w, a) >= Pos(w, m) => ~LessBy(f, k[a], k[n])
           /\ ~LessBy(f, k[n], k[m]) => \A a : a \in Members(w) /\ Pos(w, a) <= Pos(w, m) => ~LessBy(f, k[n], k[a])
<1>1. \A a, b : a \in Members(w) \cup {n} /\ b \in Members(w) \cup {n} => r[a] \in Int /\ (LessBy(f, k[a], k[b]) <=> r[a] < r[b])
  BY DEF Ranked
<1>2. \A a, b : a \in Members(w) /\ b \in Members(w) /\ Pos(w, a) <= Pos(w, b) => r[a] <= r[b]
  <2> SUFFICES ASSUME NEW a \in Members(w), NEW b \in Members(w), Pos(w, a) <= Pos(w, b) PROVE r[a] <= r[b]
    OBVIOUS
  <2>1. CASE Pos(w, a) = Pos(w, b)
    <3>1. a = b
      BY <2>1 DEF Shape, Numbered
    <3> QED BY <1>1, <3>1
  <2>2. CASE Pos(w, a) < Pos(w, b)
    BY <1>1, <2>2 DEF Sorted
  <2> QED BY <2>1, <2>2, ShapeTypes
<1>3. ASSUME LessBy(f, k[n], k[m]), NEW a \in Members(w), Pos(w, a) >= Pos(w, m) PROVE ~LessBy(f, k[a], k[n])
  <2>1. Pos(w, m) <= Pos(w, a)
    BY <1>3, ShapeTypes
  <2>2. r[m] <= r[a] /\ r[n] < r[m]
    BY <1>1, <1>2, <1>3, <2>1
  <2> QED BY <1>1, <2>2
<1>4. ASSUME ~LessBy(f, k[n], k[m]), NEW a \in Members(w), Pos(w, a) <= Pos(w, m) PROVE ~LessBy(f, k[n], k[a])
  <2>1. r[a] <= r[m] /\ ~(r[n] < r[m])
    BY <1>1, <1>2, <1>4
  <2> QED BY <1>1, <2>1
<1> QED BY <1>3, <1>4

\* The loop of tree->insert keeps the place of the node between the bounds.
LEMMA DescendOrder ==
    ASSUME NEW w, Fits(t, pc, node, temp, w), Descend, key \in [Nodes -> 0 .. KeyMod - 1], work' = work,
           KeysClose, Searchable(work.insert, key, pc, node, temp, w)
    PROVE  \E v : Fits(t', pc', node', temp', v) /\ Searchable(work'.insert, key', pc', node', temp', v)
<1> DEFINE M == Members(w)
           f == work.insert
           d == IF Less(key[node], key[temp]) THEN "left" ELSE "right"
           q == IF d = "left" THEN Pos(w, temp) ELSE Pos(w, temp) + 1
<1>1. /\ Shape(t, w) /\ node \in Nodes \ M /\ temp \in M /\ pc = "descend" /\ node' = node /\ key' = key /\ f = work'.insert
      /\ Sorted(f, key, w) /\ Sought(f, key, node, w, Bnd(w, "left", temp), Bnd(w, "right", temp))
  BY DEF Descend, Fits, Searchable
<1>2. Linked = M /\ M \subseteq Nodes /\ node # None
  BY <1>1, LinkedIs, ShapeTypes, Apart
<1>3. PICK r : Ranked(f, key, M \cup {node}, r)
  BY <1>1, <1>2, RanksExist
<1>4. /\ d \in Sides
      /\ d = "left" => \A a : a \in M /\ Pos(w, a) >= Pos(w, temp) => ~LessBy(f, key[a], key[node])
      /\ d = "right" => \A a : a \in M /\ Pos(w, a) <= Pos(w, temp) => ~LessBy(f, key[node], key[a])
  BY <1>1, <1>3, Narrow, LessIs, LeftRight
<1>5. \/ /\ Fits(t', pc', node', temp', w) /\ pc' = "descend" /\ t' = t
         /\ temp' = Kid(t, d, temp) /\ temp' \in M
      \/ \E v : /\ Fits(t', pc', node', temp', v) /\ pc' = "insert_fix"
                /\ Kid(t, d, temp) = Sentinel
                /\ v = Grow(w, node, q)
                /\ Members(v) = M \cup {node}
  BY DescendStep
<1> HIDE DEF d, f, q
<1>6. CASE /\ Fits(t', pc', node', temp', w) /\ pc' = "descend" /\ t' = t
           /\ temp' = Kid(t, d, temp) /\ temp' \in M
  <2>1. Bnd(w, d, temp') = Bnd(w, d, temp) /\ Bnd(w, Other(d), temp') = Pos(w, temp)
    BY <1>1, <1>4, <1>6, KidIs, ShapeTypes
  <2>2. Sought(f, key, node, w, Bnd(w, "left", temp'), Bnd(w, "right", temp'))
    <3>1. CASE d = "left"
      <4>1. Bnd(w, "left", temp') = Bnd(w, "left", temp) /\ Bnd(w, "right", temp') = Pos(w, temp)
        BY <2>1, <3>1, LeftRight
      <4> QED BY <1>1, <1>4, <3>1, <4>1 DEF Sought
    <3>2. CASE d = "right"
      <4>1. Bnd(w, "right", temp') = Bnd(w, "right", temp) /\ Bnd(w, "left", temp') = Pos(w, temp)
        BY <2>1, <3>2, LeftRight
      <4> QED BY <1>1, <1>4, <3>2, <4>1 DEF Sought
    <3> QED BY <1>4, <3>1, <3>2, LeftRight
  <2>3. Searchable(work'.insert, key', pc', node', temp', w)
    BY <1>1, <1>6, <2>2 DEF Searchable
  <2> QED BY <1>6, <2>3
<1>7. CASE \E v : /\ Fits(t', pc', node', temp', v) /\ pc' = "insert_fix"
                  /\ Kid(t, d, temp) = Sentinel
                  /\ v = Grow(w, node, q)
                  /\ Members(v) = M \cup {node}
  <2>1. PICK v : /\ Fits(t', pc', node', temp', v) /\ pc' = "insert_fix"
                 /\ Kid(t, d, temp) = Sentinel
                 /\ v = Grow(w, node, q)
                 /\ Members(v) = M \cup {node}
    BY <1>7
  <2>2. /\ Pos(w, temp) \in Int /\ q \in Int
        /\ \A a : a \in M => Pos(w, a) \in Int /\ a \in Nodes /\ a # node
    BY <1>1, ShapeTypes DEF q
  <2>3. Pos(v, node) = q /\ \A a : a \in M => Pos(v, a) = IF Pos(w, a) >= q THEN Pos(w, a) + 1 ELSE Pos(w, a)
    <3>1. w \in Layouts
      BY <1>1, ShapeTypes
    <3>2. \A a : a \in Nodes => Pos(v, a) = IF a = node THEN q ELSE Later(Pos(w, a), q)
      <4>1. node \in Nodes /\ q \in Int /\ v = Grow(w, node, q)
        BY <1>1, <2>1, <2>2
      <4>2. \A a : a \in Nodes => Pos(Grow(w, node, q), a) = IF a = node THEN q ELSE Later(Pos(w, a), q)
        BY <3>1, <4>1, GrowIs
      <4> QED BY <4>1, <4>2
    <3> QED BY <1>1, <2>2, <3>2 DEF Later
  <2>4. /\ d = "left" => Pos(w, temp) = Bnd(w, "left", temp) + 1
        /\ d = "right" => Bnd(w, "right", temp) = Pos(w, temp) + 1
    BY <1>1, <1>4, <2>1, KidOrNot, ShapeTypes
  <2>5. Bnd(w, "left", temp) \in Int /\ Bnd(w, "right", temp) \in Int
    BY <1>1, ShapeTypes
  <2>6. ASSUME NEW a \in M, Pos(w, a) < q PROVE ~LessBy(f, key[node], key[a])
    <3>1. CASE d = "left"
      <4>1. Pos(w, a) <= Bnd(w, "left", temp)
        BY <2>2, <2>4, <2>5, <2>6, <3>1 DEF q
      <4> QED BY <1>1, <4>1 DEF Sought
    <3>2. CASE d = "right"
      <4>1. Pos(w, a) <= Pos(w, temp)
        BY <2>2, <2>6, <3>2, LeftRight DEF q
      <4> QED BY <1>4, <3>2, <4>1
    <3> QED BY <1>4, <3>1, <3>2, LeftRight
  <2>7. ASSUME NEW a \in M, Pos(w, a) >= q PROVE ~LessBy(f, key[a], key[node])
    <3>1. CASE d = "left"
      <4>1. Pos(w, a) >= Pos(w, temp)
        BY <2>7, <3>1 DEF q
      <4> QED BY <1>4, <3>1, <4>1
    <3>2. CASE d = "right"
      <4>1. Pos(w, a) >= Bnd(w, "right", temp)
        BY <2>4, <2>7, <3>2, LeftRight DEF q
      <4> QED BY <1>1, <4>1 DEF Sought
    <3> QED BY <1>4, <3>1, <3>2, LeftRight
  <2>8. Sorted(f, key, v)
    <3> SUFFICES ASSUME NEW a \in M \cup {node}, NEW b \in M \cup {node}, Pos(v, a) < Pos(v, b)
                 PROVE  ~LessBy(f, key[b], key[a])
      BY <2>1 DEF Sorted
    <3>1. CASE a \in M /\ b \in M
      <4>1. Pos(w, a) < Pos(w, b)
        BY <2>2, <2>3, <3>1
      <4> QED BY <1>1, <3>1, <4>1 DEF Sorted
    <3>2. CASE a \in M /\ b = node
      <4>1. Pos(w, a) < q
        BY <2>2, <2>3, <3>2
      <4> QED BY <2>6, <3>2, <4>1
    <3>3. CASE a = node /\ b \in M
      <4>1. Pos(w, b) >= q
        BY <2>2, <2>3, <3>3
      <4> QED BY <2>7, <3>3, <4>1
    <3>4. CASE a = node /\ b = node
      BY <2>2, <2>3, <3>4
    <3> QED BY <3>1, <3>2, <3>3, <3>4
  <2>9. Searchable(work'.insert, key', pc', node', temp', v)
    BY <1>1, <2>1, <2>8 DEF Searchable
  <2> QED BY <2>1, <2>9
<1> QED BY <1>5, <1>6, <1>7

-----------------------------------------------------------------------------
(* The invariant. *)

\* The invariant: the tree fits the step of the call that runs, and is in the
\* order of the keys.
TreeInv(ordered) ==
    /\ TypeOK
    /\ \E w : /\ Fits(t, pc, node, temp, w)
              /\ ordered \/ work.insert = "rbtree_insert_value" => Searchable(work.insert, key, pc, node, temp, w)

\* TypeOK, with the tree as one record.
LEMMA TypeIs ==
    /\ t \in Trees /\ key \in [Nodes -> 0 .. KeyMod - 1] /\ pc \in {"idle", "descend", "insert_fix", "delete_fix"}
       /\ node \in Nodes \cup {None} /\ temp \in Places \cup {None} /\ rounds \in Nat /\ work \in Workloads => TypeOK
    /\ (t \in Trees /\ key \in [Nodes -> 0 .. KeyMod - 1] /\ pc \in {"idle", "descend", "insert_fix", "delete_fix"}
       /\ node \in Nodes \cup {None} /\ temp \in Places \cup {None} /\ rounds \in Nat /\ work \in Workloads)' => TypeOK'
BY DEF TypeOK, Trees

\* The invariant holds of the empty tree.
LEMMA TreeInit == ASSUME NEW o \in BOOLEAN, Init PROVE TreeInv(o)
<1>1. PICK w, h : /\ Shape(t, w) /\ Members(w) = {}
                  /\ Balanced(t, {}, h, "left", None) /\ Painted(t, {}, None, None)
  BY EmptyShape DEF Init
<1>2. Fits(t, pc, node, temp, w)
  BY <1>1 DEF Fits, Calm, Init
<1>3. Searchable(work.insert, key, pc, node, temp, w)
  BY <1>1 DEF Searchable, Sorted, Init
<1>4. t \in Trees
  BY <1>1 DEF Shape
<1>5. key \in [Nodes -> 0 .. KeyMod - 1] /\ pc = "idle" /\ node = None /\ temp = None /\ rounds = 0 /\ work \in Workloads
  BY KeyModAssumption DEF Init
<1>6. TypeOK
  BY <1>4, <1>5, TypeIs
<1> QED BY <1>2, <1>3, <1>6 DEF TreeInv

\* Every step of the program keeps what fits, and the order.
LEMMA StepKeeps ==
    ASSUME TypeOK, NEW w, Fits(t, pc, node, temp, w), Next, NEW P \in BOOLEAN,
           P => KeysClose /\ Searchable(work.insert, key, pc, node, temp, w)
    PROVE  \E v : /\ Fits(t', pc', node', temp', v)
                  /\ P => Searchable(work'.insert, key', pc', node', temp', v)
<1> DEFINE f == work.insert
<1>1. work' = work /\ Shape(t, w)
  BY DEF Next, Fits
<1>2. ASSUME NEW v, Fits(t', pc', node', temp', v), Keeps(w, v), pc' # "descend",
             \A m : m \in Members(v) => key'[m] = key[m]
      PROVE  P => Searchable(work'.insert, key', pc', node', temp', v)
  <2>1. P => Sorted(f, key, w)
    BY DEF Searchable
  <2>2. P => Sorted(f, key', v)
    BY <1>2, <2>1, KeepsSorted
  <2> QED BY <1>1, <1>2, <2>2 DEF Searchable
<1>3. ASSUME NEW v, Same(w, v), Fits(t', pc', node', temp', v), pc' # "descend", key' = key
      PROVE  P => Searchable(work'.insert, key', pc', node', temp', v)
  BY <1>2, <1>3, SameKeeps
<1>4. ASSUME NEW n \in Nodes, NEW k, InsertFirst(n, k)
      PROVE  \E v : /\ Fits(t', pc', node', temp', v)
                    /\ P => Searchable(work'.insert, key', pc', node', temp', v)
  <2>1. PICK v : Fits(t', pc', node', temp', v) /\ Members(v) = {n}
    BY <1>4, InsertFirstStep
  <2>2. Pos(v, n) \in Int /\ pc' = "idle"
    BY <1>4, <2>1, ShapeTypes DEF Fits, InsertFirst
  <2>3. Sorted(work'.insert, key', v)
    BY <2>1, <2>2 DEF Sorted
  <2> QED BY <2>1, <2>2, <2>3 DEF Searchable
<1>5. ASSUME NEW n \in Nodes, NEW k, Insert(n, k)
      PROVE  \E v : /\ Fits(t', pc', node', temp', v)
                    /\ P => Searchable(work'.insert, key', pc', node', temp', v)
  <2>1. /\ Fits(t', pc', node', temp', w)
        /\ n \notin Members(w) /\ node' = n
        /\ Bnd(w, "left", temp') = 0 /\ Bnd(w, "right", temp') = Size(w) + 1
    BY <1>5, InsertStep
  <2>2. /\ key \in [Nodes -> 0 .. KeyMod - 1] /\ Members(w) \subseteq Nodes /\ Size(w) \in Nat
        /\ \A m : m \in Members(w) => Pos(w, m) \in 1 .. Size(w)
    BY <1>1, ShapeTypes DEF TypeOK
  <2>3. \A m : m \in Members(w) => key'[m] = key[m]
    BY <1>5, <2>1, <2>2 DEF Insert
  <2>4. P => Sorted(f, key', w)
    <3>1. Keeps(w, w)
      BY SameIs, SameKeeps
    <3> QED BY <2>3, <3>1, KeepsSorted DEF Searchable
  <2>5. Sought(f, key', node', w, 0, Size(w) + 1)
    BY <2>2 DEF Sought
  <2> QED BY <1>1, <2>1, <2>4, <2>5 DEF Searchable
<1>6. CASE Descend
  <2>1. CASE P
    <3>1. key \in [Nodes -> 0 .. KeyMod - 1]
      BY DEF TypeOK
    <3> QED BY <1>1, <1>6, <2>1, <3>1, DescendOrder
  <2>2. CASE ~P
    <3>1. \E v : Fits(t', pc', node', temp', v)
      BY <1>6, DescendStep
    <3> QED BY <2>2, <3>1
  <2> QED BY <2>1, <2>2
<1>7. CASE InsertFix
  <2>1. Growing(t, w, node) /\ pc' = pc /\ pc = "insert_fix" /\ key' = key
    BY <1>7 DEF InsertFix, Fits
  <2>2. PICK v : Shape(t', v) /\ Same(w, v) /\ Growing(t', v, node')
    BY <1>1, <1>7, <2>1, InsertFixStep
  <2>3. Fits(t', pc', node', temp', v)
    BY <2>1, <2>2 DEF Fits
  <2> QED BY <1>3, <2>1, <2>2, <2>3
<1>8. CASE DeleteFix
  <2>1. Shrinking(t, w, temp) /\ pc' = pc /\ pc = "delete_fix" /\ key' = key
    BY <1>8 DEF DeleteFix, Fits
  <2>2. PICK v : Shape(t', v) /\ Same(w, v) /\ Shrinking(t', v, temp')
    BY <1>1, <1>8, <2>1, DeleteFixStep
  <2>3. Fits(t', pc', node', temp', v)
    BY <2>1, <2>2 DEF Fits
  <2> QED BY <1>3, <2>1, <2>2, <2>3
<1>9. CASE InsertDone
  <2>1. Fits(t', pc', node', temp', w) /\ pc' # "descend" /\ key' = key
    BY <1>9, InsertDoneStep DEF InsertDone
  <2> QED BY <1>3, <2>1, SameIs
<1>10. CASE DeleteDone
  <2>1. Fits(t', pc', node', temp', w) /\ pc' # "descend" /\ key' = key
    BY <1>10, DeleteDoneStep DEF DeleteDone
  <2> QED BY <1>3, <2>1, SameIs
<1>11. ASSUME NEW n \in Nodes, Delete(n)
       PROVE  \E v : /\ Fits(t', pc', node', temp', v)
                     /\ P => Searchable(work'.insert, key', pc', node', temp', v)
  <2>1. PICK v : Fits(t', pc', node', temp', v) /\ Keeps(w, v) /\ Members(v) = Members(w) \ {n}
    BY <1>11, DeleteStep
  <2>2. pc' # "descend"
    BY <1>11 DEF Delete
  <2>3. \A m : m \in Members(v) => key'[m] = key[m]
    <3>1. key \in [Nodes -> 0 .. KeyMod - 1] /\ Members(w) \subseteq Nodes
      BY <1>1, ShapeTypes DEF TypeOK
    <3> QED BY <1>11, <2>1, <3>1 DEF Delete
  <2> QED BY <1>2, <2>1, <2>2, <2>3
<1>12. work.inserted \subseteq Nodes /\ work.deleted \subseteq Nodes
  BY TreeAssumption DEF TypeOK
<1> QED BY <1>4, <1>5, <1>6, <1>7, <1>8, <1>9, <1>10, <1>11, <1>12 DEF Next, Call, Round

\* A step after which the tree fits keeps the types.
LEMMA TypeStep ==
    ASSUME TypeOK, Next, NEW v, Fits(t', pc', node', temp', v)
    PROVE  TypeOK'
<1>1. t' \in Trees /\ Members(v) \subseteq Nodes
  BY ShapeTypes DEF Fits
<1>2. rounds' \in Nat /\ work' \in Workloads /\ work' = work
  BY DEF Next, TypeOK
<1>3. /\ key \in [Nodes -> 0 .. KeyMod - 1] /\ pc \in {"idle", "descend", "insert_fix", "delete_fix"}
      /\ node \in Nodes \cup {None} /\ temp \in Places \cup {None}
      /\ work.inserted \subseteq Nodes /\ work.deleted \subseteq Nodes /\ \A n \in Nodes : KeysOf[n] \subseteq 0 .. KeyMod - 1
  BY TreeAssumption DEF TypeOK
<1>4. /\ pc' = "descend" => node' \in Nodes /\ temp' \in Places
      /\ pc' = "insert_fix" => node' \in Nodes
      /\ pc' = "delete_fix" => temp' \in Places
  BY <1>1, Apart DEF Fits, Growing, Shrinking
<1>5. /\ key' \in [Nodes -> 0 .. KeyMod - 1] /\ pc' \in {"idle", "descend", "insert_fix", "delete_fix"}
      /\ node' \in Nodes \cup {None} /\ temp' \in Places \cup {None}
  <2>1. ASSUME NEW n \in Nodes, NEW k \in 0 .. KeyMod - 1, InsertFirst(n, k)
        PROVE  /\ key' \in [Nodes -> 0 .. KeyMod - 1] /\ pc' \in {"idle", "descend", "insert_fix", "delete_fix"}
               /\ node' \in Nodes \cup {None} /\ temp' \in Places \cup {None}
    BY <1>3, <2>1 DEF InsertFirst
  <2>2. ASSUME NEW n \in Nodes, NEW k \in 0 .. KeyMod - 1, Insert(n, k)
        PROVE  /\ key' \in [Nodes -> 0 .. KeyMod - 1] /\ pc' \in {"idle", "descend", "insert_fix", "delete_fix"}
               /\ node' \in Nodes \cup {None} /\ temp' \in Places \cup {None}
    <3>1. /\ key' \in [Nodes -> 0 .. KeyMod - 1] /\ pc' = "descend"
      BY <1>3, <2>2 DEF Insert
    <3> QED BY <1>4, <3>1
  <2>3. ASSUME NEW n \in Nodes, Delete(n)
        PROVE  /\ key' \in [Nodes -> 0 .. KeyMod - 1] /\ pc' \in {"idle", "descend", "insert_fix", "delete_fix"}
               /\ node' \in Nodes \cup {None} /\ temp' \in Places \cup {None}
    <3>1. key' = [key EXCEPT ![n] = 0] /\ node' = node /\ ((pc' = pc /\ temp' = temp) \/ pc' = "delete_fix")
      BY <2>3 DEF Delete
    <3>2. key' \in [Nodes -> 0 .. KeyMod - 1]
      BY <1>3, <3>1, KeyModAssumption
    <3> QED BY <1>3, <1>4, <3>1, <3>2
  <2>4. CASE Descend
    <3>1. key' = key /\ node' = node /\ ((pc' = pc /\ pc = "descend") \/ (pc' = "insert_fix" /\ temp' = None))
      <4> DEFINE p == t.kid[IF Less(key[node], key[temp]) THEN "left" ELSE "right"][temp]
      <4>1. CASE p # Sentinel
        BY <2>4, <4>1 DEF Descend
      <4>2. CASE p = Sentinel
        BY <2>4, <4>2 DEF Descend
      <4> QED BY <4>1, <4>2
    <3> QED BY <1>3, <1>4, <3>1
  <2>5. CASE InsertFix
    <3>1. key' = key /\ temp' = temp /\ pc' = pc /\ pc = "insert_fix"
      BY <2>5 DEF InsertFix
    <3> QED BY <1>3, <1>4, <3>1
  <2>6. CASE DeleteFix
    <3>1. key' = key /\ node' = node /\ pc' = pc /\ pc = "delete_fix"
      BY <2>6 DEF DeleteFix
    <3> QED BY <1>3, <1>4, <3>1
  <2>7. CASE InsertDone \/ DeleteDone
    BY <1>3, <2>7 DEF InsertDone, DeleteDone
  <2> QED BY <1>3, <2>1, <2>2, <2>3, <2>4, <2>5, <2>6, <2>7 DEF Next, Call, Round
<1> QED BY <1>1, <1>2, <1>5, TypeIs

\* The invariant is inductive.
LEMMA TreeNext ==
    ASSUME NEW o \in BOOLEAN, TreeInv(o), o => KeysClose, [Next]_vars
    PROVE  TreeInv(o)'
<1> DEFINE P == o \/ work.insert = "rbtree_insert_value"
<1>1. PICK w : /\ Fits(t, pc, node, temp, w)
               /\ P => Searchable(work.insert, key, pc, node, temp, w)
  BY DEF TreeInv
<1>2. CASE Next
  <2>1. TypeOK /\ P \in BOOLEAN /\ (P => KeysClose) /\ work' = work
    BY <1>2 DEF TreeInv, KeysClose, Next
  <2> HIDE DEF P
  <2>2. PICK v : /\ Fits(t', pc', node', temp', v)
                 /\ P => Searchable(work'.insert, key', pc', node', temp', v)
    BY <1>1, <1>2, <2>1, StepKeeps
  <2>3. TypeOK'
    BY <1>2, <2>1, <2>2, TypeStep
  <2> QED BY <2>1, <2>2, <2>3 DEF TreeInv, P
<1>3. CASE UNCHANGED vars
  BY <1>3 DEF vars, TreeInv, TypeOK
<1> QED BY <1>2, <1>3

\* In every reachable state, for any nodes, keys, workloads and KeyMod, the tree
\* fits the step of the call that runs.
THEOREM TreeInvariant == Spec => []TreeInv(FALSE)
<1>1. Init => TreeInv(FALSE)
  BY TreeInit
<1>2. TreeInv(FALSE) /\ [Next]_vars => TreeInv(FALSE)'
  BY TreeNext
<1> QED BY <1>1, <1>2, PTL DEF Spec

\* If the keys of the timers are close in every state, it is in order too.
THEOREM OrderedTreeInvariant == Spec /\ []KeysClose => []TreeInv(TRUE)
<1>1. Init => TreeInv(TRUE)
  BY TreeInit
<1>2. TreeInv(TRUE) /\ KeysClose /\ [Next]_vars => TreeInv(TRUE)'
  BY TreeNext
<1> QED BY <1>1, <1>2, PTL DEF Spec

-----------------------------------------------------------------------------
(* What follows from the invariant. *)

\* Type correctness, for all nodes, keys and workloads.
THEOREM TreeTypeCorrect == Spec => []TypeOK
<1>1. TreeInv(FALSE) => TypeOK
  BY DEF TreeInv
<1> QED BY <1>1, TreeInvariant, PTL

\* The parent links agree with the child links, in the middle of every call of
\* rbtree_insert and rbtree_delete too.
THEOREM ParentsAgree == Spec => []ParentLinks
<1>1. TreeInv(FALSE) => ParentLinks
  <2> SUFFICES ASSUME TreeInv(FALSE), NEW n \in Linked, n # t.root
               PROVE  t.parent[n] \in Linked /\ n \in {t.kid["left"][t.parent[n]], t.kid["right"][t.parent[n]]}
    BY DEF ParentLinks
  <2>1. PICK w : Shape(t, w)
    BY DEF TreeInv, Fits
  <2>2. Linked = Members(w) /\ n \in Members(w) /\ n # Root(t)
    BY <2>1, LinkedIs DEF Root
  <2>3. Par(t, n) \in Members(w) /\ SideOf(t, n) \in Sides /\ Kid(t, SideOf(t, n), Par(t, n)) = n
    BY <2>1, <2>2, ParentIs
  <2> QED BY <2>2, <2>3, LeftRight DEF Par, Kid
<1> QED BY <1>1, TreeInvariant, PTL

\* rbtree_delete never looks below the sentinel: the black node that lacks one
\* on its paths has a sibling, with children if the sibling is red.
THEOREM SiblingExists == Spec => []SiblingIsNode
<1>1. TreeInv(FALSE) => SiblingIsNode
  <2> DEFINE e == SideOf(t, temp)
             p == Par(t, temp)
             s == Kid(t, Other(e), p)
  <2> SUFFICES ASSUME TreeInv(FALSE), pc = "delete_fix", DeleteUnbalanced
               PROVE  /\ p \in Linked /\ temp = Kid(t, e, p)
                      /\ s \in Nodes
                      /\ t.red[s] => Kid(t, e, s) \in Nodes
    BY DEF SiblingIsNode, Par, Kid
  <2>1. PICK w : Shape(t, w) /\ Shrinking(t, w, temp)
    BY DEF TreeInv, Fits
  <2>2. temp # Root(t) /\ temp \notin Reds(t)
    BY <2>1, TreeTypes DEF DeleteUnbalanced, Root, Shape, Shrinking, Reds
  <2>3. Hole(t, w, e, p, temp)
    BY <2>1, <2>2, ShrinkingHole
  <2>4. e \in Sides /\ p \in Members(w) /\ Kid(t, e, p) = temp
    BY <2>3 DEF Hole
  <2> HIDE DEF e, p, s
  <2>5. s \in Members(w) /\ \A d : d \in Sides /\ s \in Reds(t) => Kid(t, d, s) \in Members(w)
    BY <2>1, <2>3, HoleIs DEF s
  <2>6. Linked = Members(w) /\ Members(w) \subseteq Nodes /\ s \in Places /\ t \in Trees
    BY <2>1, <2>5, LinkedIs, ShapeTypes
  <2>7. t.red[s] => s \in Reds(t)
    BY <2>6 DEF Reds
  <2> QED BY <2>4, <2>5, <2>6, <2>7
<1> QED BY <1>1, TreeInvariant, PTL

-----------------------------------------------------------------------------
(* The refinement of the timer queue. *)

\* The nodes that are linked, with their keys.
Held == [n \in Linked |-> key[n]]

\* What a step does to these is a step of the timer queue, or nothing.
LEMMA HeldSame == Linked' = Linked /\ (\A m : m \in Linked => key'[m] = key[m]) => Held' = Held
BY DEF Held

\* A node more with a key is an insert into the queue.
LEMMA HeldInsert ==
    ASSUME NEW n \in Nodes, n \notin Linked, Linked' = Linked \cup {n}, key' \in [Nodes -> 0 .. KeyMod - 1],
           \A m : m \in Linked => key'[m] = key[m]
    PROVE  Queue!Insert(n)
<1>1. DOMAIN Held = Linked /\ DOMAIN Held' = Linked'
  BY DEF Held
<1>2. \A m : m \in Linked' => Held'[m] = key'[m]
  BY DEF Held
<1>3. \A m : m \in Linked => Held[m] = key[m]
  BY DEF Held
<1>4. Held'[n] \in 0 .. KeyMod - 1 /\ \A m \in Linked : Held'[m] = Held[m]
  BY <1>2, <1>3
<1> QED BY <1>1, <1>4 DEF Queue!Insert, Queue!Armed, Held

\* A node less is a deletion from the queue.
LEMMA HeldDelete ==
    ASSUME NEW n \in Linked, Linked' = Linked \ {n}, \A m : m \in Linked' => key'[m] = key[m]
    PROVE  Queue!Delete(n)
<1>1. DOMAIN Held = Linked /\ DOMAIN Held' = Linked'
  BY DEF Held
<1>2. \A m : m \in Linked' => Held'[m] = key'[m]
  BY DEF Held
<1>3. \A m : m \in Linked => Held[m] = key[m]
  BY DEF Held
<1>4. \A m \in Linked \ {n} : Held'[m] = Held[m]
  BY <1>2, <1>3
<1> QED BY <1>1, <1>4 DEF Queue!Delete, Queue!Armed, Held

\* Any two layouts of a tree have the same members: those that are linked.
LEMMA LinkedNext ==
    /\ \A c, n, m, w : Fits(t, c, n, m, w) => Linked = Members(w) /\ Linked \subseteq Nodes
    /\ \A c, n, m, w : Fits(t', c, n, m, w) => Linked' = Members(w)
BY LinkedIs, ShapeTypes DEF Fits

\* Every step is a step of the queue, or changes nothing in it.
LEMMA QueueStep ==
    ASSUME TreeInv(FALSE), TreeInv(FALSE)', [Next]_vars
    PROVE  Queue!Next \/ Held' = Held
<1>1. PICK w : Fits(t, pc, node, temp, w)
  BY DEF TreeInv
<1>2. /\ Linked = Members(w) /\ Linked \subseteq Nodes
      /\ key \in [Nodes -> 0 .. KeyMod - 1] /\ key' \in [Nodes -> 0 .. KeyMod - 1]
      /\ Shape(t, w)
  BY <1>1, LinkedNext DEF TreeInv, TypeOK, Fits
<1>3. ASSUME NEW n \in Nodes, NEW k, InsertFirst(n, k) PROVE Queue!Next
  <2>1. PICK v : Fits(t', pc', node', temp', v) /\ Members(w) = {} /\ Members(v) = {n}
    BY <1>1, <1>3, InsertFirstStep
  <2>2. Linked' = Linked \cup {n} /\ n \notin Linked
    BY <1>2, <2>1, LinkedNext
  <2>3. Queue!Insert(n)
    BY <1>2, <2>1, <2>2, HeldInsert
  <2> QED BY <2>3 DEF Queue!Next
<1>4. ASSUME NEW n \in Nodes, NEW k, Insert(n, k) PROVE Held' = Held
  <2>1. Fits(t', pc', node', temp', w) /\ n \notin Members(w)
    BY <1>1, <1>4, InsertStep
  <2>2. \A m : m \in Linked => key'[m] = key[m]
    BY <1>2, <1>4, <2>1 DEF Insert
  <2> QED BY <1>2, <2>1, <2>2, LinkedNext, HeldSame
<1>5. CASE Descend
  <2> DEFINE d == IF Less(key[node], key[temp]) THEN "left" ELSE "right"
             q == IF d = "left" THEN Pos(w, temp) ELSE Pos(w, temp) + 1
  <2>1. key' = key /\ node \in Nodes /\ node \notin Linked
    BY <1>1, <1>2, <1>5 DEF Descend, Fits
  <2>2. \/ Fits(t', pc', node', temp', w)
        \/ \E v : Fits(t', pc', node', temp', v) /\ Members(v) = Members(w) \cup {node}
    <3>1. \/ /\ Fits(t', pc', node', temp', w) /\ pc' = "descend" /\ t' = t
             /\ temp' = Kid(t, d, temp) /\ temp' \in Members(w)
          \/ \E v : /\ Fits(t', pc', node', temp', v) /\ pc' = "insert_fix"
                    /\ Kid(t, d, temp) = Sentinel
                    /\ v = Grow(w, node, q)
                    /\ Members(v) = Members(w) \cup {node}
      BY <1>1, <1>5, DescendStep
    <3> QED BY <3>1
  <2>3. CASE Fits(t', pc', node', temp', w)
    BY <1>2, <2>1, <2>3, LinkedNext, HeldSame
  <2>4. ASSUME NEW v, Fits(t', pc', node', temp', v), Members(v) = Members(w) \cup {node}
        PROVE  Queue!Next
    <3>1. PICK n \in Nodes : n = node
      BY <2>1
    <3>2. n \notin Linked /\ Linked' = Linked \cup {n} /\ \A m : m \in Linked => key'[m] = key[m]
      BY <1>2, <2>1, <2>4, <3>1, LinkedNext
    <3>3. Queue!Insert(n)
      BY <1>2, <3>2, HeldInsert
    <3> QED BY <3>3 DEF Queue!Next
  <2> QED BY <2>2, <2>3, <2>4
<1>6. CASE InsertFix
  <2>1. Growing(t, w, node) /\ key' = key
    BY <1>1, <1>6 DEF InsertFix, Fits
  <2>2. PICK v : Shape(t', v) /\ Same(w, v) /\ Growing(t', v, node')
    BY <1>2, <1>6, <2>1, InsertFixStep
  <2>3. Linked' = Linked
    BY <1>2, <2>2, LinkedIs DEF Same
  <2> QED BY <2>1, <2>3, HeldSame
<1>7. CASE DeleteFix
  <2>1. Shrinking(t, w, temp) /\ key' = key
    BY <1>1, <1>7 DEF DeleteFix, Fits
  <2>2. PICK v : Shape(t', v) /\ Same(w, v) /\ Shrinking(t', v, temp')
    BY <1>2, <1>7, <2>1, DeleteFixStep
  <2>3. Linked' = Linked
    BY <1>2, <2>2, LinkedIs DEF Same
  <2> QED BY <2>1, <2>3, HeldSame
<1>8. CASE InsertDone
  <2>1. Fits(t', pc', node', temp', w) /\ key' = key
    BY <1>1, <1>8, InsertDoneStep DEF InsertDone
  <2> QED BY <1>2, <2>1, LinkedNext, HeldSame
<1>9. CASE DeleteDone
  <2>1. Fits(t', pc', node', temp', w) /\ key' = key
    BY <1>1, <1>9, DeleteDoneStep DEF DeleteDone
  <2> QED BY <1>2, <2>1, LinkedNext, HeldSame
<1>10. ASSUME NEW n, Delete(n) PROVE Queue!Next
  <2>1. PICK v : Fits(t', pc', node', temp', v) /\ Keeps(w, v) /\ Members(v) = Members(w) \ {n}
    BY <1>1, <1>10, DeleteStep
  <2>2. n \in Linked
    BY <1>10 DEF Delete
  <2>3. Linked' = Linked \ {n}
    BY <1>2, <2>1, LinkedNext
  <2>4. \A m : m \in Linked' => key'[m] = key[m]
    BY <1>2, <1>10, <2>3 DEF Delete
  <2>5. Queue!Delete(n)
    BY <2>2, <2>3, <2>4, HeldDelete
  <2> QED BY <1>2, <2>2, <2>5 DEF Queue!Next
<1>11. CASE UNCHANGED vars
  <2>1. Held' = Held
    BY <1>11 DEF vars, Held, Linked
  <2> QED BY <2>1
<1>12. CASE Next
  <2>1. work \in Workloads
    BY DEF TreeInv, TypeOK
  <2>2. work.inserted \subseteq Nodes /\ work.deleted \subseteq Nodes
    BY <2>1, TreeAssumption
  <2> QED BY <1>3, <1>4, <1>5, <1>6, <1>7, <1>8, <1>9, <1>10, <1>12, <2>2 DEF Next, Call, Round
<1> QED BY <1>11, <1>12

\* Whatever is rotated, no node is lost, added or given another key but by an
\* insert or a delete.
THEOREM TreeImplementsQueue == Spec => ImplementsQueue
<1>1. Init => Queue!Init
  <2> SUFFICES ASSUME Init PROVE Queue!Init
    OBVIOUS
  <2>1. PICK w : Shape(t, w) /\ Members(w) = {}
    BY EmptyShape DEF Init
  <2>2. Linked = {}
    BY <2>1, LinkedIs
  <2> QED BY <2>2 DEF Queue!Init
<1>2. TreeInv(FALSE) /\ TreeInv(FALSE)' /\ [Next]_vars => [Queue!Next]_([n \in Linked |-> key[n]])
  BY QueueStep DEF Held
<1> QED BY <1>1, <1>2, TreeInvariant, PTL DEF Spec, ImplementsQueue, Queue!Spec

-----------------------------------------------------------------------------
(* Red-black trees. *)

\* f is the height of BlackHeight.
HeightEqn(x, f) ==
    f = [n \in Places \cup {None} |->
            IF n \notin Nodes THEN 0
            ELSE IF f[Kid(x, "left", n)] = -1 \/ f[Kid(x, "left", n)] # f[Kid(x, "right", n)] THEN -1
            ELSE f[Kid(x, "left", n)] + IF x.red[n] THEN 0 ELSE 1]

\* In a balanced tree the black height is the number of black nodes on a path.
LEMMA BlackHeightIs ==
    ASSUME NEW x, NEW w, Shape(x, w), NEW h, Balanced(x, Members(w), h, "left", None)
    PROVE  BlackHeight(x) = Hgt(h, Root(x)) /\ BlackHeight(x) \in Nat
<1> DEFINE M == Members(w)
           P == Places \cup {None}
           own(n) == IF n \in Reds(x) THEN 0 ELSE 1
           g == [n \in P |-> IF n \in M THEN Hgt(h, n) ELSE IF n \in Nodes THEN own(n) ELSE 0]
           f == CHOOSE f : HeightEqn(x, f)
<1>1. BlackHeight(x) = f[Root(x)]
  BY DEF BlackHeight, HeightEqn, Kid, Root
<1>2. /\ M \subseteq Nodes /\ Nodes \subseteq P /\ Sentinel \in P /\ None \in P /\ Nodes \subseteq Places
      /\ Sentinel \notin Nodes /\ None \notin Nodes
      /\ \A e, n : e \in Sides /\ n \in Nodes \ M => Kid(x, e, n) = None
  BY ShapeTypes, Apart DEF Shape, Detached
<1>3. /\ \A e, n : e \in Sides /\ n \in M =>
             /\ Kid(x, e, n) \in M \cup {Sentinel} /\ Hgt(h, Kid(x, e, n)) \in Nat
             /\ Hgt(h, n) = Hgt(h, Kid(x, e, n)) + own(n)
      /\ Hgt(h, Sentinel) = 0 /\ Root(x) \in M \cup {Sentinel}
      /\ \A n : n \in Places => Hgt(h, n) \in Nat
  <2>1. /\ \A e, n : e \in Sides /\ n \in Members(w) =>
               /\ Kid(x, e, n) \in Members(w) \cup {Sentinel} /\ Hgt(h, Kid(x, e, n)) \in Nat
               /\ Hgt(h, n) = Hgt(h, Kid(x, e, n)) + (IF n \in Reds(x) THEN 0 ELSE 1) + (IF e = "left" /\ n = None THEN 1 ELSE 0)
        /\ Hgt(h, Sentinel) = 0 /\ Root(x) \in Members(w) \cup {Sentinel} /\ None \notin Members(w)
        /\ \A n : n \in Places => Hgt(h, n) \in Nat
    BY HeightFacts
  <2>2. \A n : own(n) \in Nat
    OBVIOUS
  <2> QED BY <2>1, <2>2
<1>4. \A n : n \in Nodes => (x.red[n] <=> n \in Reds(x))
  BY <1>2, TreeTypes, ShapeTypes
<1>5. \A n : own(n) \in Nat /\ own(n) = IF n \in Reds(x) THEN 0 ELSE 1
  OBVIOUS
<1> HIDE DEF M, P, own
<1>6. HeightEqn(x, g)
  <2>1. ASSUME NEW n \in P
        PROVE  g[n] = IF n \notin Nodes THEN 0
                      ELSE IF g[Kid(x, "left", n)] = -1 \/ g[Kid(x, "left", n)] # g[Kid(x, "right", n)] THEN -1
                      ELSE g[Kid(x, "left", n)] + IF x.red[n] THEN 0 ELSE 1
    <3>1. CASE n \notin Nodes
      BY <1>2, <3>1
    <3>2. CASE n \in Nodes \ M
      <4>1. Kid(x, "left", n) = None /\ Kid(x, "right", n) = None
        BY <1>2, <3>2, LeftRight
      <4>2. g[None] = 0 /\ g[n] = own(n)
        BY <1>2, <3>2
      <4> HIDE DEF g
      <4> QED BY <1>4, <1>5, <3>2, <4>1, <4>2
    <3>3. CASE n \in M
      <4>1. \A m : m \in M \cup {Sentinel} => g[m] = Hgt(h, m)
        BY <1>2, <1>3
      <4>2. n \in Nodes
        BY <1>2, <3>3
      <4> HIDE DEF g
      <4> QED BY <1>3, <1>4, <1>5, <3>3, <4>1, <4>2, LeftRight
    <3> QED BY <3>1, <3>2, <3>3
  <2> HIDE DEF g
  <2>2. g = [n \in P |-> g[n]]
    BY DEF g
  <2> QED BY <2>1, <2>2 DEF HeightEqn, P
<1>7. HeightEqn(x, f)
  BY <1>6
<1> HIDE DEF f, g
<1>8. \A n : n \in P => f[n] = IF n \notin Nodes THEN 0
                               ELSE IF f[Kid(x, "left", n)] = -1 \/ f[Kid(x, "left", n)] # f[Kid(x, "right", n)] THEN -1
                               ELSE f[Kid(x, "left", n)] + IF x.red[n] THEN 0 ELSE 1
  BY <1>7 DEF HeightEqn, P
<1>9. \A n : n \in M => f[n] = Hgt(h, n)
  <2> SUFFICES ASSUME NEW b \in M, f[b] # Hgt(h, b) PROVE FALSE
    OBVIOUS
  <2> DEFINE Bad == {m \in M : f[m] # Hgt(h, m)}
             width(m) == Bnd(w, "right", m) - Bnd(w, "left", m)
             T == {width(m) : m \in Bad}
  <2>1. T \in SUBSET Nat /\ T # {}
    <3>1. \A m : m \in M => width(m) \in Nat
      BY Bounds DEF M
    <3> QED BY <3>1
  <2>2. PICK i \in T : \A j \in T : i <= j
    BY <2>1, LeastNumber
  <2>3. PICK m \in Bad : width(m) = i
    OBVIOUS
  <2>4. m \in M /\ m \in Members(w) /\ f[m] # Hgt(h, m)
    BY <2>3 DEF M
  <2>5. ASSUME NEW k \in M, width(k) < width(m) PROVE f[k] = Hgt(h, k)
    <3>1. ASSUME NEW l \in Bad PROVE width(m) <= width(l)
      BY <2>2, <2>3
    <3>2. width(m) \in Int /\ width(k) \in Int
      BY <2>4, Bounds DEF M
    <3>3. k \notin Bad
      BY <2>5, <3>1, <3>2
    <3> QED BY <3>3
  <2> HIDE DEF Bad, T
  <2>6. f[Sentinel] = 0
    BY <1>2, <1>8
  <2>7. f[Kid(x, "left", m)] = Hgt(h, Kid(x, "left", m))
    <3>1. CASE Kid(x, "left", m) = Sentinel
      BY <1>3, <2>6, <3>1
    <3>2. CASE Kid(x, "left", m) # Sentinel
      <4>1. Kid(x, "left", m) \in M
        BY <1>3, <2>4, <3>2, LeftRight
      <4>2. width(Kid(x, "left", m)) < width(m)
        BY <2>4, <3>2, Bounds
      <4> QED BY <2>5, <4>1, <4>2
    <3> QED BY <3>1, <3>2
  <2>8. f[Kid(x, "right", m)] = Hgt(h, Kid(x, "right", m))
    <3>1. CASE Kid(x, "right", m) = Sentinel
      BY <1>3, <2>6, <3>1
    <3>2. CASE Kid(x, "right", m) # Sentinel
      <4>1. Kid(x, "right", m) \in M
        BY <1>3, <2>4, <3>2, LeftRight
      <4>2. width(Kid(x, "right", m)) < width(m)
        BY <2>4, <3>2, Bounds
      <4> QED BY <2>5, <4>1, <4>2
    <3> QED BY <3>1, <3>2
  <2>9. m \in P /\ m \in Nodes
    BY <1>2, <2>4
  <2>10. /\ Hgt(h, m) = Hgt(h, Kid(x, "left", m)) + own(m) /\ Hgt(h, m) = Hgt(h, Kid(x, "right", m)) + own(m)
         /\ Hgt(h, Kid(x, "left", m)) \in Nat /\ Hgt(h, Kid(x, "right", m)) \in Nat
    BY <1>3, <2>4, LeftRight
  <2>11. f[m] = Hgt(h, m)
    BY <1>4, <1>5, <1>8, <2>7, <2>8, <2>9, <2>10
  <2> QED BY <2>4, <2>11
<1>10. f[Root(x)] = Hgt(h, Root(x)) /\ Root(x) \in Places
  BY <1>2, <1>3, <1>8, <1>9, Apart
<1> QED BY <1>1, <1>3, <1>10

\* Between calls the tree is a red-black tree.
THEOREM RedBlackHolds == Spec => []RedBlack
<1>1. TreeInv(FALSE) => RedBlack
  <2> SUFFICES ASSUME TreeInv(FALSE), pc = "idle"
               PROVE  /\ ~t.red[Root(t)]
                      /\ \A n \in Linked, d \in Sides : t.red[n] => ~t.red[Kid(t, d, n)]
                      /\ BlackHeight(t) # -1
    BY DEF RedBlack, Root, Kid
  <2>1. PICK w : Shape(t, w) /\ Calm(t, w)
    BY DEF TreeInv, Fits
  <2>2. PICK h : Balanced(t, Members(w), h, "left", None) /\ Painted(t, Members(w), None, None)
    BY <2>1 DEF Calm
  <2>3. t \in Trees /\ Root(t) \in Places /\ None \notin Places
    BY <2>1, ShapeTypes, TreeTypes, Apart
  <2>4. ~t.red[Root(t)]
    BY <2>2, <2>3, TreeTypes DEF Painted
  <2>5. ASSUME NEW n \in Linked, NEW d \in Sides, t.red[n] PROVE ~t.red[Kid(t, d, n)]
    <3>1. n \in Members(w) /\ n \in Places
      BY <2>1, LinkedIs, ShapeTypes
    <3>2. Kid(t, d, n) \in Places
      BY <2>1, <3>1, Links
    <3>3. n \in Reds(t)
      BY <2>3, <2>5, <3>1, TreeTypes
    <3>4. Kid(t, d, n) \notin Reds(t)
      BY <2>2, <2>3, <3>1, <3>2, <3>3 DEF Painted
    <3> QED BY <2>3, <3>2, <3>4, TreeTypes
  <2>6. BlackHeight(t) \in Nat
    BY <2>1, <2>2, BlackHeightIs
  <2> QED BY <2>4, <2>5, <2>6
<1> QED BY <1>1, TreeInvariant, PTL

-----------------------------------------------------------------------------
(* The search order. *)

\* The nodes are in the order of their keys, and rbtree_min gives the first, as
\* long as the keys of the timers are in one half of their circle.
THEOREM TreeSearchOrder == Spec /\ []KeysClose => []SearchOrder
<1>1. TreeInv(TRUE) => SearchOrder
  <2> DEFINE s == InOrder(t)
             f == work.insert
  <2> SUFFICES ASSUME TreeInv(TRUE)
               PROVE  /\ \A i \in 1 .. Len(s) - 1 : ~Less(key[s[i + 1]], key[s[i]])
                      /\ t.root # Sentinel => rbtree_min(t, t.root) = s[1]
    BY DEF SearchOrder
  <2>1. PICK w : Shape(t, w) /\ Sorted(f, key, w)
    BY DEF TreeInv, Fits, Searchable
  <2>2. Size(w) \in Nat /\ s = Part(w, 0, Size(w) + 1)
    BY <2>1, ShapeTypes, InOrderIs
  <2>3. Lists(s, w, 0, Size(w) + 1 - 0 - 1)
    BY <2>1, <2>2, PartIs
  <2> HIDE DEF s, f
  <2>4. Len(s) = Size(w) /\ \A i : i \in 1 .. Size(w) => s[i] = At(w, i)
    BY <2>2, <2>3 DEF Lists
  <2>5. /\ \A i : i \in 1 .. Size(w) => At(w, i) \in Members(w) /\ Pos(w, At(w, i)) = i
        /\ \A n : n \in Members(w) => At(w, Pos(w, n)) = n
    BY <2>1, AtIs DEF Shape
  <2>6. ASSUME NEW i \in 1 .. Len(s) - 1 PROVE ~Less(key[s[i + 1]], key[s[i]])
    <3>1. i \in 1 .. Size(w) /\ i + 1 \in 1 .. Size(w) /\ i < i + 1
      BY <2>2, <2>4
    <3>2. ~LessBy(f, key[s[i + 1]], key[s[i]])
      BY <2>1, <2>4, <2>5, <3>1 DEF Sorted
    <3> QED BY <3>2, LessIs DEF f
  <2>7. ASSUME t.root # Sentinel PROVE rbtree_min(t, t.root) = s[1]
    <3>1. Root(t) = t.root /\ Root(t) # Sentinel
      BY <2>7 DEF Root
    <3>2. Root(t) \in Members(w) /\ Bnd(w, "left", Root(t)) = 0
      BY <2>1, <3>1, RootIs
    <3>3. rbtree_min(t, Root(t)) \in Members(w) /\ Pos(w, rbtree_min(t, Root(t))) = 1
      BY <2>1, <3>2, MinIs
    <3>4. 1 \in 1 .. Size(w)
      BY <2>1, <3>3, ShapeTypes
    <3> QED BY <2>4, <2>5, <3>1, <3>3, <3>4
  <2> QED BY <2>6, <2>7
<1> QED BY <1>1, OrderedTreeInvariant, PTL

-----------------------------------------------------------------------------
(* rbtree_find. *)

\* The nodes with key k in the subtree of n.
Hits(w, k, n) ==
    {m \in Members(w) : key[m] = k /\ Bnd(w, "left", n) < Pos(w, m) /\ Pos(w, m) < Bnd(w, "right", n)}

\* The search of rbtree_find loses no node with the key it looks for.
LEMMA HitsStep ==
    ASSUME NEW w, Shape(t, w), key \in [Nodes -> 0 .. KeyMod - 1], Sorted("rbtree_insert_value", key, w),
           NEW k \in 0 .. KeyMod - 1, NEW n \in Members(w)
    PROVE  /\ key[n] \in Int
           /\ key[n] = k => n \in Hits(w, k, n)
           /\ k < key[n] => \/ Kid(t, "left", n) = Sentinel /\ Hits(w, k, n) = {}
                            \/ Kid(t, "left", n) \in Members(w) /\ Hits(w, k, n) = Hits(w, k, Kid(t, "left", n))
           /\ k > key[n] => \/ Kid(t, "right", n) = Sentinel /\ Hits(w, k, n) = {}
                            \/ Kid(t, "right", n) \in Members(w) /\ Hits(w, k, n) = Hits(w, k, Kid(t, "right", n))
<1> DEFINE M == Members(w)
<1>1. /\ \A m : m \in M => key[m] \in Int /\ Pos(w, m) \in Int
      /\ \A a, b : a \in M /\ b \in M /\ Pos(w, a) < Pos(w, b) => key[a] <= key[b]
  <2>1. KeyMod \in Nat /\ \A m : m \in M => m \in Nodes /\ Pos(w, m) \in Int
    BY ShapeTypes, KeyModAssumption
  <2>2. \A m : m \in M => key[m] \in Int
    BY <2>1
  <2>3. \A a, b : LessBy("rbtree_insert_value", a, b) <=> a < b
    BY DEF LessBy
  <2>4. \A a, b : a \in M /\ b \in M /\ Pos(w, a) < Pos(w, b) => ~(key[b] < key[a])
    BY <2>3 DEF Sorted
  <2> QED BY <2>1, <2>2, <2>4
<1>2. /\ Bnd(w, "left", n) \in Nat /\ Bnd(w, "right", n) \in Nat /\ Pos(w, n) \in Nat
      /\ Bnd(w, "left", n) < Pos(w, n) /\ Pos(w, n) < Bnd(w, "right", n)
      /\ \/ Kid(t, "left", n) = Sentinel /\ Pos(w, n) = Bnd(w, "left", n) + 1
         \/ /\ Kid(t, "left", n) \in Members(w)
            /\ Bnd(w, "left", Kid(t, "left", n)) = Bnd(w, "left", n) /\ Bnd(w, "right", Kid(t, "left", n)) = Pos(w, n)
      /\ \/ Kid(t, "right", n) = Sentinel /\ Bnd(w, "right", n) = Pos(w, n) + 1
         \/ /\ Kid(t, "right", n) \in Members(w)
            /\ Bnd(w, "left", Kid(t, "right", n)) = Pos(w, n) /\ Bnd(w, "right", Kid(t, "right", n)) = Bnd(w, "right", n)
  BY Bounds
<1>3. n \in M /\ k \in Int /\ key[n] \in Int
  BY <1>1, KeyModAssumption
<1>4. \A a, b : a \in M /\ b \in M /\ Pos(w, a) = Pos(w, b) => a = b
  BY DEF Shape, Numbered
<1>5. key[n] = k => n \in Hits(w, k, n)
  BY <1>2, <1>3 DEF Hits
<1>6. ASSUME k < key[n]
      PROVE  \/ Kid(t, "left", n) = Sentinel /\ Hits(w, k, n) = {}
             \/ Kid(t, "left", n) \in Members(w) /\ Hits(w, k, n) = Hits(w, k, Kid(t, "left", n))
  <2>1. ASSUME NEW m \in M, key[m] = k PROVE Pos(w, m) < Pos(w, n)
    BY <1>1, <1>3, <1>4, <1>6, <2>1
  <2>2. Hits(w, k, n) = {m \in M : key[m] = k /\ Bnd(w, "left", n) < Pos(w, m) /\ Pos(w, m) < Pos(w, n)}
    BY <1>1, <1>2, <2>1 DEF Hits
  <2>3. CASE Kid(t, "left", n) = Sentinel /\ Pos(w, n) = Bnd(w, "left", n) + 1
    <3>1. \A m : m \in M => ~(Bnd(w, "left", n) < Pos(w, m) /\ Pos(w, m) < Pos(w, n))
      BY <1>1, <1>2, <2>3
    <3> QED BY <2>2, <2>3, <3>1
  <2>4. CASE /\ Kid(t, "left", n) \in Members(w)
             /\ Bnd(w, "left", Kid(t, "left", n)) = Bnd(w, "left", n) /\ Bnd(w, "right", Kid(t, "left", n)) = Pos(w, n)
    BY <2>2, <2>4 DEF Hits
  <2> QED BY <1>2, <2>3, <2>4
<1>7. ASSUME k > key[n]
      PROVE  \/ Kid(t, "right", n) = Sentinel /\ Hits(w, k, n) = {}
             \/ Kid(t, "right", n) \in Members(w) /\ Hits(w, k, n) = Hits(w, k, Kid(t, "right", n))
  <2>1. ASSUME NEW m \in M, key[m] = k PROVE Pos(w, n) < Pos(w, m)
    BY <1>1, <1>3, <1>4, <1>7, <2>1
  <2>2. Hits(w, k, n) = {m \in M : key[m] = k /\ Pos(w, n) < Pos(w, m) /\ Pos(w, m) < Bnd(w, "right", n)}
    BY <1>1, <1>2, <2>1 DEF Hits
  <2>3. CASE Kid(t, "right", n) = Sentinel /\ Bnd(w, "right", n) = Pos(w, n) + 1
    <3>1. \A m : m \in M => ~(Pos(w, n) < Pos(w, m) /\ Pos(w, m) < Bnd(w, "right", n))
      BY <1>1, <1>2, <2>3
    <3> QED BY <2>2, <2>3, <3>1
  <2>4. CASE /\ Kid(t, "right", n) \in Members(w)
             /\ Bnd(w, "left", Kid(t, "right", n)) = Pos(w, n) /\ Bnd(w, "right", Kid(t, "right", n)) = Bnd(w, "right", n)
    BY <2>2, <2>4 DEF Hits
  <2> QED BY <1>2, <2>3, <2>4
<1> QED BY <1>3, <1>5, <1>6, <1>7

\* v is above all nodes of S.
Covers(w, S, v) == v \in S /\ \A m : m \in S => Bnd(w, "left", v) < Pos(w, m) /\ Pos(w, m) < Bnd(w, "right", v)

\* Only one node of a set is above all of them.
LEMMA CoverUnique ==
    ASSUME NEW x, NEW w, Shape(x, w), NEW S, S \subseteq Members(w), NEW u, Covers(w, S, u), NEW v, Covers(w, S, v)
    PROVE  u = v
<1>1. u \in Members(w) /\ v \in Members(w)
  BY DEF Covers
<1>2. /\ Bnd(w, "left", u) \in Int /\ Bnd(w, "right", u) \in Int /\ Pos(w, u) \in Int
      /\ Bnd(w, "left", v) \in Int /\ Bnd(w, "right", v) \in Int /\ Pos(w, v) \in Int
  BY <1>1, ShapeTypes
<1>3. /\ Bnd(w, "left", u) < Pos(w, u) /\ Pos(w, u) < Bnd(w, "right", u)
      /\ Bnd(w, "left", v) < Pos(w, v) /\ Pos(w, v) < Bnd(w, "right", v)
      /\ Bnd(w, "left", u) < Pos(w, v) /\ Pos(w, v) < Bnd(w, "right", u)
      /\ Bnd(w, "left", v) < Pos(w, u) /\ Pos(w, u) < Bnd(w, "right", v)
  BY DEF Covers
<1>4. \/ u = v \/ Below(w, u, v) \/ Below(w, v, u)
      \/ Bnd(w, "right", u) <= Bnd(w, "left", v) \/ Bnd(w, "right", v) <= Bnd(w, "left", u)
  BY <1>1 DEF Shape, Nested
<1>5. ~Below(w, u, v) /\ ~Below(w, v, u)
  BY <1>2, <1>3 DEF Below
<1> QED BY <1>2, <1>3, <1>4, <1>5

\* f is the search of rbtree_find.
FindEqn(x, k, f) ==
    f = [n \in Places \cup {None} |->
            IF n = None THEN None
            ELSE IF k < (IF n = Sentinel THEN 0 ELSE key[n]) THEN f[Kid(x, "left", n)]
            ELSE IF k > (IF n = Sentinel THEN 0 ELSE key[n]) THEN f[Kid(x, "right", n)]
            ELSE n]

\* What rbtree_find returns: a node with the key, if there is one.
LEMMA FindIs ==
    ASSUME NEW w, Shape(t, w), key \in [Nodes -> 0 .. KeyMod - 1], Sorted("rbtree_insert_value", key, w),
           NEW k \in 0 .. KeyMod - 1
    PROVE  /\ (\E n : n \in Members(w) /\ key[n] = k)
                 => rbtree_find(t, k) \in Members(w) /\ key[rbtree_find(t, k)] = k
           /\ ~(\E n : n \in Members(w) /\ key[n] = k)
                 => rbtree_find(t, k) = IF k = 0 THEN Sentinel ELSE None
<1> DEFINE M == Members(w)
           P == Places \cup {None}
           miss == IF k = 0 THEN Sentinel ELSE None
           hits(n) == Hits(w, k, n)
           best(S) == IF \E v : Covers(w, S, v) THEN CHOOSE v : Covers(w, S, v) ELSE miss
           g == [n \in P |-> IF n \in M THEN best(hits(n))
                             ELSE IF n \in Nodes THEN IF key[n] = k THEN n ELSE None
                             ELSE IF n = Sentinel THEN miss ELSE None]
           f == CHOOSE f : FindEqn(t, k, f)
<1>1. rbtree_find(t, k) = f[Root(t)]
  BY DEF rbtree_find, FindEqn, Kid, Root
<1>2. /\ M \subseteq Nodes /\ Nodes \subseteq P /\ Sentinel \in P /\ None \in P /\ None # Sentinel
      /\ Sentinel \notin Nodes /\ None \notin Nodes /\ P = Nodes \cup {Sentinel, None}
      /\ \A e, n : e \in Sides /\ n \in P \ (M \cup {None}) => Kid(t, e, n) = None
      /\ k \in Nat /\ \A n : n \in Nodes => key[n] \in Nat
  BY ShapeTypes, Apart, KeyModAssumption DEF Shape, Detached
<1>3. \A n : n \in M =>
         /\ key[n] \in Int
         /\ key[n] = k => n \in hits(n)
         /\ k < key[n] => \/ Kid(t, "left", n) = Sentinel /\ hits(n) = {}
                          \/ Kid(t, "left", n) \in M /\ hits(n) = hits(Kid(t, "left", n))
         /\ k > key[n] => \/ Kid(t, "right", n) = Sentinel /\ hits(n) = {}
                          \/ Kid(t, "right", n) \in M /\ hits(n) = hits(Kid(t, "right", n))
  BY HitsStep
<1>4. best({}) = miss
  BY DEF Covers
<1>5. \A n : n \in M /\ key[n] = k => best(hits(n)) = n
  <2> SUFFICES ASSUME NEW n \in M, key[n] = k PROVE best(hits(n)) = n
    OBVIOUS
  <2>1. hits(n) \subseteq M
    BY DEF Hits
  <2>2. Covers(w, hits(n), n)
    BY <1>3 DEF Covers, Hits
  <2> DEFINE S == hits(n)
  <2> HIDE DEF S
  <2>3. Covers(w, S, n) /\ \A v : Covers(w, S, v) => v = n
    BY <2>1, <2>2, CoverUnique DEF S
  <2>4. (CHOOSE v : Covers(w, S, v)) = n
    BY <2>3
  <2>5. best(S) = n
    BY <2>3, <2>4
  <2> QED BY <2>5 DEF S
<1>6. miss = IF k = 0 THEN Sentinel ELSE None
  OBVIOUS
<1>7. \A n : hits(n) \subseteq M /\ \A m : m \in hits(n) => key[m] = k
  BY DEF Hits
<1> HIDE DEF M, P, miss, hits, best
<1>8. FindEqn(t, k, g)
  <2>1. ASSUME NEW n \in P
        PROVE  g[n] = IF n = None THEN None
                      ELSE IF k < (IF n = Sentinel THEN 0 ELSE key[n]) THEN g[Kid(t, "left", n)]
                      ELSE IF k > (IF n = Sentinel THEN 0 ELSE key[n]) THEN g[Kid(t, "right", n)]
                      ELSE n
    <3>1. g[None] = None /\ g[Sentinel] = miss
      BY <1>2
    <3>2. CASE n = None
      BY <3>1, <3>2
    <3>3. CASE n = Sentinel
      <4>1. Kid(t, "right", n) = None
        BY <1>2, <3>3, LeftRight
      <4> HIDE DEF g
      <4> QED BY <1>2, <1>6, <3>1, <3>3, <4>1
    <3>4. CASE n \in Nodes \ M
      <4>1. Kid(t, "left", n) = None /\ Kid(t, "right", n) = None
        BY <1>2, <3>4, LeftRight
      <4>2. g[n] = IF key[n] = k THEN n ELSE None
        BY <1>2, <3>4
      <4>3. n # None /\ n # Sentinel /\ key[n] \in Nat
        BY <1>2, <3>4
      <4> HIDE DEF g
      <4> QED BY <1>2, <3>1, <4>1, <4>2, <4>3
    <3>5. CASE n \in M
      <4>1. \A m : m \in M => g[m] = best(hits(m))
        BY <1>2
      <4>2. n # None /\ n # Sentinel /\ key[n] \in Nat
        BY <1>2, <3>5
      <4> HIDE DEF g
      <4>3. CASE key[n] = k
        BY <1>2, <1>5, <3>5, <4>1, <4>2, <4>3
      <4>4. CASE k < key[n]
        <5>1. g[n] = g[Kid(t, "left", n)]
          BY <1>3, <1>4, <3>1, <3>5, <4>1, <4>4
        <5> QED BY <4>2, <4>4, <5>1
      <4>5. CASE k > key[n]
        <5>1. g[n] = g[Kid(t, "right", n)]
          BY <1>3, <1>4, <3>1, <3>5, <4>1, <4>5
        <5>2. ~(k < key[n])
          BY <1>2, <4>2, <4>5
        <5> QED BY <4>2, <4>5, <5>1, <5>2
      <4> QED BY <1>2, <4>2, <4>3, <4>4, <4>5
    <3> QED BY <1>2, <3>2, <3>3, <3>4, <3>5
  <2> HIDE DEF g
  <2>2. g = [n \in P |-> g[n]]
    BY DEF g
  <2> QED BY <2>1, <2>2 DEF FindEqn, P
<1>9. FindEqn(t, k, f)
  BY <1>8
<1> HIDE DEF f, g
<1>10. \A n : n \in P => f[n] = IF n = None THEN None
                                ELSE IF k < (IF n = Sentinel THEN 0 ELSE key[n]) THEN f[Kid(t, "left", n)]
                                ELSE IF k > (IF n = Sentinel THEN 0 ELSE key[n]) THEN f[Kid(t, "right", n)]
                                ELSE n
  BY <1>9 DEF FindEqn, P
<1>11. f[Sentinel] = miss
  <2>1. f[None] = None /\ Kid(t, "right", Sentinel) = None
    BY <1>2, <1>10, LeftRight DEF M
  <2> QED BY <1>2, <1>6, <1>10, <2>1
<1> DEFINE Good(n) == IF hits(n) # {} THEN f[n] \in M /\ key[f[n]] = k ELSE f[n] = miss
<1>12. \A n : n \in M => Good(n)
  <2> SUFFICES ASSUME NEW b \in M, ~Good(b) PROVE FALSE
    OBVIOUS
  <2> DEFINE Bad == {m \in M : ~Good(m)}
             width(m) == Bnd(w, "right", m) - Bnd(w, "left", m)
             T == {width(m) : m \in Bad}
  <2>1. T \in SUBSET Nat /\ T # {}
    <3>1. \A m : m \in M => width(m) \in Nat
      BY Bounds DEF M
    <3> QED BY <3>1
  <2>2. PICK i \in T : \A j \in T : i <= j
    BY <2>1, LeastNumber
  <2>3. PICK m \in Bad : width(m) = i
    OBVIOUS
  <2>4. m \in M /\ m \in Members(w) /\ ~Good(m)
    BY <2>3 DEF M
  <2>5. ASSUME NEW l \in M, width(l) < width(m) PROVE Good(l)
    <3>1. ASSUME NEW j \in Bad PROVE width(m) <= width(j)
      BY <2>2, <2>3
    <3>2. width(m) \in Int /\ width(l) \in Int
      BY <2>4, Bounds DEF M
    <3>3. l \notin Bad
      BY <2>5, <3>1, <3>2
    <3> QED BY <3>3
  <2>6. /\ m \in P /\ m # None /\ m # Sentinel /\ key[m] \in Nat
        /\ Kid(t, "left", m) \in M => width(Kid(t, "left", m)) < width(m)
        /\ Kid(t, "right", m) \in M => width(Kid(t, "right", m)) < width(m)
        /\ Kid(t, "left", m) \in M => Kid(t, "left", m) # Sentinel
        /\ Kid(t, "right", m) \in M => Kid(t, "right", m) # Sentinel
    <3>1. /\ m \in P /\ m # None /\ m # Sentinel /\ key[m] \in Nat
          /\ Kid(t, "left", m) \in M => Kid(t, "left", m) # Sentinel
          /\ Kid(t, "right", m) \in M => Kid(t, "right", m) # Sentinel
      BY <1>2, <2>4
    <3>2. /\ Kid(t, "left", m) \in M => width(Kid(t, "left", m)) < width(m)
          /\ Kid(t, "right", m) \in M => width(Kid(t, "right", m)) < width(m)
      BY <2>4, <3>1, Bounds DEF M
    <3> QED BY <3>1, <3>2
  <2> HIDE DEF Bad, T, width
  <2>7. CASE key[m] = k
    <3>1. f[m] = m
      BY <1>2, <1>10, <2>6, <2>7
    <3> QED BY <1>3, <2>4, <2>7, <3>1
  <2>8. CASE k < key[m]
    <3>1. f[m] = f[Kid(t, "left", m)]
      BY <1>10, <2>6, <2>8
    <3>2. CASE Kid(t, "left", m) = Sentinel /\ hits(m) = {}
      BY <1>11, <2>4, <3>1, <3>2
    <3>3. CASE Kid(t, "left", m) \in M /\ hits(m) = hits(Kid(t, "left", m))
      <4>1. Good(Kid(t, "left", m))
        BY <2>5, <2>6, <3>3
      <4> QED BY <2>4, <3>1, <3>3, <4>1
    <3> QED BY <1>3, <2>4, <2>8, <3>2, <3>3
  <2>9. CASE k > key[m]
    <3>1. f[m] = f[Kid(t, "right", m)]
      <4>1. ~(k < key[m])
        BY <1>2, <2>6, <2>9
      <4> QED BY <1>10, <2>6, <2>9, <4>1
    <3>2. CASE Kid(t, "right", m) = Sentinel /\ hits(m) = {}
      BY <1>11, <2>4, <3>1, <3>2
    <3>3. CASE Kid(t, "right", m) \in M /\ hits(m) = hits(Kid(t, "right", m))
      <4>1. Good(Kid(t, "right", m))
        BY <2>5, <2>6, <3>3
      <4> QED BY <2>4, <3>1, <3>3, <4>1
    <3> QED BY <1>3, <2>4, <2>9, <3>2, <3>3
  <2> QED BY <1>2, <2>6, <2>7, <2>8, <2>9
<1>13. CASE Root(t) = Sentinel
  <2>1. M = {}
    BY <1>13, RootIs DEF M
  <2> QED BY <1>1, <1>6, <1>11, <1>13, <2>1 DEF M
<1>14. CASE Root(t) # Sentinel
  <2>1. Root(t) \in M /\ Bnd(w, "left", Root(t)) = 0 /\ Bnd(w, "right", Root(t)) = Size(w) + 1
    BY <1>14, RootIs DEF M
  <2>2. hits(Root(t)) = {m \in M : key[m] = k}
    <3>1. \A m : m \in M => 0 < Pos(w, m) /\ Pos(w, m) < Size(w) + 1
      BY ShapeTypes DEF M
    <3> QED BY <2>1, <3>1 DEF hits, Hits, M
  <2>3. Good(Root(t))
    BY <1>12, <2>1
  <2> QED BY <1>1, <1>6, <2>2, <2>3 DEF M
<1> QED BY <1>13, <1>14

\* Between calls on a tree of rbtree_insert_value, rbtree_find finds a node with
\* the key exactly if there is one; for key 0 it may return the sentinel.
THEOREM TreeFindExact == Spec => []FindExact
<1>1. TreeInv(FALSE) => FindExact
  <2> SUFFICES ASSUME TreeInv(FALSE), pc = "idle", work.insert = "rbtree_insert_value", NEW k \in 0 .. KeyMod - 1
               PROVE  IF \E n \in Linked : key[n] = k
                      THEN rbtree_find(t, k) \in Linked /\ key[rbtree_find(t, k)] = k
                      ELSE rbtree_find(t, k) = None \/ (k = 0 /\ rbtree_find(t, k) = Sentinel)
    BY DEF FindExact
  <2>1. PICK w : Shape(t, w) /\ Sorted("rbtree_insert_value", key, w)
    BY DEF TreeInv, Fits, Searchable
  <2>2. key \in [Nodes -> 0 .. KeyMod - 1]
    BY DEF TreeInv, TypeOK
  <2>3. Linked = Members(w)
    BY <2>1, LinkedIs
  <2>4. /\ (\E n : n \in Members(w) /\ key[n] = k)
              => rbtree_find(t, k) \in Members(w) /\ key[rbtree_find(t, k)] = k
        /\ ~(\E n : n \in Members(w) /\ key[n] = k)
              => rbtree_find(t, k) = IF k = 0 THEN Sentinel ELSE None
    BY <2>1, <2>2, FindIs
  <2> QED BY <2>3, <2>4
<1> QED BY <1>1, TreeInvariant, PTL

-----------------------------------------------------------------------------
(* Powers of two, and black heights. *)

\* A power of two is positive.
LEMMA PowerIs ==
    \A a : a \in Nat => 2^a \in Nat /\ 2^a >= 1 /\ IsFiniteSet(1 .. a) /\ Cardinality(1 .. a) = a
<1> SUFFICES ASSUME NEW a \in Nat PROVE 2^a \in Nat /\ 2^a >= 1 /\ IsFiniteSet(1 .. a) /\ Cardinality(1 .. a) = a
  OBVIOUS
<1> DEFINE S == 1 .. a
<1>1. IsFiniteSet(S) /\ Cardinality(S) = a
  BY FS_Interval
<1> HIDE DEF S
<1>2. IsFiniteSet(SUBSET S) /\ Cardinality(SUBSET S) = 2^a
  BY <1>1, FS_SUBSET
<1>3. Cardinality(SUBSET S) \in Nat
  BY <1>2, FS_CardinalityType
<1>4. Cardinality(SUBSET S) # 0
  <2>1. {} \in SUBSET S
    OBVIOUS
  <2> QED BY <1>2, <2>1, FS_EmptySet
<1> QED BY <1>1, <1>2, <1>3, <1>4 DEF S

\* It is the number of subsets of a set, so sums of exponents become products.
LEMMA PowerSum ==
    ASSUME NEW a \in Nat, NEW b \in Nat
    PROVE  2^(a + b) = 2^a * 2^b
<1> DEFINE S == 1 .. a
           T == a + 1 .. a + b
           U == 1 .. a + b
           f == [p \in (SUBSET S) \X (SUBSET T) |-> p[1] \cup p[2]]
<1>1. /\ IsFiniteSet(S) /\ Cardinality(S) = a /\ IsFiniteSet(T) /\ Cardinality(T) = b
      /\ IsFiniteSet(U) /\ Cardinality(U) = a + b
  <2>1. IsFiniteSet(S) /\ Cardinality(S) = a
    BY FS_Interval
  <2>2. IsFiniteSet(T) /\ Cardinality(T) = IF a + 1 > a + b THEN 0 ELSE a + b - (a + 1) + 1
    BY FS_Interval
  <2>3. IsFiniteSet(U) /\ Cardinality(U) = IF 1 > a + b THEN 0 ELSE a + b - 1 + 1
    BY FS_Interval
  <2>4. Cardinality(T) = b /\ Cardinality(U) = a + b
    <3> HIDE DEF T, U
    <3> QED BY <2>2, <2>3
  <2> QED BY <2>1, <2>2, <2>3, <2>4
<1>2. U = S \cup T /\ S \cap T = {}
  OBVIOUS
<1> HIDE DEF S, T, U
<1>3. /\ IsFiniteSet(SUBSET S) /\ Cardinality(SUBSET S) = 2^a
      /\ IsFiniteSet(SUBSET T) /\ Cardinality(SUBSET T) = 2^b
      /\ IsFiniteSet(SUBSET U) /\ Cardinality(SUBSET U) = 2^(a + b)
  BY <1>1, FS_SUBSET
<1>4. f \in Bijection((SUBSET S) \X (SUBSET T), SUBSET U)
  <2>1. f \in [(SUBSET S) \X (SUBSET T) -> SUBSET U]
    BY <1>2
  <2>2. ASSUME NEW p \in (SUBSET S) \X (SUBSET T), NEW q \in (SUBSET S) \X (SUBSET T), f[p] = f[q] PROVE p = q
    <3>1. p[1] = f[p] \cap S /\ p[2] = f[p] \cap T
      BY <1>2
    <3>2. q[1] = f[q] \cap S /\ q[2] = f[q] \cap T
      BY <1>2
    <3>3. p[1] = q[1] /\ p[2] = q[2]
      BY <2>2, <3>1, <3>2
    <3> QED BY <3>3
  <2>3. ASSUME NEW u \in SUBSET U PROVE \E p \in (SUBSET S) \X (SUBSET T) : f[p] = u
    <3>1. <<u \cap S, u \cap T>> \in (SUBSET S) \X (SUBSET T)
      OBVIOUS
    <3>2. f[<<u \cap S, u \cap T>>] = u
      BY <1>2, <3>1
    <3> QED BY <3>1, <3>2
  <2> HIDE DEF f
  <2> QED BY <2>1, <2>2, <2>3 DEF Bijection, Injection, Surjection, IsInjective
<1>5. /\ IsFiniteSet((SUBSET S) \X (SUBSET T))
      /\ Cardinality((SUBSET S) \X (SUBSET T)) = 2^a * 2^b
  BY <1>3, FS_Product
<1>6. Cardinality(SUBSET U) = Cardinality((SUBSET S) \X (SUBSET T))
  BY <1>4, <1>5, FS_Bijection DEF ExistsBijection
<1> QED BY <1>3, <1>5, <1>6

\* The least powers.
LEMMA PowerOne == 2^0 = 1 /\ 2^1 = 2
<1>1. IsFiniteSet({}) /\ Cardinality({}) = 0 /\ \A x : IsFiniteSet({x}) /\ Cardinality({x}) = 1
  BY FS_EmptySet, FS_Singleton
<1>2. SUBSET {} = {{}}
  OBVIOUS
<1>3. Cardinality(SUBSET {}) = 2^0
  BY <1>1, FS_SUBSET
<1>4. 2^0 = 1
  BY <1>1, <1>2, <1>3
<1>5. SUBSET {0} = {{}} \cup {{0}} /\ {0} \notin {{}}
  OBVIOUS
<1>6. Cardinality(SUBSET {0}) = 2^1
  BY <1>1, FS_SUBSET
<1>7. \A e, u : u # e => Cardinality({e} \cup {u}) = 2
  <2> SUFFICES ASSUME NEW e, NEW u, u # e PROVE Cardinality({e} \cup {u}) = 2
    OBVIOUS
  <2> DEFINE S == {e}
  <2>1. IsFiniteSet(S) /\ Cardinality(S) = 1 /\ u \notin S
    BY <1>1
  <2> HIDE DEF S
  <2>2. Cardinality(S \cup {u}) = 2
    BY <2>1, FS_AddElement
  <2> QED BY <2>2 DEF S
<1>8. Cardinality({{}} \cup {{0}}) = 2
  <2>1. {0} # {}
    OBVIOUS
  <2> QED BY <1>7, <2>1
<1> QED BY <1>4, <1>5, <1>6, <1>8

\* Powers grow with their exponents.
LEMMA PowerGrows ==
    ASSUME NEW a \in Nat, NEW b \in Nat, a <= b
    PROVE  2^a <= 2^b
<1>1. b - a \in Nat /\ b = a + (b - a)
  OBVIOUS
<1> DEFINE c == b - a
<1> HIDE DEF c
<1>2. 2^b = 2^a * 2^c
  BY <1>1, PowerSum DEF c
<1>3. 2^a \in Nat /\ 2^c \in Nat /\ 2^c >= 1
  BY <1>1, PowerIs DEF c
<1> DEFINE x == 2^a
           y == 2^c
<1>4. x \in Nat /\ y \in Nat /\ y >= 1 /\ 2^b = x * y
  BY <1>2, <1>3
<1> HIDE DEF x, y
<1>5. x <= x * y
  BY <1>4
<1> QED BY <1>4, <1>5 DEF x

\* The place of the hole, if there is one, is not below n.
Intact(w, hp, n) ==
    hp \in Members(w) => ~(Bnd(w, "left", n) < Pos(w, hp) /\ Pos(w, hp) < Bnd(w, "right", n))

\* A subtree of black height i has at least 2^i - 1 nodes.
LEMMA HeightIsLow ==
    ASSUME NEW x, NEW w, Shape(x, w), NEW h, NEW hd, NEW hp, Balanced(x, Members(w), h, hd, hp),
           NEW n \in Members(w), Intact(w, hp, n)
    PROVE  2^Hgt(h, n) <= Size(w) + 1
<1> DEFINE M == Members(w)
           width(m) == Bnd(w, "right", m) - Bnd(w, "left", m)
           Bad == {m \in M : Intact(w, hp, m) /\ ~(2^Hgt(h, m) <= width(m))}
           T == {width(m) : m \in Bad}
<1> SUFFICES ASSUME 2^Hgt(h, n) > Size(w) + 1 PROVE FALSE
  <2>1. Hgt(h, n) \in Nat /\ Size(w) \in Nat
    BY HeightFacts, ShapeTypes
  <2> QED BY <2>1, PowerIs
<1>1. \A m : m \in M => width(m) \in Nat /\ width(m) <= Size(w) + 1 /\ Size(w) \in Nat
  BY Bounds, ShapeTypes
<1>2. \A m : m \in M => Hgt(h, m) \in Nat /\ 2^Hgt(h, m) \in Nat
  BY HeightFacts, PowerIs
<1>3. n \in Bad
  BY <1>1, <1>2
<1>4. T \in SUBSET Nat /\ T # {}
  BY <1>1, <1>3
<1>5. PICK i \in T : \A j \in T : i <= j
  BY <1>4, LeastNumber
<1>6. PICK m \in Bad : i = width(m)
  BY <1>5
<1> DEFINE l == Kid(x, "left", m)
           r == Kid(x, "right", m)
           b == IF m \in Reds(x) THEN 0 ELSE 1
<1>7. /\ Bnd(w, "left", m) \in Nat /\ Bnd(w, "right", m) \in Nat /\ Pos(w, m) \in Nat
      /\ Bnd(w, "left", m) < Pos(w, m) /\ Pos(w, m) < Bnd(w, "right", m)
      /\ \/ l = Sentinel
         \/ l \in M /\ Bnd(w, "left", l) = Bnd(w, "left", m) /\ Bnd(w, "right", l) = Pos(w, m)
      /\ \/ r = Sentinel
         \/ r \in M /\ Bnd(w, "left", r) = Pos(w, m) /\ Bnd(w, "right", r) = Bnd(w, "right", m)
  BY <1>6, Bounds
<1>8. m # hp
  BY <1>6, <1>7 DEF Intact
<1>9. /\ Hgt(h, l) \in Nat /\ Hgt(h, r) \in Nat /\ Hgt(h, Sentinel) = 0
      /\ Hgt(h, m) = Hgt(h, l) + b /\ Hgt(h, m) = Hgt(h, r) + b
  <2>1. \A e : e \in Sides => Hgt(h, Kid(x, e, m)) \in Nat /\ Hgt(h, m) = Hgt(h, Kid(x, e, m)) + b + 0
    BY <1>6, <1>8, HeightFacts
  <2>2. Hgt(h, Sentinel) = 0
    BY DEF Balanced
  <2> QED BY <2>1, <2>2, LeftRight
<1>10. hp \in M => Pos(w, hp) \in Int /\ Pos(w, hp) # Pos(w, m)
  BY <1>6, <1>8, ShapeTypes DEF Shape, Numbered
<1>11. 2^Hgt(h, l) \in Nat /\ 2^Hgt(h, l) <= Pos(w, m) - Bnd(w, "left", m)
  <2>1. CASE l = Sentinel
    <3>1. Hgt(h, l) = 0
      BY <1>9, <2>1
    <3>2. 2^Hgt(h, l) = 1
      BY <3>1, PowerOne
    <3> QED BY <1>7, <3>2
  <2>2. CASE l \in M /\ Bnd(w, "left", l) = Bnd(w, "left", m) /\ Bnd(w, "right", l) = Pos(w, m)
    <3>1. width(l) = Pos(w, m) - Bnd(w, "left", m) /\ width(l) < width(m)
      BY <1>7, <2>2
    <3>2. Intact(w, hp, l)
      BY <1>6, <1>7, <1>10, <2>2 DEF Intact
    <3>3. l \notin Bad
      <4>1. l \in Bad => i <= width(l)
        BY <1>5
      <4> QED BY <1>1, <1>6, <2>2, <3>1, <4>1
    <3> QED BY <1>2, <2>2, <3>1, <3>2, <3>3
  <2> QED BY <1>7, <2>1, <2>2
<1>12. 2^Hgt(h, r) \in Nat /\ 2^Hgt(h, r) <= Bnd(w, "right", m) - Pos(w, m)
  <2>1. CASE r = Sentinel
    <3>1. Hgt(h, r) = 0
      BY <1>9, <2>1
    <3>2. 2^Hgt(h, r) = 1
      BY <3>1, PowerOne
    <3> QED BY <1>7, <3>2
  <2>2. CASE r \in M /\ Bnd(w, "left", r) = Pos(w, m) /\ Bnd(w, "right", r) = Bnd(w, "right", m)
    <3>1. width(r) = Bnd(w, "right", m) - Pos(w, m) /\ width(r) < width(m)
      BY <1>7, <2>2
    <3>2. Intact(w, hp, r)
      BY <1>6, <1>7, <1>10, <2>2 DEF Intact
    <3>3. r \notin Bad
      <4>1. r \in Bad => i <= width(r)
        BY <1>5
      <4> QED BY <1>1, <1>6, <2>2, <3>1, <4>1
    <3> QED BY <1>2, <2>2, <3>1, <3>2, <3>3
  <2> QED BY <1>7, <2>1, <2>2
<1>13. 2^Hgt(h, m) <= 2^Hgt(h, l) + 2^Hgt(h, r)
  <2>1. CASE b = 0
    BY <1>9, <1>11, <1>12, <2>1
  <2>2. CASE b = 1
    <3>1. Hgt(h, r) = Hgt(h, l) /\ Hgt(h, m) = Hgt(h, l) + 1
      BY <1>9, <2>2
    <3>2. 2^(Hgt(h, l) + 1) = 2^Hgt(h, l) * 2^1
      BY <1>9, PowerSum
    <3>3. 2^Hgt(h, m) = 2^Hgt(h, l) * 2
      BY <3>1, <3>2, PowerOne
    <3> QED BY <1>11, <3>1, <3>3
  <2> QED BY <2>1, <2>2
<1>14. 2^Hgt(h, m) <= width(m)
  BY <1>2, <1>6, <1>7, <1>11, <1>12, <1>13
<1> QED BY <1>6, <1>14

\* The nodes that are linked are as many as the positions.
LEMMA SizeIs ==
    ASSUME NEW x, NEW w, Shape(x, w)
    PROVE  IsFiniteSet(Members(w)) /\ Cardinality(Members(w)) = Size(w) /\ Size(w) \in Nat
<1> DEFINE S == 1 .. Size(w)
           f == [i \in S |-> At(w, i)]
<1>1. Size(w) \in Nat /\ IsFiniteSet(S) /\ Cardinality(S) = Size(w)
  BY ShapeTypes, PowerIs
<1>2. /\ \A i : i \in S => At(w, i) \in Members(w) /\ Pos(w, At(w, i)) = i
      /\ \A n : n \in Members(w) => At(w, Pos(w, n)) = n /\ Pos(w, n) \in S
  BY AtIs, ShapeTypes DEF Shape
<1> HIDE DEF S
<1>3. f \in Bijection(S, Members(w))
  <2>1. f \in [S -> Members(w)] /\ \A i \in S : f[i] = At(w, i)
    BY <1>2
  <2> HIDE DEF f
  <2> QED BY <1>2, <2>1 DEF Bijection, Injection, Surjection, IsInjective
<1> QED BY <1>1, <1>3, FS_Bijection DEF ExistsBijection

-----------------------------------------------------------------------------
(* The length of the loops. *)

\* The bound of LoopsAreShort for r iterations in a tree of n nodes.
Short(r, n) == 2^r <= 2 * (n + 1) * (n + 1) * (n + 1)

\* Products grow with their factors.
LEMMA ProductGrows ==
    ASSUME NEW a \in Nat, NEW b \in Nat, NEW c \in Nat, NEW d \in Nat, a <= b, c <= d
    PROVE  a * c <= b * d /\ a * c \in Nat
<1>1. a * c \in Nat /\ b * c \in Nat /\ b * d \in Nat
  OBVIOUS
<1>2. a * c <= b * c
  <2>1. (b - a) * c >= 0 /\ (b - a) * c = b * c - a * c
    OBVIOUS
  <2> QED BY <1>1, <2>1
<1>3. b * c <= b * d
  <2>1. b * (d - c) >= 0 /\ b * (d - c) = b * d - b * c
    OBVIOUS
  <2> QED BY <1>1, <2>1
<1> QED BY <1>1, <1>2, <1>3

\* Two black heights on the way down and one on the way up.
LEMMA ShortIf ==
    ASSUME NEW a \in Nat, NEW b \in Nat, NEW r \in Nat, NEW n \in Nat, r <= 2 * a + b,
           2^a <= n + 1, 2^b <= n + 1
    PROVE  Short(r + 1, n)
<1> DEFINE k == n + 1
           p == 2^a
           q == 2^b
<1>1. k \in Nat /\ p \in Nat /\ q \in Nat /\ p <= k /\ q <= k
  BY PowerIs
<1>2. 2^(r + 1) <= 2^(a + a + b + 1)
  <2>1. r + 1 \in Nat /\ a + a + b + 1 \in Nat /\ r + 1 <= a + a + b + 1
    OBVIOUS
  <2> QED BY <2>1, PowerGrows
<1>3. 2^(a + a + b + 1) = p * p * q * 2
  <2>1. a + a \in Nat /\ a + a + b \in Nat /\ 1 \in Nat
    OBVIOUS
  <2>2. 2^(a + a) = p * p
    BY PowerSum
  <2>3. 2^(a + a + b) = 2^(a + a) * q
    BY <2>1, PowerSum
  <2>4. 2^(a + a + b + 1) = 2^(a + a + b) * 2^1
    BY <2>1, PowerSum
  <2> QED BY <2>2, <2>3, <2>4, PowerOne
<1>4. 2^(r + 1) \in Nat
  <2>1. r + 1 \in Nat
    OBVIOUS
  <2> QED BY <2>1, PowerIs
<1> HIDE DEF k, p, q
<1>5. p * p <= k * k /\ p * p \in Nat /\ k * k \in Nat
  BY <1>1, ProductGrows
<1>6. (p * p) * q <= (k * k) * k /\ (p * p) * q \in Nat
  <2> DEFINE pp == p * p
             kk == k * k
  <2>1. pp \in Nat /\ kk \in Nat /\ pp <= kk
    BY <1>5
  <2> HIDE DEF pp, kk
  <2>2. pp * q <= kk * k /\ pp * q \in Nat
    BY <1>1, <2>1, ProductGrows
  <2> QED BY <2>2 DEF pp, kk
<1>7. (k * k) * k \in Nat /\ 2 * k * k * k = 2 * ((k * k) * k)
  BY <1>1
<1>8. 2^(r + 1) <= 2 * k * k * k
  <2> DEFINE u == (p * p) * q
             v == (k * k) * k
             e == 2^(r + 1)
  <2>1. u \in Nat /\ v \in Nat /\ u <= v /\ e <= u * 2 /\ 2 * k * k * k = 2 * v /\ e \in Nat
    BY <1>2, <1>3, <1>4, <1>6, <1>7
  <2> HIDE DEF u, v, e
  <2>2. e <= 2 * k * k * k
    BY <2>1
  <2> QED BY <2>2 DEF e
<1> QED BY <1>8 DEF Short, k

\* More nodes allow as many iterations.
LEMMA ShortGrows ==
    ASSUME NEW r \in Nat, NEW n \in Nat, NEW m \in Nat, n <= m, Short(r, n)
    PROVE  Short(r, m)
<1> DEFINE j == n + 1
           k == m + 1
<1>1. j \in Nat /\ k \in Nat /\ j <= k /\ 2^r \in Nat /\ 2^r <= 2 * j * j * j
  BY PowerIs DEF Short
<1> HIDE DEF j, k
<1> DEFINE jj == j * j
           kk == k * k
<1>2. jj \in Nat /\ kk \in Nat /\ jj <= kk
  BY <1>1, ProductGrows
<1>3. 2 * j * j * j = 2 * (jj * j) /\ 2 * k * k * k = 2 * (kk * k)
  BY <1>1
<1> HIDE DEF jj, kk
<1> DEFINE u == jj * j
           v == kk * k
<1>4. u \in Nat /\ v \in Nat /\ u <= v
  BY <1>1, <1>2, ProductGrows
<1>5. 2^r <= 2 * u /\ 2 * k * k * k = 2 * v
  BY <1>1, <1>3
<1> HIDE DEF u, v
<1>6. 2^r <= 2 * k * k * k
  BY <1>1, <1>4, <1>5
<1> QED BY <1>6 DEF Short, k

\* The iterations r that a call has made, in step c with node n and temp m: at
\* most two for each black height passed on the way down from the root, and one
\* for each on the way up, unless the loop has ended.
Paid(x, M, c, n, m, r) ==
    /\ c = "descend" =>
          \E h : /\ Balanced(x, M, h, "left", None)
                 /\ r + (IF m \in Reds(x) THEN 1 ELSE 0) <= 2 * (Hgt(h, Root(x)) - Hgt(h, m))
    /\ c = "insert_fix" /\ ~Settled(x, n) =>
          \E h : Balanced(x, M, h, "left", None) /\ r <= 2 * Hgt(h, Root(x)) + Hgt(h, n)
    /\ c = "delete_fix" /\ m # Root(x) /\ m \notin Reds(x) =>
          \E h : Balanced(x, M, h, SideOf(x, m), Par(x, m)) /\ r <= Hgt(h, m)

\* The loops are short, and the next iteration is paid for.
RoundsInv == LoopsAreShort /\ Paid(t, Linked, pc, node, temp, rounds)

\* A call begins, or ends, without an iteration.
LEMMA CallRounds ==
    ASSUME NEW w, Fits(t, pc, node, temp, w), NEW v, Fits(t', pc', node', temp', v),
           (\E n, k : n \in Nodes /\ (InsertFirst(n, k) \/ Insert(n, k))) \/ (\E n : Delete(n)) \/ InsertDone \/ DeleteDone
    PROVE  Short(0, Size(v)) /\ Paid(t', Members(v), pc', node', temp', 0)
<1>1. Short(0, Size(v))
  <2>1. Size(v) \in Nat
    BY ShapeTypes DEF Fits
  <2>2. (Size(v) + 1) * (Size(v) + 1) * (Size(v) + 1) >= 1
    <3> DEFINE k == Size(v) + 1
    <3>1. k \in Nat /\ 1 <= k /\ 1 \in Nat
      BY <2>1
    <3> HIDE DEF k
    <3>2. 1 * 1 <= k * k /\ k * k \in Nat
      BY <3>1, ProductGrows
    <3> DEFINE kk == k * k
    <3>3. kk \in Nat /\ 1 <= kk
      BY <3>2
    <3> HIDE DEF kk
    <3>4. 1 * 1 <= kk * k /\ kk * k \in Nat
      BY <3>1, <3>3, ProductGrows
    <3>5. kk * k >= 1
      BY <3>4
    <3> QED BY <3>5 DEF kk, k
  <2>3. 2 * (Size(v) + 1) * (Size(v) + 1) * (Size(v) + 1) = 2 * ((Size(v) + 1) * (Size(v) + 1) * (Size(v) + 1))
    BY <2>1
  <2> DEFINE c == (Size(v) + 1) * (Size(v) + 1) * (Size(v) + 1)
  <2>4. c \in Nat /\ c >= 1 /\ 2 * (Size(v) + 1) * (Size(v) + 1) * (Size(v) + 1) = 2 * c
    BY <2>1, <2>2, <2>3
  <2> HIDE DEF c
  <2>5. 1 <= 2 * (Size(v) + 1) * (Size(v) + 1) * (Size(v) + 1)
    BY <2>4
  <2> QED BY <2>5, PowerOne DEF Short
<1>2. CASE pc' = "idle"
  BY <1>1, <1>2 DEF Paid
<1>3. ASSUME NEW n \in Nodes, NEW k, Insert(n, k) PROVE Paid(t', Members(v), pc', node', temp', 0)
  <2>1. /\ Shape(t, w) /\ Calm(t, w) /\ t' = t /\ pc' = "descend" /\ temp' = Root(t) /\ Shape(t', v)
    BY <1>3 DEF Insert, Fits, Root
  <2>2. Members(v) = Members(w)
    BY <2>1, LinkedIs
  <2>3. PICK h : Balanced(t, Members(w), h, "left", None) /\ Painted(t, Members(w), None, None)
    BY <2>1 DEF Calm
  <2>4. Root(t) \notin Reds(t)
    <3>1. Root(t) # None
      BY <2>1, TreeTypes, Apart DEF Shape
    <3> QED BY <2>3, <3>1 DEF Painted
  <2>5. Hgt(h, Root(t)) \in Nat
    BY <2>1, <2>3, TreeTypes, HeightsIs DEF Shape, Balanced
  <2>6. 0 + (IF temp' \in Reds(t') THEN 1 ELSE 0) <= 2 * (Hgt(h, Root(t')) - Hgt(h, temp'))
    BY <2>1, <2>4, <2>5
  <2>7. pc' # "insert_fix" /\ pc' # "delete_fix" /\ Balanced(t', Members(v), h, "left", None)
    BY <2>1, <2>2, <2>3
  <2> QED BY <2>6, <2>7 DEF Paid
<1>4. ASSUME NEW n, Delete(n) PROVE Paid(t', Members(v), pc', node', temp', 0)
  <2>1. pc' = "idle" \/ pc' = "delete_fix"
    BY <1>4 DEF Delete
  <2>2. ASSUME pc' = "delete_fix", temp' # Root(t'), temp' \notin Reds(t')
        PROVE  \E h : Balanced(t', Members(v), h, SideOf(t', temp'), Par(t', temp')) /\ 0 <= Hgt(h, temp')
    <3>1. Shape(t', v) /\ Shrinking(t', v, temp')
      BY <2>2 DEF Fits
    <3>2. Hole(t', v, SideOf(t', temp'), Par(t', temp'), temp')
      BY <2>2, <3>1, ShrinkingHole
    <3>3. PICK h : Balanced(t', Members(v), h, SideOf(t', temp'), Par(t', temp'))
      BY <3>2 DEF Hole
    <3>4. Hgt(h, temp') \in Nat
      BY <3>1, <3>3, HeightsIs DEF Shrinking, Balanced
    <3> QED BY <3>3, <3>4
  <2> QED BY <1>2, <2>1, <2>2 DEF Paid
<1>5. \/ pc' = "idle"
      \/ \E n, k : n \in Nodes /\ Insert(n, k)
      \/ \E n : Delete(n)
  <2>1. ASSUME NEW n \in Nodes, NEW k, InsertFirst(n, k) PROVE pc' = "idle"
    BY <2>1 DEF InsertFirst
  <2>2. InsertDone \/ DeleteDone => pc' = "idle"
    BY DEF InsertDone, DeleteDone
  <2> QED BY <2>1, <2>2
<1> QED BY <1>1, <1>2, <1>3, <1>4, <1>5

\* tree->insert goes down one level, or links the node.
LEMMA DescendRounds ==
    ASSUME NEW w, Fits(t, pc, node, temp, w), NEW v, Fits(t', pc', node', temp', v), Descend,
           NEW r \in Nat, Paid(t, Members(w), pc, node, temp, r)
    PROVE  Short(r + 1, Size(v)) /\ Paid(t', Members(v), pc', node', temp', r + 1)
<1> DEFINE M == Members(w)
           d == IF Less(key[node], key[temp]) THEN "left" ELSE "right"
           c == Kid(t, d, temp)
<1>1. /\ Shape(t, w) /\ Calm(t, w) /\ temp \in M /\ pc = "descend" /\ d \in Sides /\ Shape(t', v)
  BY LeftRight DEF Descend, Fits
<1>2. PICK h : /\ Balanced(t, M, h, "left", None)
               /\ r + (IF temp \in Reds(t) THEN 1 ELSE 0) <= 2 * (Hgt(h, Root(t)) - Hgt(h, temp))
  BY <1>1 DEF Paid
<1>3. PICK h0 : Balanced(t, M, h0, "left", None) /\ Painted(t, M, None, None)
  BY <1>1 DEF Calm
<1>4. \/ /\ pc' = "descend" /\ t' = t /\ temp' = c /\ temp' \in M
      \/ \E u : /\ Fits(t', pc', node', temp', u) /\ pc' = "insert_fix" /\ c = Sentinel
                /\ Members(u) = M \cup {node}
                /\ Lifted(t, M, t', Members(u), Sentinel, node, 0)
  <2>1. \/ /\ Fits(t', pc', node', temp', w) /\ pc' = "descend" /\ t' = t
           /\ temp' = Kid(t, d, temp) /\ temp' \in Members(w)
        \/ \E u : /\ Fits(t', pc', node', temp', u) /\ pc' = "insert_fix"
                  /\ Kid(t, d, temp) = Sentinel
                  /\ u = Grow(w, node, IF d = "left" THEN Pos(w, temp) ELSE Pos(w, temp) + 1)
                  /\ Members(u) = Members(w) \cup {node}
                  /\ Lifted(t, Members(w), t', Members(u), Sentinel, node, 0)
    BY DescendStep
  <2> QED BY <2>1
<1> HIDE DEF d
<1>5. /\ Hgt(h, temp) \in Nat /\ Hgt(h, c) \in Nat /\ Hgt(h, Root(t)) \in Nat
      /\ Hgt(h, temp) = Hgt(h, c) + (IF temp \in Reds(t) THEN 0 ELSE 1)
      /\ temp \in Reds(t) => c \notin Reds(t)
      /\ Hgt(h, Sentinel) = 0 /\ Root(t) \in M
  <2>1. /\ temp \in Places /\ Root(t) \in Places /\ temp # None /\ c # None
        /\ Hgt(h, c) \in Nat
        /\ Hgt(h, temp) = Hgt(h, c) + (IF temp \in Reds(t) THEN 0 ELSE 1)
        /\ Hgt(h, Sentinel) = 0
    <3>1. Hgt(h, temp) = Hgt(h, c) + (IF temp \in Reds(t) THEN 0 ELSE 1) + (IF d = "left" /\ temp = None THEN 1 ELSE 0)
          /\ c \in M \cup {Sentinel} /\ Hgt(h, c) \in Nat /\ None \notin M /\ Hgt(h, Sentinel) = 0
      BY <1>1, <1>2, HeightFacts
    <3>2. temp \in Places /\ Root(t) \in Places
      BY <1>1, ShapeTypes, TreeTypes
    <3>3. temp # None /\ c # None
      BY <1>1, <3>1, Apart
    <3> QED BY <3>1, <3>2, <3>3
  <2>2. \A n : n \in Places => Hgt(h, n) \in Nat
    BY <1>2, HeightsIs DEF Balanced
  <2>3. temp \in Reds(t) => c \notin Reds(t)
    BY <1>1, <1>3, <2>1 DEF Painted
  <2>4. Root(t) \in M
    BY <1>1, RootIs
  <2> QED BY <2>1, <2>2, <2>3, <2>4
<1>6. /\ r + 1 <= 2 * Hgt(h, Root(t))
      /\ r + 1 + (IF c \in Reds(t) THEN 1 ELSE 0) <= 2 * (Hgt(h, Root(t)) - Hgt(h, c))
  BY <1>2, <1>5
<1>7. Short(r + 1, Size(w)) /\ Size(w) \in Nat
  <2>1. 2^Hgt(h, Root(t)) <= Size(w) + 1
    <3>1. None \notin Members(w)
      BY <1>1, ShapeTypes, Apart
    <3>2. Intact(w, None, Root(t))
      BY <3>1 DEF Intact
    <3> QED BY <1>1, <1>2, <1>5, <3>2, HeightIsLow
  <2>2. Size(w) \in Nat /\ r <= 2 * Hgt(h, Root(t)) + 0 /\ 2^0 <= Size(w) + 1
    BY <1>1, <1>5, <1>6, ShapeTypes, PowerOne
  <2> QED BY <1>5, <2>1, <2>2, ShortIf
<1>8. CASE pc' = "descend" /\ t' = t /\ temp' = c /\ temp' \in M
  <2>1. Members(v) = M
    BY <1>1, <1>8, LinkedIs
  <2>2. Size(v) = Size(w)
    BY <1>1, <2>1, SizeIs
  <2>3. Balanced(t', Members(v), h, "left", None)
        /\ r + 1 + (IF temp' \in Reds(t') THEN 1 ELSE 0) <= 2 * (Hgt(h, Root(t')) - Hgt(h, temp'))
    BY <1>2, <1>6, <1>8, <2>1
  <2>4. pc' # "insert_fix" /\ pc' # "delete_fix"
    BY <1>8
  <2>5. Paid(t', Members(v), pc', node', temp', r + 1)
    BY <2>3, <2>4 DEF Paid
  <2> QED BY <1>7, <2>2, <2>5
<1>9. ASSUME NEW u, Fits(t', pc', node', temp', u), pc' = "insert_fix", c = Sentinel,
             Members(u) = M \cup {node}, Lifted(t, M, t', Members(u), Sentinel, node, 0)
      PROVE  Short(r + 1, Size(v)) /\ Paid(t', Members(v), pc', node', temp', r + 1)
  <2>1. Members(v) = Members(u) /\ node' = node
    BY <1>1, <1>9, LinkedIs DEF Fits, Descend
  <2>2. Size(v) = Size(w) + 1
    <3>1. node \in Nodes \ M /\ Cardinality(M) = Size(w) /\ Cardinality(M \cup {node}) = Size(v)
      BY <1>1, <1>9, <2>1, SizeIs DEF Fits
    <3>2. IsFiniteSet(M)
      BY <1>1, SizeIs DEF M
    <3> HIDE DEF M
    <3>3. Cardinality(M \cup {node}) = Cardinality(M) + 1
      BY <3>1, <3>2, FS_AddElement
    <3> QED BY <3>1, <3>3
  <2>3. Short(r + 1, Size(v))
    BY <1>7, <2>2, ShortGrows
  <2>4. PICK h1 : /\ Balanced(t', Members(v), h1, "left", None)
                  /\ Hgt(h1, Root(t')) = Hgt(h, Root(t)) /\ Hgt(h1, node) = Hgt(h, Sentinel) + 0
    BY <1>2, <1>9, <2>1 DEF Lifted
  <2>5. r + 1 <= 2 * Hgt(h1, Root(t')) + Hgt(h1, node')
    BY <1>5, <1>6, <2>1, <2>4
  <2>6. pc' # "descend" /\ pc' # "delete_fix"
    BY <1>9
  <2>7. Paid(t', Members(v), pc', node', temp', r + 1)
    BY <2>4, <2>5, <2>6 DEF Paid
  <2> QED BY <2>3, <2>7
<1> QED BY <1>4, <1>8, <1>9

\* The loop of rbtree_insert goes up one black height, or has ended.
LEMMA InsertFixRounds ==
    ASSUME NEW w, Fits(t, pc, node, temp, w), NEW v, Fits(t', pc', node', temp', v), InsertFix,
           NEW r \in Nat, Paid(t, Members(w), pc, node, temp, r)
    PROVE  Short(r + 1, Size(v)) /\ Paid(t', Members(v), pc', node', temp', r + 1)
<1>1. /\ Shape(t, w) /\ Growing(t, w, node) /\ pc = "insert_fix" /\ pc' = "insert_fix" /\ Shape(t', v)
  BY DEF InsertFix, Fits
<1>2. ~Settled(t, node)
  <2>1. node # t.root /\ t.red[t.parent[node]]
    BY DEF InsertFix, InsertUnbalanced
  <2>2. node # Root(t) /\ node \in Members(w)
    BY <1>1, <2>1 DEF Root, Growing
  <2>3. Par(t, node) \in Members(w)
    BY <1>1, <2>2, ParentIs
  <2>4. Par(t, node) \in Places
    BY <1>1, <2>3, ShapeTypes
  <2>5. Par(t, node) \in Reds(t)
    BY <2>1, <2>4 DEF Reds, Par
  <2> QED BY <2>2, <2>5 DEF Settled
<1>3. PICK h : Balanced(t, Members(w), h, "left", None) /\ r <= 2 * Hgt(h, Root(t)) + Hgt(h, node)
  BY <1>1, <1>2 DEF Paid
<1>4. (\E u : Shape(t', u) /\ Same(w, u) /\ Growing(t', u, node'))
      /\ (Settled(t', node') \/ Lifted(t, Members(w), t', Members(w), node, node', 1))
  BY <1>1, InsertFixStep
<1>5. Members(v) = Members(w)
  <2>1. PICK u : Shape(t', u) /\ Same(w, u)
    BY <1>4
  <2> QED BY <1>1, <2>1, LinkedIs DEF Same
<1>6. Size(v) = Size(w) /\ Size(w) \in Nat
  BY <1>1, <1>5, SizeIs
<1>7. node \in Members(w) /\ Root(t) \in Members(w) /\ node \in Places /\ Root(t) \in Places
  <2>1. node \in Members(w)
    BY <1>1 DEF Growing
  <2>2. Root(t) \in Members(w)
    BY <1>1, <2>1, RootIs
  <2> QED BY <1>1, <2>1, <2>2, ShapeTypes
<1>8. Hgt(h, Root(t)) \in Nat /\ Hgt(h, node) \in Nat
  BY <1>3, <1>7, HeightsIs DEF Balanced
<1>9. 2^Hgt(h, Root(t)) <= Size(w) + 1 /\ 2^Hgt(h, node) <= Size(w) + 1
  <2>1. None \notin Members(w)
    BY <1>1, ShapeTypes, Apart
  <2>2. Intact(w, None, Root(t)) /\ Intact(w, None, node)
    BY <2>1 DEF Intact
  <2> QED BY <1>1, <1>3, <1>7, <2>2, HeightIsLow
<1>10. Short(r + 1, Size(v))
  BY <1>3, <1>6, <1>8, <1>9, ShortIf
<1>11. Paid(t', Members(v), pc', node', temp', r + 1)
  <2>1. CASE Settled(t', node')
    BY <1>1, <2>1 DEF Paid
  <2>2. CASE Lifted(t, Members(w), t', Members(w), node, node', 1)
    <3>1. PICK h1 : /\ Balanced(t', Members(v), h1, "left", None)
                    /\ Hgt(h1, Root(t')) = Hgt(h, Root(t)) /\ Hgt(h1, node') = Hgt(h, node) + 1
      BY <1>3, <1>5, <2>2 DEF Lifted
    <3>2. r + 1 <= 2 * Hgt(h1, Root(t')) + Hgt(h1, node')
      BY <1>3, <1>8, <3>1
    <3>3. pc' # "descend" /\ pc' # "delete_fix"
      BY <1>1
    <3> QED BY <3>1, <3>2, <3>3 DEF Paid
  <2> QED BY <1>4, <2>1, <2>2
<1> QED BY <1>10, <1>11

\* The loop of rbtree_delete goes up one black height, or has ended.
LEMMA DeleteFixRounds ==
    ASSUME NEW w, Fits(t, pc, node, temp, w), NEW v, Fits(t', pc', node', temp', v), DeleteFix,
           NEW r \in Nat, Paid(t, Members(w), pc, node, temp, r)
    PROVE  Short(r + 1, Size(v)) /\ Paid(t', Members(v), pc', node', temp', r + 1)
<1> DEFINE M == Members(w)
           d == SideOf(t, temp)
           p == Par(t, temp)
           s == Kid(t, Other(d), p)
<1>1. /\ Shape(t, w) /\ Shrinking(t, w, temp) /\ pc = "delete_fix" /\ pc' = "delete_fix" /\ Shape(t', v)
  BY DEF DeleteFix, Fits
<1>2. temp # Root(t) /\ temp \notin Reds(t) /\ temp \in Places
  BY <1>1, TreeTypes DEF DeleteFix, DeleteUnbalanced, Root, Shape, Shrinking, Reds
<1>3. Hole(t, w, d, p, temp)
  BY <1>1, <1>2, ShrinkingHole
<1>4. PICK h : Balanced(t, M, h, d, p) /\ r <= Hgt(h, temp)
  BY <1>1, <1>2 DEF Paid
<1>5. (\E u : Shape(t', u) /\ Same(w, u) /\ Shrinking(t', u, temp')) /\ Raised(t, M, d, temp, t', temp')
  BY <1>1, DeleteFixStep
<1>6. Members(v) = M
  <2>1. PICK u : Shape(t', u) /\ Same(w, u)
    BY <1>5
  <2> QED BY <1>1, <2>1, LinkedIs DEF Same
<1>7. Size(v) = Size(w) /\ Size(w) \in Nat
  BY <1>1, <1>6, SizeIs
<1>8. d \in Sides /\ p \in M /\ Kid(t, d, p) = temp
  BY <1>3 DEF Hole
<1> HIDE DEF d, p
<1>9. s \in M
  BY <1>1, <1>3, HoleIs
<1>10. Hgt(h, temp) \in Nat /\ Hgt(h, s) = Hgt(h, temp) + 1
  <2>1. /\ Hgt(h, p) = Hgt(h, temp) + (IF p \in Reds(t) THEN 0 ELSE 1) + 1
        /\ Hgt(h, p) = Hgt(h, s) + (IF p \in Reds(t) THEN 0 ELSE 1) + 0
        /\ Hgt(h, temp) \in Nat /\ Hgt(h, s) \in Nat
    BY <1>1, <1>4, <1>8, HeightFacts, Mirror
  <2> QED BY <2>1
<1>11. Intact(w, p, s)
  <2>1. Bnd(w, Other(Other(d)), s) = Pos(w, p)
    BY <1>1, <1>8, <1>9, KidOrNot, Mirror, ShapeTypes
  <2>2. Bnd(w, "left", s) = Pos(w, p) \/ Bnd(w, "right", s) = Pos(w, p)
    BY <1>8, <2>1, Mirror, LeftRight
  <2>3. Pos(w, p) \in Int
    BY <1>1, <1>8, ShapeTypes
  <2> QED BY <2>2, <2>3 DEF Intact
<1>12. 2^Hgt(h, s) <= Size(w) + 1
  BY <1>1, <1>4, <1>9, <1>11, HeightIsLow
<1>13. Short(r + 1, Size(v))
  <2>1. 0 \in Nat /\ Hgt(h, s) \in Nat /\ r <= 2 * 0 + Hgt(h, s) /\ 2^0 <= Size(w) + 1
    BY <1>4, <1>7, <1>10, PowerOne
  <2> QED BY <1>7, <1>12, <2>1, ShortIf
<1>14. Paid(t', Members(v), pc', node', temp', r + 1)
  <2>1. pc' # "descend" /\ pc' # "insert_fix"
    BY <1>1
  <2>2. CASE temp' = Root(t') \/ temp' \in Reds(t')
    BY <2>1, <2>2 DEF Paid
  <2>3. CASE ~(temp' = Root(t') \/ temp' \in Reds(t'))
    <3>1. PICK h1 : /\ Balanced(t', M, h1, SideOf(t', temp'), Par(t', temp'))
                    /\ Hgt(h1, temp') = Hgt(h, temp) + 1
      BY <1>4, <1>5, <2>3 DEF Raised, p
    <3>2. r + 1 <= Hgt(h1, temp')
      BY <1>4, <1>10, <3>1
    <3> QED BY <1>6, <2>1, <3>1, <3>2 DEF Paid
  <2> QED BY <2>2, <2>3
<1> QED BY <1>13, <1>14

\* Every step keeps the loops short.
LEMMA RoundsStep ==
    ASSUME TreeInv(FALSE), TreeInv(FALSE)', RoundsInv, [Next]_vars
    PROVE  RoundsInv'
<1>1. PICK w : Fits(t, pc, node, temp, w)
  BY DEF TreeInv
<1>2. PICK v : Fits(t', pc', node', temp', v)
  BY DEF TreeInv
<1>3. rounds \in Nat /\ Linked = Members(w) /\ Linked' = Members(v) /\ Shape(t', v)
  BY <1>1, <1>2, LinkedNext DEF TreeInv, TypeOK, Fits
<1>4. Cardinality(Linked') = Size(v)
  BY <1>3, SizeIs
<1>5. Paid(t, Members(w), pc, node, temp, rounds)
  BY <1>3 DEF RoundsInv
<1>6. ASSUME Short(rounds', Size(v)), Paid(t', Members(v), pc', node', temp', rounds') PROVE RoundsInv'
  <2>1. LoopsAreShort'
    BY <1>4, <1>6 DEF LoopsAreShort, Short
  <2>2. Paid(t, Linked, pc, node, temp, rounds)'
    BY <1>3, <1>6
  <2> QED BY <2>1, <2>2 DEF RoundsInv
<1>7. CASE (Call \/ InsertDone \/ DeleteDone) /\ rounds' = 0
  <2>1. work.inserted \subseteq Nodes
    BY TreeAssumption DEF TreeInv, TypeOK
  <2>2. (\E n, k : n \in Nodes /\ (InsertFirst(n, k) \/ Insert(n, k))) \/ (\E n : Delete(n)) \/ InsertDone \/ DeleteDone
    BY <1>7, <2>1 DEF Call
  <2>3. Short(0, Size(v)) /\ Paid(t', Members(v), pc', node', temp', 0)
    BY <1>1, <1>2, <2>2, CallRounds
  <2> QED BY <1>6, <1>7, <2>3
<1>8. CASE Round /\ rounds' = rounds + 1
  <2>1. Short(rounds + 1, Size(v)) /\ Paid(t', Members(v), pc', node', temp', rounds + 1)
    BY <1>1, <1>2, <1>3, <1>5, <1>8, DescendRounds, InsertFixRounds, DeleteFixRounds DEF Round
  <2> QED BY <1>6, <1>8, <2>1
<1>9. CASE UNCHANGED vars
  <2>1. t' = t /\ pc' = pc /\ node' = node /\ temp' = temp /\ rounds' = rounds
    BY <1>9 DEF vars
  <2>2. Linked' = Linked
    BY <2>1, LinkedIs
  <2> QED BY <2>1, <2>2 DEF RoundsInv, LoopsAreShort
<1> QED BY <1>7, <1>8, <1>9 DEF Next

\* Every insert and every delete makes at most 3 log2(n + 1) + 1 iterations.
THEOREM TreeLoopsAreShort == Spec => []LoopsAreShort
<1>1. Init => RoundsInv
  <2> SUFFICES ASSUME Init PROVE RoundsInv
    OBVIOUS
  <2>1. PICK w : Shape(t, w) /\ Members(w) = {}
    BY EmptyShape DEF Init
  <2>2. Linked = {}
    BY <2>1, LinkedIs
  <2>3. Cardinality(Linked) = 0
    BY <2>2, FS_EmptySet
  <2>4. LoopsAreShort
    <3>1. rounds = 0
      BY DEF Init
    <3> QED BY <2>3, <3>1, PowerOne DEF LoopsAreShort
  <2>5. Paid(t, Linked, pc, node, temp, rounds)
    BY DEF Init, Paid
  <2> QED BY <2>4, <2>5 DEF RoundsInv
<1>2. TreeInv(FALSE) /\ TreeInv(FALSE)' /\ RoundsInv /\ [Next]_vars => RoundsInv'
  BY RoundsStep
<1>3. RoundsInv => LoopsAreShort
  BY DEF RoundsInv
<1> QED BY <1>1, <1>2, <1>3, TreeInvariant, PTL DEF Spec
==============================================================================
