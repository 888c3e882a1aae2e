----------------------------- MODULE RBTreeShape -----------------------------
(***************************************************************************)
(* Lemmas about the red-black tree, for any set of nodes: what its         *)
(* statements change, what shape its links have, and what a rotation, an   *)
(* insert and a deletion do to the shape, the black heights and the        *)
(* colours.                                                                *)
(*                                                                         *)
(* Induction over trees is out of the provers' reach.  So the shape is     *)
(* stated without it: a layout gives every linked node its position in the *)
(* order, and the two positions between which its subtree lies, and every  *)
(* child link must span the positions on its side of the node.  A rotation *)
(* moves two of these bounds and nothing else.  What the recursive         *)
(* functions compute follows by taking a least counterexample.             *)
(***************************************************************************)
EXTENDS RBTree, MsecProofs, SequenceTheorems

-----------------------------------------------------------------------------
(* The memory of the tree. *)

\* The records that are trees, and their parts.
Trees ==
    [root   : Places,
     kid    : [Sides -> [Places -> Places \cup {None}]],
     parent : [Places -> Places \cup {None}],
     red    : [Places -> BOOLEAN]]

Root(x)      == x.root
Kid(x, d, n) == x.kid[d][n]
Par(x, n)    == x.parent[n]
Reds(x)      == {n \in Places : x.red[n]}

\* The two sides.
LEMMA Mirror ==
    \A d \in Sides : /\ Other(d) \in Sides /\ Other(d) # d /\ Other(Other(d)) = d
                     /\ \A e \in Sides : e = d \/ e = Other(d)
BY DEF Sides, Other

\* The parts of a tree are in their sets.
LEMMA TreeTypes ==
    /\ \A x : x \in Trees => Root(x) \in Places
    /\ \A x, d, n : x \in Trees /\ d \in Sides /\ n \in Places => Kid(x, d, n) \in Places \cup {None}
    /\ \A x, n : x \in Trees /\ n \in Places => Par(x, n) \in Places \cup {None}
    /\ \A x, n : x \in Trees /\ n \in Places => (x.red[n] <=> n \in Reds(x))
BY DEF Trees, Root, Kid, Par, Reds

\* What the statements that write into the tree change, and what they leave:
\* a child link,
LEMMA SetKidEffect ==
    /\ \A x, d, n, c : x \in Trees /\ d \in Sides /\ n \in Places /\ c \in Places \cup {None} =>
          /\ SetKid(x, d, n, c) \in Trees
          /\ Root(SetKid(x, d, n, c)) = Root(x)
          /\ Reds(SetKid(x, d, n, c)) = Reds(x)
    /\ \A x, d, n, c, m : x \in Trees /\ d \in Sides /\ n \in Places /\ m \in Places =>
          Par(SetKid(x, d, n, c), m) = Par(x, m)
    /\ \A x, d, n, c, e, m : x \in Trees /\ d \in Sides /\ e \in Sides /\ n \in Places /\ m \in Places =>
          Kid(SetKid(x, d, n, c), e, m) = IF e = d /\ m = n THEN c ELSE Kid(x, e, m)
<1>1. \A x, d, n, c : x \in Trees /\ d \in Sides /\ n \in Places /\ c \in Places \cup {None} =>
         SetKid(x, d, n, c) \in Trees
  BY DEF Trees, SetKid
<1>2. \A x, d, n, c : x \in Trees => Root(SetKid(x, d, n, c)) = Root(x)
  BY DEF Trees, SetKid, Root
<1>3. \A x, d, n, c, m : x \in Trees => Par(SetKid(x, d, n, c), m) = Par(x, m)
  BY DEF Trees, SetKid, Par
<1>4. \A x, d, n, c : x \in Trees => Reds(SetKid(x, d, n, c)) = Reds(x)
  BY DEF Trees, SetKid, Reds
<1>5. \A x, d, n, c, e, m : x \in Trees /\ d \in Sides /\ e \in Sides /\ n \in Places /\ m \in Places =>
         Kid(SetKid(x, d, n, c), e, m) = IF e = d /\ m = n THEN c ELSE Kid(x, e, m)
  BY DEF Trees, SetKid, Kid
<1> QED BY <1>1, <1>2, <1>3, <1>4, <1>5

\* a parent link,
LEMMA SetParentEffect ==
    /\ \A x, n, p : x \in Trees /\ n \in Places /\ p \in Places \cup {None} =>
          /\ SetParent(x, n, p) \in Trees
          /\ Root(SetParent(x, n, p)) = Root(x)
          /\ Reds(SetParent(x, n, p)) = Reds(x)
    /\ \A x, n, p, m : x \in Trees /\ n \in Places /\ m \in Places =>
          Par(SetParent(x, n, p), m) = IF m = n THEN p ELSE Par(x, m)
    /\ \A x, n, p, e, m : x \in Trees => Kid(SetParent(x, n, p), e, m) = Kid(x, e, m)
BY DEF Trees, SetParent, Root, Kid, Par, Reds

\* the root,
LEMMA SetRootEffect ==
    /\ \A x, n : x \in Trees /\ n \in Places =>
          /\ SetRoot(x, n) \in Trees
          /\ Root(SetRoot(x, n)) = n
          /\ Reds(SetRoot(x, n)) = Reds(x)
    /\ \A x, n, m : x \in Trees => Par(SetRoot(x, n), m) = Par(x, m)
    /\ \A x, n, e, m : x \in Trees => Kid(SetRoot(x, n), e, m) = Kid(x, e, m)
BY DEF Trees, SetRoot, Root, Kid, Par, Reds

\* a colour,
LEMMA SetRedEffect ==
    /\ \A x, n, r : x \in Trees /\ n \in Places /\ r \in BOOLEAN =>
          /\ SetRed(x, n, r) \in Trees
          /\ Root(SetRed(x, n, r)) = Root(x)
          /\ Reds(SetRed(x, n, r)) = IF r THEN Reds(x) \cup {n} ELSE Reds(x) \ {n}
    /\ \A x, n, r, m : x \in Trees => Par(SetRed(x, n, r), m) = Par(x, m)
    /\ \A x, n, r, e, m : x \in Trees => Kid(SetRed(x, n, r), e, m) = Kid(x, e, m)
<1>1. \A x, n, r : x \in Trees /\ n \in Places /\ r \in BOOLEAN =>
          /\ SetRed(x, n, r) \in Trees
          /\ Root(SetRed(x, n, r)) = Root(x)
  BY DEF Trees, SetRed, Root
<1>2. \A x, n, r : x \in Trees /\ n \in Places /\ r \in BOOLEAN =>
          Reds(SetRed(x, n, r)) = IF r THEN Reds(x) \cup {n} ELSE Reds(x) \ {n}
  <2> SUFFICES ASSUME NEW x \in Trees, NEW n \in Places, NEW r \in BOOLEAN
               PROVE  Reds(SetRed(x, n, r)) = IF r THEN Reds(x) \cup {n} ELSE Reds(x) \ {n}
    OBVIOUS
  <2>1. \A m \in Places : SetRed(x, n, r).red[m] <=> IF m = n THEN r ELSE x.red[m]
    BY DEF Trees, SetRed
  <2> QED BY <2>1 DEF Reds
<1>3. \A x, n, r, m : x \in Trees => Par(SetRed(x, n, r), m) = Par(x, m)
  BY DEF Trees, SetRed, Par
<1>4. \A x, n, r, e, m : x \in Trees => Kid(SetRed(x, n, r), e, m) = Kid(x, e, m)
  BY DEF Trees, SetRed, Kid
<1> QED BY <1>1, <1>2, <1>3, <1>4

\* the two colours,
LEMMA ColourEffect ==
    /\ \A x, n : x \in Trees /\ n \in Places =>
          /\ Black(x, n) \in Trees
          /\ Root(Black(x, n)) = Root(x)
          /\ Reds(Black(x, n)) = Reds(x) \ {n}
    /\ \A x, n : x \in Trees /\ n \in Places =>
          /\ Red(x, n) \in Trees
          /\ Root(Red(x, n)) = Root(x)
          /\ Reds(Red(x, n)) = Reds(x) \cup {n}
    /\ \A x, n, m : x \in Trees => Par(Black(x, n), m) = Par(x, m)
    /\ \A x, n, m : x \in Trees => Par(Red(x, n), m) = Par(x, m)
    /\ \A x, n, e, m : x \in Trees => Kid(Black(x, n), e, m) = Kid(x, e, m)
    /\ \A x, n, e, m : x \in Trees => Kid(Red(x, n), e, m) = Kid(x, e, m)
<1>1. \A x, n : x \in Trees /\ n \in Places =>
          /\ SetRed(x, n, FALSE) \in Trees /\ SetRed(x, n, TRUE) \in Trees
          /\ Root(SetRed(x, n, FALSE)) = Root(x) /\ Root(SetRed(x, n, TRUE)) = Root(x)
          /\ Reds(SetRed(x, n, FALSE)) = Reds(x) \ {n}
          /\ Reds(SetRed(x, n, TRUE)) = Reds(x) \cup {n}
  <2>1. TRUE \in BOOLEAN /\ FALSE \in BOOLEAN
    OBVIOUS
  <2> QED BY <2>1, SetRedEffect
<1>2. \A x, n, m : x \in Trees => Par(SetRed(x, n, FALSE), m) = Par(x, m) /\ Par(SetRed(x, n, TRUE), m) = Par(x, m)
  BY DEF Trees, SetRed, Par
<1>3. \A x, n, e, m : x \in Trees => Kid(SetRed(x, n, FALSE), e, m) = Kid(x, e, m)
                                    /\ Kid(SetRed(x, n, TRUE), e, m) = Kid(x, e, m)
  BY DEF Trees, SetRed, Kid
<1>4. \A x, n : x \in Trees /\ n \in Places =>
          /\ Black(x, n) \in Trees /\ Red(x, n) \in Trees
          /\ Root(Black(x, n)) = Root(x) /\ Root(Red(x, n)) = Root(x)
          /\ Reds(Black(x, n)) = Reds(x) \ {n}
          /\ Reds(Red(x, n)) = Reds(x) \cup {n}
  BY <1>1 DEF Black, Red
<1>5. \A x, n, m : x \in Trees => Par(Black(x, n), m) = Par(x, m) /\ Par(Red(x, n), m) = Par(x, m)
  BY <1>2 DEF Black, Red
<1>6. \A x, n, e, m : x \in Trees => Kid(Black(x, n), e, m) = Kid(x, e, m) /\ Kid(Red(x, n), e, m) = Kid(x, e, m)
  BY <1>3 DEF Black, Red
<1> QED BY <1>4, <1>5, <1>6

\* the parent of a node that may be the sentinel,
LEMMA AdoptEffect ==
    /\ \A x, n, p : x \in Trees /\ n \in Places /\ p \in Places =>
          /\ Adopt(x, n, p) \in Trees
          /\ Root(Adopt(x, n, p)) = Root(x)
          /\ Reds(Adopt(x, n, p)) = Reds(x)
    /\ \A x, n, p, m : x \in Trees /\ n \in Places /\ m \in Places =>
          Par(Adopt(x, n, p), m) = IF m = n /\ m # Sentinel THEN p ELSE Par(x, m)
    /\ \A x, n, p, e, m : x \in Trees => Kid(Adopt(x, n, p), e, m) = Kid(x, e, m)
BY SetParentEffect DEF Adopt

\* both child links,
LEMMA SetKidsEffect ==
    /\ \A x, n, b, c : x \in Trees /\ n \in Places /\ b \in Places \cup {None} /\ c \in Places \cup {None} =>
          /\ SetKids(x, n, b, c) \in Trees
          /\ Root(SetKids(x, n, b, c)) = Root(x)
          /\ Reds(SetKids(x, n, b, c)) = Reds(x)
    /\ \A x, n, b, c, m : x \in Trees /\ n \in Places /\ b \in Places \cup {None} /\ m \in Places =>
          Par(SetKids(x, n, b, c), m) = Par(x, m)
    /\ \A x, n, b, c, e, m : x \in Trees /\ n \in Places /\ b \in Places \cup {None} /\ e \in Sides /\ m \in Places =>
          Kid(SetKids(x, n, b, c), e, m) = IF m = n THEN IF e = "left" THEN b ELSE c ELSE Kid(x, e, m)
<1>1. "left" \in Sides /\ "right" \in Sides /\ "left" # "right"
      /\ \A e : e \in Sides => e = "left" \/ e = "right"
  BY DEF Sides
<1> QED BY <1>1, SetKidEffect DEF SetKids

\* and the place where a node hangs.
LEMMA ReplaceEffect ==
    /\ \A x, n, m : x \in Trees /\ m \in Places /\ (n = Root(x) \/ Par(x, n) \in Places) =>
          /\ Replace(x, n, m) \in Trees
          /\ Root(Replace(x, n, m)) = IF n = Root(x) THEN m ELSE Root(x)
          /\ Reds(Replace(x, n, m)) = Reds(x)
    /\ \A x, n, m, l : x \in Trees /\ l \in Places /\ (n = Root(x) \/ Par(x, n) \in Places) =>
          Par(Replace(x, n, m), l) = Par(x, l)
    /\ \A x, n, m, e, l : x \in Trees /\ e \in Sides /\ l \in Places /\ (n = Root(x) \/ Par(x, n) \in Places) =>
          Kid(Replace(x, n, m), e, l) =
             IF n # Root(x) /\ e = SideOf(x, n) /\ l = Par(x, n) THEN m ELSE Kid(x, e, l)
<1>1. \A x, n : SideOf(x, n) \in Sides
  BY DEF SideOf, Sides
<1>2. \A x, n, m : Replace(x, n, m) = IF n = Root(x) THEN SetRoot(x, m) ELSE SetKid(x, SideOf(x, n), Par(x, n), m)
  BY DEF Replace, Root, Par
<1>3. \A x, n, m : n = Root(x) => Replace(x, n, m) = SetRoot(x, m)
  BY <1>2
<1>4. \A x, n, m : n # Root(x) => Replace(x, n, m) = SetKid(x, SideOf(x, n), Par(x, n), m)
  BY <1>2
<1> QED BY <1>1, <1>3, <1>4, SetRootEffect, SetKidEffect

\* The side on which a node hangs, by its parent's left link.
LEMMA SideIs == \A x, n : SideOf(x, n) = IF Kid(x, "left", Par(x, n)) = n THEN "left" ELSE "right"
BY DEF SideOf, Kid, Par

\* y is x after the rotation at n to side d, which moves up to the place of n
\* and inner, the child of up, to n.
Rotated(x, y, n, d, up, inner) ==
    /\ y \in Trees
    /\ Root(y) = IF n = Root(x) THEN up ELSE Root(x)
    /\ \A m \in Places, e \in Sides :
          Kid(y, e, m) = IF m = n /\ e = Other(d) THEN inner
                         ELSE IF m = up /\ e = d THEN n
                         ELSE IF n # Root(x) /\ m = Par(x, n) /\ e = SideOf(x, n) THEN up
                         ELSE Kid(x, e, m)
    /\ \A m \in Places :
          Par(y, m) = IF m = n THEN up
                      ELSE IF m = up THEN Par(x, n)
                      ELSE IF m = inner /\ m # Sentinel THEN n
                      ELSE Par(x, m)
    /\ Reds(y) = Reds(x)

\* A rotation changes three child links and three parent links.
LEMMA RotateEffect ==
    ASSUME NEW x \in Trees, NEW n \in Nodes, NEW d \in Sides,
           NEW up \in Nodes \ {n}, up = Kid(x, Other(d), n),
           NEW inner \in Places \ {n, up}, inner = Kid(x, d, up),
           n = Root(x) \/ Par(x, n) \in Places \ {n, up}
    PROVE  Rotated(x, Rotate(x, n, d), n, d, up, inner)
<1> DEFINE o  == Other(d)
           p  == Par(x, n)
           x0 == SetKid(x, o, n, inner)
           x1 == Adopt(x0, inner, n)
           x2 == SetParent(x1, up, p)
           x3 == Replace(x2, n, up)
           x4 == SetKid(x3, d, up, n)
           x5 == SetParent(x4, n, up)
<1>1. Rotate(x, n, d) = x5
  BY DEF Rotate, Kid, Par
<1>2. /\ n \in Places /\ up \in Places /\ inner \in Places
      /\ o \in Sides /\ o # d /\ \A e \in Sides : e = d \/ e = o
      /\ p \in Places \cup {None}
  BY Mirror, TreeTypes DEF Places
<1> HIDE DEF o, p
<1>3. /\ x0 \in Trees /\ Root(x0) = Root(x) /\ Reds(x0) = Reds(x)
      /\ \A m \in Places : Par(x0, m) = Par(x, m)
      /\ \A e \in Sides, m \in Places :
            Kid(x0, e, m) = IF e = o /\ m = n THEN inner ELSE Kid(x, e, m)
  BY <1>2, SetKidEffect
<1> HIDE DEF x0
<1>4. /\ x1 \in Trees /\ Root(x1) = Root(x) /\ Reds(x1) = Reds(x)
      /\ \A m \in Places : Par(x1, m) = IF m = inner /\ m # Sentinel THEN n ELSE Par(x, m)
      /\ \A e \in Sides, m \in Places : Kid(x1, e, m) = Kid(x0, e, m)
  BY <1>2, <1>3, AdoptEffect
<1> HIDE DEF x1
<1>5. /\ x2 \in Trees /\ Root(x2) = Root(x) /\ Reds(x2) = Reds(x)
      /\ \A m \in Places : Par(x2, m) = IF m = up THEN p ELSE Par(x1, m)
      /\ \A e \in Sides, m \in Places : Kid(x2, e, m) = Kid(x0, e, m)
  BY <1>2, <1>4, SetParentEffect
<1> HIDE DEF x2
<1>6. Par(x2, n) = Par(x, n)
  BY <1>2, <1>4, <1>5
<1>7. n # Root(x) => SideOf(x2, n) = SideOf(x, n)
  <2>1. "left" \in Sides
    BY DEF Sides
  <2>2. p \in Places \ {n} => Kid(x2, "left", p) = Kid(x, "left", p)
    BY <1>3, <1>5, <2>1
  <2> QED BY <1>6, <2>2, SideIs DEF p
<1>8. /\ x3 \in Trees /\ Reds(x3) = Reds(x)
      /\ Root(x3) = IF n = Root(x) THEN up ELSE Root(x)
      /\ \A m \in Places : Par(x3, m) = Par(x2, m)
      /\ \A e \in Sides, m \in Places :
            Kid(x3, e, m) = IF n # Root(x) /\ e = SideOf(x, n) /\ m = p
                            THEN up ELSE Kid(x2, e, m)
  BY <1>2, <1>5, <1>6, <1>7, ReplaceEffect DEF p
<1> HIDE DEF x3
<1>9. /\ x4 \in Trees /\ Root(x4) = Root(x3) /\ Reds(x4) = Reds(x)
      /\ \A m \in Places : Par(x4, m) = Par(x3, m)
      /\ \A e \in Sides, m \in Places :
            Kid(x4, e, m) = IF e = d /\ m = up THEN n ELSE Kid(x3, e, m)
  BY <1>2, <1>8, SetKidEffect
<1> HIDE DEF x4
<1>10. /\ x5 \in Trees /\ Root(x5) = Root(x3) /\ Reds(x5) = Reds(x)
       /\ \A m \in Places : Par(x5, m) = IF m = n THEN up ELSE Par(x3, m)
       /\ \A e \in Sides, m \in Places : Kid(x5, e, m) = Kid(x4, e, m)
  BY <1>2, <1>9, SetParentEffect
<1> HIDE DEF x5
<1>11. \A m \in Places :
          Par(x5, m) = IF m = n THEN up
                       ELSE IF m = up THEN Par(x, n)
                       ELSE IF m = inner /\ m # Sentinel THEN n
                       ELSE Par(x, m)
  BY <1>4, <1>5, <1>8, <1>10 DEF p
<1>12. \A m \in Places, e \in Sides :
          Kid(x5, e, m) = IF m = n /\ e = Other(d) THEN inner
                          ELSE IF m = up /\ e = d THEN n
                          ELSE IF n # Root(x) /\ m = Par(x, n) /\ e = SideOf(x, n) THEN up
                          ELSE Kid(x, e, m)
  BY <1>2, <1>3, <1>5, <1>8, <1>9, <1>10 DEF p, o
<1> QED BY <1>1, <1>8, <1>10, <1>11, <1>12 DEF Rotated
-----------------------------------------------------------------------------
(* The shape. *)

\* What the shape of a tree is described by: the nodes that are linked, the
\* position of each in their order, and the positions its subtree is between.
Layouts ==
    [members : SUBSET Nodes,
     size    : Nat,
     pos     : [Nodes -> Int],
     bound   : [Sides -> [Nodes -> Int]]]

Members(w)   == w.members
Size(w)      == w.size
Pos(w, n)    == w.pos[n]
Bnd(w, d, n) == w.bound[d][n]

\* The parts of a layout are in their sets.
LEMMA LayoutTypes ==
    /\ \A w : w \in Layouts => Members(w) \subseteq Nodes /\ Size(w) \in Nat
    /\ \A w, n : w \in Layouts /\ n \in Nodes => Pos(w, n) \in Int
    /\ \A w, d, n : w \in Layouts /\ d \in Sides /\ n \in Nodes => Bnd(w, d, n) \in Int
BY DEF Layouts, Members, Size, Pos, Bnd

\* The nodes of w are numbered from 1 to Size(w), and each is inside its bounds.
Numbered(w) ==
    /\ w \in Layouts
    /\ \A n : n \in Members(w) =>
          /\ 0 <= Bnd(w, "left", n) /\ Bnd(w, "left", n) < Pos(w, n)
          /\ Pos(w, n) < Bnd(w, "right", n) /\ Bnd(w, "right", n) <= Size(w) + 1
    /\ \A m, n : m \in Members(w) /\ n \in Members(w) /\ Pos(w, m) = Pos(w, n) => m = n
    /\ \A i : i \in 1 .. Size(w) => \E n : n \in Members(w) /\ Pos(w, n) = i

\* The nodes between the bounds of k are all before m, or all after it, and
\* all between the bounds of m.
Below(w, k, m) ==
    \/ Bnd(w, "left", m) <= Bnd(w, "left", k) /\ Bnd(w, "right", k) <= Pos(w, m)
    \/ Pos(w, m) <= Bnd(w, "left", k) /\ Bnd(w, "right", k) <= Bnd(w, "right", m)

\* Of two nodes one is below the other, or nothing is below both.
Nested(w) ==
    \A m, n : m \in Members(w) /\ n \in Members(w) =>
        \/ m = n \/ Below(w, m, n) \/ Below(w, n, m)
        \/ Bnd(w, "right", m) <= Bnd(w, "left", n) \/ Bnd(w, "right", n) <= Bnd(w, "left", m)

\* c is the subtree of the nodes between positions a and b, a being on side d.
Spans(w, c, d, a, b) ==
    IF a = b + 1 \/ b = a + 1 THEN c = Sentinel
    ELSE c \in Members(w) /\ Bnd(w, d, c) = a /\ Bnd(w, Other(d), c) = b

\* A subtree spans the same positions from either side.
LEMMA SpansSwap == \A w, c, d, a, b : d \in Sides /\ Spans(w, c, d, a, b) => Spans(w, c, Other(d), b, a)
BY Mirror DEF Spans

\* The links of x are those of the subtrees of w.
Spanned(x, w) ==
    /\ Spans(w, Root(x), "left", 0, Size(w) + 1)
    /\ \A d, n : d \in Sides /\ n \in Members(w) =>
                     Spans(w, Kid(x, d, n), d, Bnd(w, d, n), Pos(w, n))

\* Nodes that are not linked, and the sentinel, have no links.
Detached(x, w) == \A d, n : d \in Sides /\ n \in Places \ Members(w) => Kid(x, d, n) = None

\* The parent links agree with the child links.
Parented(x, w) ==
    /\ \A d, n : d \in Sides /\ n \in Members(w) /\ Kid(x, d, n) # Sentinel => Par(x, Kid(x, d, n)) = n
    /\ \A n : n \in Members(w) /\ n # Root(x) =>
                  Par(x, n) \in Members(w) /\ \E d : d \in Sides /\ Kid(x, d, Par(x, n)) = n

\* The nodes of w are linked in x as w says.
Shape(x, w) ==
    x \in Trees /\ Numbered(w) /\ Nested(w) /\ Spanned(x, w) /\ Detached(x, w) /\ Parented(x, w)

\* The sentinel and NULL are no nodes.
LEMMA Apart == /\ Sentinel \notin Nodes /\ None \notin Nodes /\ None # Sentinel
               /\ Places = Nodes \cup {Sentinel} /\ \A n : n \in Nodes => n \in Places
BY TreeAssumption DEF Places

\* The sides by name.
LEMMA LeftRight == /\ "left" \in Sides /\ "right" \in Sides /\ "left" # "right"
                   /\ Other("left") = "right" /\ Other("right") = "left"
                   /\ \A d : d \in Sides => d = "left" \/ d = "right"
BY DEF Sides, Other

\* What is known of a child.
LEMMA KidIs ==
    ASSUME NEW x, NEW w, Shape(x, w), NEW d \in Sides, NEW n \in Members(w),
           NEW c, c = Kid(x, d, n), c # Sentinel
    PROVE  /\ c \in Members(w) /\ c # n /\ c # Root(x) /\ Par(x, c) = n
           /\ Bnd(w, d, c) = Bnd(w, d, n) /\ Bnd(w, Other(d), c) = Pos(w, n)
           /\ \A e, m : e \in Sides /\ m \in Members(w) /\ Kid(x, e, m) = c => e = d /\ m = n
           /\ SideOf(x, c) = d
<1>1. /\ w \in Layouts /\ Members(w) \subseteq Nodes /\ Size(w) \in Nat
      /\ \A m : m \in Members(w) => Pos(w, m) \in Int
      /\ \A m, e : m \in Members(w) /\ e \in Sides => Bnd(w, e, m) \in Int
  BY LayoutTypes DEF Shape, Numbered
<1>2. c \in Members(w) /\ Bnd(w, d, c) = Bnd(w, d, n) /\ Bnd(w, Other(d), c) = Pos(w, n)
  BY DEF Shape, Spanned, Spans
<1>3. Par(x, c) = n
  BY DEF Shape, Parented
<1>4. c # n
  BY <1>1, <1>2, LeftRight DEF Shape, Numbered
<1>5. c # Root(x)
  <2>1. c = Root(x) => Bnd(w, "left", c) = 0 /\ Bnd(w, "right", c) = Size(w) + 1
    BY <1>1, LeftRight DEF Shape, Spanned, Spans
  <2> QED BY <1>1, <1>2, <2>1, LeftRight DEF Shape, Numbered
<1>6. \A e, m : e \in Sides /\ m \in Members(w) /\ Kid(x, e, m) = c => m = n
  BY <1>3 DEF Shape, Parented
<1>7. \A e : e \in Sides /\ Kid(x, e, n) = c => e = d
  <2>1. \A e : e \in Sides /\ Kid(x, e, n) = c => Bnd(w, e, c) = Bnd(w, e, n) /\ Bnd(w, Other(e), c) = Pos(w, n)
    BY DEF Shape, Spanned, Spans
  <2> QED BY <1>1, <1>2, <2>1, LeftRight DEF Shape, Numbered
<1>8. SideOf(x, c) = d
  BY <1>3, <1>7, SideIs, LeftRight
<1> QED BY <1>2, <1>3, <1>4, <1>5, <1>6, <1>7, <1>8

\* What is known of a node that is not the root.
LEMMA ParentIs ==
    ASSUME NEW x, NEW w, Shape(x, w), NEW n \in Members(w), n # Root(x)
    PROVE  /\ Par(x, n) \in Members(w) /\ Par(x, n) # n /\ SideOf(x, n) \in Sides
           /\ Kid(x, SideOf(x, n), Par(x, n)) = n
           /\ \A e, m : e \in Sides /\ m \in Members(w) /\ Kid(x, e, m) = n
                             => e = SideOf(x, n) /\ m = Par(x, n)
<1>1. PICK d \in Sides : Par(x, n) \in Members(w) /\ Kid(x, d, Par(x, n)) = n
  BY DEF Shape, Parented
<1>2. n # Sentinel
  BY Apart, LayoutTypes DEF Shape, Numbered
<1> QED BY <1>1, <1>2, KidIs
\* The numbering of s nodes m.
\* A layout, from its parts.
Layout(m, s, p, b) == [members |-> m, size |-> s, pos |-> p, bound |-> b]

\* The parts of a layout that is built from them.
LEMMA LayoutIs ==
    /\ \A m, s, p, b : m \in SUBSET Nodes /\ s \in Nat /\ p \in [Nodes -> Int] /\ b \in [Sides -> [Nodes -> Int]]
                         => Layout(m, s, p, b) \in Layouts
    /\ \A m, s, p, b : Members(Layout(m, s, p, b)) = m /\ Size(Layout(m, s, p, b)) = s
    /\ \A m, s, p, b, n : Pos(Layout(m, s, p, b), n) = p[n]
    /\ \A m, s, p, b, d, n : Bnd(Layout(m, s, p, b), d, n) = b[d][n]
BY DEF Layouts, Layout, Members, Size, Pos, Bnd

\* A rotation moves two bounds.
Turn(w, n, d, up) ==
    Layout(Members(w), Size(w), [m \in Nodes |-> Pos(w, m)],
           [e \in Sides |-> [m \in Nodes |-> IF m = up /\ e = d THEN Bnd(w, d, n)
                                             ELSE IF m = n /\ e = Other(d) THEN Pos(w, up)
                                             ELSE Bnd(w, e, m)]])

\* The parts of a layout after a rotation.
LEMMA TurnIs ==
    ASSUME NEW w \in Layouts, NEW n \in Nodes, NEW d \in Sides, NEW up \in Nodes
    PROVE  /\ Turn(w, n, d, up) \in Layouts
           /\ Members(Turn(w, n, d, up)) = Members(w) /\ Size(Turn(w, n, d, up)) = Size(w)
           /\ \A m : m \in Nodes => Pos(Turn(w, n, d, up), m) = Pos(w, m)
           /\ \A e, m : e \in Sides /\ m \in Nodes =>
                 Bnd(Turn(w, n, d, up), e, m) = IF m = up /\ e = d THEN Bnd(w, d, n)
                                                ELSE IF m = n /\ e = Other(d) THEN Pos(w, up)
                                                ELSE Bnd(w, e, m)
<1> DEFINE p == [m \in Nodes |-> Pos(w, m)]
           b == [e \in Sides |-> [m \in Nodes |->
                   IF m = up /\ e = d THEN Bnd(w, d, n)
                   ELSE IF m = n /\ e = Other(d) THEN Pos(w, up)
                   ELSE Bnd(w, e, m)]]
<1>1. p \in [Nodes -> Int] /\ b \in [Sides -> [Nodes -> Int]]
  BY LayoutTypes
<1>2. Members(w) \in SUBSET Nodes /\ Size(w) \in Nat
  BY LayoutTypes
<1>3. /\ \A m : m \in Nodes => p[m] = Pos(w, m)
      /\ \A e, m : e \in Sides /\ m \in Nodes =>
            b[e][m] = IF m = up /\ e = d THEN Bnd(w, d, n)
                      ELSE IF m = n /\ e = Other(d) THEN Pos(w, up)
                      ELSE Bnd(w, e, m)
  OBVIOUS
<1>4. Turn(w, n, d, up) = Layout(Members(w), Size(w), p, b)
  BY DEF Turn
<1> HIDE DEF p, b
<1> QED BY <1>1, <1>2, <1>3, <1>4, LayoutIs

\* A rotation keeps the shape, and the nodes in their order.
LEMMA RotateShape ==
    ASSUME NEW x, NEW w, Shape(x, w), NEW n \in Members(w), NEW d \in Sides,
           NEW up, up = Kid(x, Other(d), n), up # Sentinel, NEW y, y = Rotate(x, n, d)
    PROVE  /\ Reds(y) = Reds(x)
           /\ Root(y) = IF n = Root(x) THEN up ELSE Root(x)
           /\ \A e, m : e \in Sides /\ m \in Members(w) =>
                 Kid(y, e, m) = IF m = n /\ e = Other(d) THEN Kid(x, d, up)
                                ELSE IF m = up /\ e = d THEN n
                                ELSE IF Kid(x, e, m) = n THEN up
                                ELSE Kid(x, e, m)
           /\ Par(y, n) = up
           /\ Par(y, Sentinel) = Par(x, Sentinel)
           /\ \E v : /\ Shape(y, v)
                     /\ Members(v) = Members(w) /\ Size(v) = Size(w)
                     /\ \A m : m \in Nodes => Pos(v, m) = Pos(w, m)
<1> DEFINE o == Other(d)
           inner == Kid(x, d, up)
           M == Members(w)
<1>1. o = Other(d) /\ o \in Sides /\ o # d /\ Other(o) = d /\ \A e : e \in Sides => e = d \/ e = o
  BY Mirror
<1>2. /\ w \in Layouts /\ x \in Trees /\ M \subseteq Nodes /\ Size(w) \in Nat
      /\ \A m : m \in M => m \in Nodes /\ m \in Places /\ m # Sentinel
  BY LayoutTypes, Apart DEF Shape, Numbered
<1>3. /\ up \in M /\ up # n /\ up # Root(x) /\ Par(x, up) = n
      /\ Bnd(w, o, up) = Bnd(w, o, n) /\ Bnd(w, d, up) = Pos(w, n)
      /\ \A e, m : e \in Sides /\ m \in M /\ Kid(x, e, m) = up => e = o /\ m = n
  BY <1>1, KidIs
<1>4. inner \in Places /\ inner # n /\ inner # up
  <2>1. CASE inner = Sentinel
    BY <2>1, <1>2, <1>3, Apart
  <2>2. CASE inner # Sentinel
    <3>1. /\ inner \in M /\ inner # up
          /\ \A e, m : e \in Sides /\ m \in M /\ Kid(x, e, m) = inner => e = d /\ m = up
          /\ Bnd(w, d, inner) = Bnd(w, d, up) /\ Bnd(w, o, inner) = Pos(w, up)
      BY <2>2, <1>3, KidIs
    <3>2. inner # n
      BY <3>1, <1>1, <1>2, <1>3, LayoutTypes, LeftRight DEF Shape, Numbered
    <3> QED BY <3>1, <3>2, <1>2
  <2> QED BY <2>1, <2>2
<1>5. n = Root(x) \/ Par(x, n) \in Places \ {n, up}
  <2> SUFFICES ASSUME n # Root(x) PROVE Par(x, n) \in Places \ {n, up}
    OBVIOUS
  <2>1. Par(x, n) \in M /\ Par(x, n) # n /\ SideOf(x, n) \in Sides /\ Kid(x, SideOf(x, n), Par(x, n)) = n
    BY ParentIs
  <2>2. Par(x, n) # up
    <3>1. Par(x, n) = up => Bnd(w, SideOf(x, n), n) = Bnd(w, SideOf(x, n), up) /\ Bnd(w, Other(SideOf(x, n)), n) = Pos(w, up)
      BY <2>1, <1>2, KidIs
    <3> QED BY <3>1, <2>1, <1>1, <1>2, <1>3, LayoutTypes, LeftRight DEF Shape, Numbered
  <2> QED BY <2>1, <2>2, <1>2
<1>6. Rotated(x, y, n, d, up, inner)
  BY <1>2, <1>3, <1>4, <1>5, RotateEffect
<1>7. n # Root(x) => \A e, m : e \in Sides /\ m \in M => (Kid(x, e, m) = n <=> e = SideOf(x, n) /\ m = Par(x, n))
  BY ParentIs
<1>8. n = Root(x) => \A e, m : e \in Sides /\ m \in M => Kid(x, e, m) # n
  BY <1>2, KidIs
<1>9. \A e, m : e \in Sides /\ m \in M =>
         Kid(y, e, m) = IF m = n /\ e = o THEN inner
                        ELSE IF m = up /\ e = d THEN n
                        ELSE IF Kid(x, e, m) = n THEN up
                        ELSE Kid(x, e, m)
  BY <1>2, <1>6, <1>7, <1>8 DEF Rotated
<1>10. Reds(y) = Reds(x) /\ Root(y) = (IF n = Root(x) THEN up ELSE Root(x)) /\ y \in Trees
  BY <1>6 DEF Rotated
<1>11. Par(y, n) = up /\ Par(y, Sentinel) = Par(x, Sentinel)
  BY <1>2, <1>3, <1>6, Apart DEF Rotated
<1> DEFINE v == Turn(w, n, d, up)
<1>12. /\ v \in Layouts /\ Members(v) = M /\ Size(v) = Size(w)
       /\ \A m : m \in Nodes => Pos(v, m) = Pos(w, m)
       /\ \A e, m : e \in Sides /\ m \in Nodes =>
             Bnd(v, e, m) = IF m = up /\ e = d THEN Bnd(w, d, n)
                            ELSE IF m = n /\ e = o THEN Pos(w, up)
                            ELSE Bnd(w, e, m)
  <2>1. w \in Layouts /\ n \in Nodes /\ up \in Nodes
    BY <1>2, <1>3
  <2> QED BY <2>1, TurnIs
<1> HIDE DEF o, inner, M, v
<1>20. Numbered(v)
  BY <1>1, <1>2, <1>3, <1>12, LayoutTypes, LeftRight DEF Shape, Numbered, M
<1>13. /\ \A m : m \in M => Pos(v, m) = Pos(w, m)
       /\ \A e, m : e \in Sides /\ m \in M =>
                Bnd(v, e, m) = IF m = up /\ e = d THEN Bnd(w, d, n)
                               ELSE IF m = n /\ e = o THEN Pos(w, up)
                               ELSE Bnd(w, e, m)
  BY <1>2, <1>12
<1>14. \A c, e, a, b : e \in Sides /\ Spans(w, c, e, a, b) /\ c # n /\ c # up => Spans(v, c, e, a, b)
  BY <1>12, <1>13, Mirror DEF Spans, M
<1>15. \A e, m : e \in Sides /\ m \in M => Spans(w, Kid(x, e, m), e, Bnd(w, e, m), Pos(w, m))
  BY DEF Shape, Spanned, M
<1>21. Spanned(y, v)
  <2>0. Spans(w, Root(x), "left", 0, Size(w) + 1)
    BY DEF Shape, Spanned
  <2>1. Spans(v, Root(y), "left", 0, Size(v) + 1)
    <3>1. CASE n = Root(x)
      <4>1. ~(0 = Size(w) + 1 + 1 \/ Size(w) + 1 = 0 + 1) /\ Bnd(w, "left", n) = 0 /\ Bnd(w, "right", n) = Size(w) + 1
        BY <1>2, <2>0, <3>1, LeftRight DEF Spans, M
      <4>2. Bnd(v, "left", up) = 0 /\ Bnd(v, "right", up) = Size(w) + 1
        BY <1>1, <1>3, <1>13, <4>1, LeftRight
      <4> QED BY <1>3, <1>10, <1>12, <3>1, <4>1, <4>2, LeftRight DEF Spans
    <3>2. CASE n # Root(x)
      BY <1>3, <1>10, <1>12, <1>14, <2>0, <3>2, LeftRight
    <3> QED BY <3>1, <3>2
  <2>2. ASSUME NEW e \in Sides, NEW m \in M
        PROVE  Spans(v, Kid(y, e, m), e, Bnd(v, e, m), Pos(v, m))
    <3>0. /\ n \in M /\ up \in M /\ m \in Nodes
          /\ Pos(v, m) = Pos(w, m) /\ Kid(x, e, m) # m
      BY <1>2, <1>3, <1>13, KidIs DEF M
    <3>1. CASE m = n /\ e = o
      <4>1. Spans(w, inner, d, Pos(w, n), Pos(w, up))
        BY <1>3, <1>15 DEF inner
      <4>2. Spans(v, inner, o, Pos(w, up), Pos(w, n))
        BY <1>1, <1>4, <1>14, <4>1, SpansSwap
      <4> QED BY <1>1, <1>3, <1>9, <1>13, <3>0, <3>1, <4>2
    <3>2. CASE m = up /\ e = d
      <4>1. ~(Bnd(w, d, n) = Pos(w, up) + 1 \/ Pos(w, up) = Bnd(w, d, n) + 1)
        BY <1>1, <1>2, <1>3, <3>0, LayoutTypes, LeftRight DEF Shape, Numbered, M
      <4> QED BY <1>1, <1>3, <1>9, <1>12, <1>13, <3>0, <3>2, <4>1 DEF Spans
    <3>3. CASE m = n /\ e = d
      <4>1. Kid(y, e, m) = Kid(x, e, m) /\ Kid(x, e, m) # up /\ Bnd(v, e, m) = Bnd(w, e, m)
        BY <1>1, <1>3, <1>9, <1>13, <3>0, <3>3
      <4> QED BY <1>14, <1>15, <3>0, <3>3, <4>1
    <3>4. CASE m = up /\ e = o
      <4>1. Kid(x, e, m) # n
        <5>1. Kid(x, e, m) = n => Bnd(w, o, n) = Bnd(w, o, up) /\ Bnd(w, d, n) = Pos(w, up)
          BY <1>1, <1>2, <1>3, <3>4, KidIs DEF M
        <5> QED BY <1>1, <1>2, <1>3, <3>4, <5>1, LayoutTypes, LeftRight DEF Shape, Numbered, M
      <4>2. Kid(y, e, m) = Kid(x, e, m) /\ Bnd(v, e, m) = Bnd(w, e, m)
        BY <1>1, <1>3, <1>9, <1>13, <3>0, <3>4, <4>1
      <4> QED BY <1>14, <1>15, <3>0, <3>4, <4>1, <4>2
    <3>5. CASE m # n /\ m # up
      <4>1. Bnd(v, e, m) = Bnd(w, e, m) /\ Kid(x, e, m) # up
        BY <1>3, <1>13, <3>5
      <4>2. CASE Kid(x, e, m) # n
        BY <1>9, <1>14, <1>15, <3>0, <3>5, <4>1, <4>2
      <4>3. CASE Kid(x, e, m) = n
        <5>1. /\ ~(Bnd(w, e, m) = Pos(w, m) + 1 \/ Pos(w, m) = Bnd(w, e, m) + 1)
              /\ Bnd(w, e, n) = Bnd(w, e, m) /\ Bnd(w, Other(e), n) = Pos(w, m)
          BY <1>2, <1>15, <3>0, <4>3 DEF Spans
        <5>2. Bnd(v, e, up) = Bnd(w, e, n) /\ Bnd(v, Other(e), up) = Bnd(w, Other(e), n)
          BY <1>1, <1>3, <1>13
        <5> QED BY <1>3, <1>9, <1>12, <3>0, <3>5, <4>1, <4>3, <5>1, <5>2 DEF Spans
      <4> QED BY <4>2, <4>3
    <3> QED BY <1>1, <3>1, <3>2, <3>3, <3>4, <3>5
  <2> QED BY <1>12, <2>1, <2>2 DEF Spanned, M
<1>22. Detached(y, v)
  <2> SUFFICES ASSUME NEW e \in Sides, NEW m \in Places \ M PROVE Kid(y, e, m) = None
    BY <1>12 DEF Detached, M
  <2>1. Kid(x, e, m) = None
    BY DEF Shape, Detached, M
  <2>2. m # n /\ m # up /\ (n # Root(x) => m # Par(x, n))
    BY <1>3, ParentIs DEF M
  <2> QED BY <1>6, <2>1, <2>2 DEF Rotated
<1>23. Parented(y, v)
  <2>0. /\ n \in M /\ up \in M /\ inner = Kid(x, d, up)
        /\ \A m : m \in Places =>
              Par(y, m) = IF m = n THEN up
                          ELSE IF m = up THEN Par(x, n)
                          ELSE IF m = inner /\ m # Sentinel THEN n
                          ELSE Par(x, m)
    BY <1>3, <1>6 DEF Rotated, M, inner
  <2>1. ASSUME NEW e \in Sides, NEW m \in M, Kid(y, e, m) # Sentinel PROVE Par(y, Kid(y, e, m)) = m
    <3>1. CASE m = n /\ e = o
      BY <1>4, <1>9, <2>0, <2>1, <3>1
    <3>2. CASE m = up /\ e = d
      BY <1>1, <1>2, <1>3, <1>9, <2>0, <2>1, <3>2
    <3>3. CASE ~(m = n /\ e = o) /\ ~(m = up /\ e = d) /\ Kid(x, e, m) = n
      <4>1. Kid(y, e, m) = up /\ Par(x, n) = m
        BY <1>2, <1>9, <2>0, <3>3, KidIs DEF M
      <4> QED BY <1>2, <1>3, <2>0, <4>1
    <3>4. CASE ~(m = n /\ e = o) /\ ~(m = up /\ e = d) /\ Kid(x, e, m) # n
      <4>1. Kid(y, e, m) = Kid(x, e, m) /\ Kid(x, e, m) # up
        BY <1>3, <1>9, <3>4
      <4>2. Kid(x, e, m) \in M /\ Par(x, Kid(x, e, m)) = m
        BY <2>1, <4>1, KidIs DEF M
      <4>3. Kid(x, e, m) # inner
        BY <2>0, <2>1, <4>1, <3>4, KidIs DEF M
      <4> QED BY <1>2, <2>0, <3>4, <4>1, <4>2, <4>3
    <3> QED BY <3>1, <3>2, <3>3, <3>4
  <2>2. ASSUME NEW m \in M, m # Root(y)
        PROVE  Par(y, m) \in M /\ \E e : e \in Sides /\ Kid(y, e, Par(y, m)) = m
    <3>1. CASE m = n
      BY <1>2, <1>3, <1>9, <2>0, <3>1
    <3>2. CASE m = up
      <4>1. n # Root(x)
        BY <1>10, <2>2, <3>2
      <4>2. Par(x, n) \in M /\ SideOf(x, n) \in Sides /\ Kid(x, SideOf(x, n), Par(x, n)) = n /\ Par(x, n) # n
        BY <2>0, <4>1, ParentIs DEF M
      <4>3. Par(x, n) # up
        BY <1>3, <1>5, <4>1
      <4>4. Kid(y, SideOf(x, n), Par(x, n)) = up
        BY <1>9, <4>2, <4>3
      <4> QED BY <1>2, <1>3, <2>0, <3>2, <4>2, <4>4
    <3>3. CASE m # n /\ m # up /\ m = inner
      BY <1>1, <1>2, <1>9, <2>0, <3>3
    <3>4. CASE m # n /\ m # up /\ m # inner
      <4>1. m # Root(x)
        BY <1>10, <2>2, <3>4
      <4>2. Par(x, m) \in M /\ SideOf(x, m) \in Sides /\ Kid(x, SideOf(x, m), Par(x, m)) = m
        BY <4>1, ParentIs DEF M
      <4>3. Par(y, m) = Par(x, m)
        BY <1>2, <2>0, <3>4
      <4>4. Kid(y, SideOf(x, m), Par(x, m)) = m
        BY <1>1, <1>3, <1>9, <2>0, <3>4, <4>2
      <4> QED BY <4>2, <4>3, <4>4
    <3> QED BY <3>1, <3>2, <3>3, <3>4
  <2> QED BY <1>12, <2>1, <2>2 DEF Parented, M
<1>24. Nested(v)
  <2>1. ASSUME NEW k \in M, NEW m \in M, m # k, m \notin {n, up}
        PROVE  \/ Below(v, m, k) \/ Below(v, k, m)
               \/ Bnd(v, "right", m) <= Bnd(v, "left", k) \/ Bnd(v, "right", k) <= Bnd(v, "left", m)
    <3>1. /\ Bnd(v, "left", m) = Bnd(w, "left", m) /\ Bnd(v, "right", m) = Bnd(w, "right", m)
          /\ Pos(v, m) = Pos(w, m) /\ Pos(v, k) = Pos(w, k)
      BY <1>13, <2>1, LeftRight
    <3>2. \A i : i \in {m, n, up} =>
             /\ Bnd(w, "left", i) \in Int /\ Bnd(w, "right", i) \in Int /\ Pos(w, i) \in Int
             /\ Bnd(w, "left", i) < Pos(w, i) /\ Pos(w, i) < Bnd(w, "right", i)
      BY <1>2, <1>3, <2>1, LayoutTypes, LeftRight DEF Shape, Numbered, M
    <3>3. \A i, j : i \in {m, n, up, k} /\ j \in {m, n, up, k} =>
             \/ i = j \/ Below(w, i, j) \/ Below(w, j, i)
             \/ Bnd(w, "right", i) <= Bnd(w, "left", j) \/ Bnd(w, "right", j) <= Bnd(w, "left", i)
      BY <1>3, <2>1 DEF Shape, Nested, M
    <3>4. CASE k \notin {n, up}
      <4>1. Bnd(v, "left", k) = Bnd(w, "left", k) /\ Bnd(v, "right", k) = Bnd(w, "right", k)
        BY <1>13, <3>4, LeftRight
      <4> QED BY <2>1, <3>1, <3>3, <4>1 DEF Below
    <3>5. CASE d = "left"
      <4>1. o = "right"
        BY <1>1, <3>5, LeftRight
      <4>2. CASE k = n
        <5>1. Bnd(v, "left", n) = Bnd(w, "left", n) /\ Bnd(v, "right", n) = Pos(w, up)
          BY <1>3, <1>13, <3>5, <4>1, LeftRight DEF M
        <5> QED BY <1>3, <2>1, <3>1, <3>2, <3>3, <3>5, <4>1, <4>2, <5>1 DEF Below
      <4>3. CASE k = up
        <5>1. Bnd(v, "left", up) = Bnd(w, "left", n) /\ Bnd(v, "right", up) = Bnd(w, "right", up)
          BY <1>3, <1>13, <3>5, <4>1, LeftRight DEF M
        <5> QED BY <1>3, <2>1, <3>1, <3>2, <3>3, <3>5, <4>1, <4>3, <5>1 DEF Below
      <4> QED BY <3>4, <4>2, <4>3
    <3>6. CASE d = "right"
      <4>1. o = "left"
        BY <1>1, <3>6, LeftRight
      <4>2. CASE k = n
        <5>1. Bnd(v, "right", n) = Bnd(w, "right", n) /\ Bnd(v, "left", n) = Pos(w, up)
          BY <1>3, <1>13, <3>6, <4>1, LeftRight DEF M
        <5> QED BY <1>3, <2>1, <3>1, <3>2, <3>3, <3>6, <4>1, <4>2, <5>1 DEF Below
      <4>3. CASE k = up
        <5>1. Bnd(v, "right", up) = Bnd(w, "right", n) /\ Bnd(v, "left", up) = Bnd(w, "left", up)
          BY <1>3, <1>13, <3>6, <4>1, LeftRight DEF M
        <5> QED BY <1>3, <2>1, <3>1, <3>2, <3>3, <3>6, <4>1, <4>3, <5>1 DEF Below
      <4> QED BY <3>4, <4>2, <4>3
    <3> QED BY <3>5, <3>6, LeftRight
  <2>2. Below(v, n, up)
    <3>1. Bnd(w, d, n) \in Int /\ Pos(w, up) \in Int
      BY <1>2, <1>3, LayoutTypes DEF M
    <3>2. CASE d = "left"
      BY <1>1, <1>3, <1>13, <3>1, <3>2, LeftRight DEF Below, M
    <3>3. CASE d = "right"
      BY <1>1, <1>3, <1>13, <3>1, <3>3, LeftRight DEF Below, M
    <3> QED BY <3>2, <3>3, LeftRight
  <2> QED BY <1>3, <1>12, <2>1, <2>2 DEF Nested, M
<1>25. Shape(y, v)
  BY <1>10, <1>20, <1>21, <1>22, <1>23, <1>24 DEF Shape
<1> QED BY <1>9, <1>10, <1>11, <1>12, <1>25 DEF M, o, inner

\* A tree with the same links has the same shape.
LEMMA SameShape ==
    ASSUME NEW x, NEW w, Shape(x, w), NEW y \in Trees, Root(y) = Root(x),
           \A d, n : d \in Sides /\ n \in Places => Kid(y, d, n) = Kid(x, d, n),
           \A n : n \in Nodes => Par(y, n) = Par(x, n)
    PROVE  Shape(y, w)
<1>1. /\ w \in Layouts /\ Members(w) \subseteq Nodes
      /\ \A m : m \in Members(w) => m \in Nodes /\ m \in Places /\ m # Sentinel
  BY LayoutTypes, Apart DEF Shape, Numbered
<1>2. Spanned(y, w)
  BY <1>1 DEF Shape, Spanned
<1>3. Detached(y, w)
  BY <1>1 DEF Shape, Detached
<1>4. Parented(y, w)
  <2>1. \A d, n : d \in Sides /\ n \in Members(w) /\ Kid(x, d, n) # Sentinel => Kid(x, d, n) \in Members(w)
    BY KidIs
  <2>2. \A d, n : d \in Sides /\ n \in Members(w) /\ Kid(y, d, n) # Sentinel => Par(y, Kid(y, d, n)) = n
    BY <1>1, <2>1 DEF Shape, Parented
  <2>3. \A n : n \in Members(w) /\ n # Root(y) =>
                  Par(y, n) \in Members(w) /\ \E d : d \in Sides /\ Kid(y, d, Par(y, n)) = n
    <3> SUFFICES ASSUME NEW n \in Members(w), n # Root(y)
                 PROVE  Par(y, n) \in Members(w) /\ \E d : d \in Sides /\ Kid(y, d, Par(y, n)) = n
      OBVIOUS
    <3>1. Par(y, n) = Par(x, n) /\ Par(x, n) \in Members(w) /\ SideOf(x, n) \in Sides
          /\ Kid(x, SideOf(x, n), Par(x, n)) = n
      BY <1>1, ParentIs
    <3> QED BY <1>1, <3>1
  <2> QED BY <2>2, <2>3 DEF Parented
<1> QED BY <1>2, <1>3, <1>4 DEF Shape

\* The position i when another one is put in at q.
Later(i, q) == IF i >= q THEN i + 1 ELSE i

Grow(w, n, q) ==
    Layout(Members(w) \cup {n}, Size(w) + 1,
           [m \in Nodes |-> IF m = n THEN q ELSE Later(Pos(w, m), q)],
           [e \in Sides |-> [m \in Nodes |->
               IF m = n THEN IF e = "left" THEN q - 1 ELSE q + 1 ELSE Later(Bnd(w, e, m), q)]])

\* The parts of a layout after an insert.
LEMMA GrowIs ==
    ASSUME NEW w \in Layouts, NEW n \in Nodes, NEW q \in Int
    PROVE  /\ Grow(w, n, q) \in Layouts
           /\ Members(Grow(w, n, q)) = Members(w) \cup {n} /\ Size(Grow(w, n, q)) = Size(w) + 1
           /\ \A m : m \in Nodes => Pos(Grow(w, n, q), m) = IF m = n THEN q ELSE Later(Pos(w, m), q)
           /\ \A e, m : e \in Sides /\ m \in Nodes =>
                 Bnd(Grow(w, n, q), e, m) = IF m = n THEN IF e = "left" THEN q - 1 ELSE q + 1
                                            ELSE Later(Bnd(w, e, m), q)
<1> DEFINE p == [m \in Nodes |-> IF m = n THEN q ELSE Later(Pos(w, m), q)]
           b == [e \in Sides |-> [m \in Nodes |->
                   IF m = n THEN IF e = "left" THEN q - 1 ELSE q + 1 ELSE Later(Bnd(w, e, m), q)]]
<1>1. p \in [Nodes -> Int] /\ b \in [Sides -> [Nodes -> Int]]
  <2>1. \A i : i \in Int => Later(i, q) \in Int
    BY DEF Later
  <2> QED BY <2>1, LayoutTypes
<1>2. Members(w) \cup {n} \in SUBSET Nodes /\ Size(w) + 1 \in Nat
  BY LayoutTypes
<1>3. /\ \A m : m \in Nodes => p[m] = IF m = n THEN q ELSE Later(Pos(w, m), q)
      /\ \A e, m : e \in Sides /\ m \in Nodes =>
            b[e][m] = IF m = n THEN IF e = "left" THEN q - 1 ELSE q + 1 ELSE Later(Bnd(w, e, m), q)
  OBVIOUS
<1>4. Grow(w, n, q) = Layout(Members(w) \cup {n}, Size(w) + 1, p, b)
  BY DEF Grow
<1> HIDE DEF p, b
<1> QED BY <1>1, <1>2, <1>3, <1>4, LayoutIs

\* A new leaf n is hung under p, where p has no child.
LEMMA GrowShape ==
    ASSUME NEW x, NEW w, Shape(x, w), NEW p \in Members(w), NEW d \in Sides, Kid(x, d, p) = Sentinel,
           NEW n \in Nodes \ Members(w), NEW y, y = Red(Leaf(SetKid(x, d, p, n), n, p), n),
           NEW q, q = IF d = "left" THEN Pos(w, p) ELSE Pos(w, p) + 1
    PROVE  /\ Reds(y) = Reds(x) \cup {n} /\ Root(y) = Root(x)
           /\ \A e, m : e \in Sides /\ m \in Places =>
                 Kid(y, e, m) = IF m = n THEN Sentinel ELSE IF m = p /\ e = d THEN n ELSE Kid(x, e, m)
           /\ Shape(y, Grow(w, n, q))
<1> DEFINE M == Members(w)
           v == Grow(w, n, q)
           x1 == SetKid(x, d, p, n)
           x2 == SetKids(x1, n, Sentinel, Sentinel)
           x3 == SetParent(x2, n, p)
<1>1. /\ w \in Layouts /\ x \in Trees /\ M \subseteq Nodes /\ Size(w) \in Nat
      /\ p \in Nodes /\ p # n /\ p \in Places /\ n \in Places /\ Sentinel \in Places
      /\ \A m : m \in M => m \in Nodes /\ m \in Places /\ m # Sentinel /\ m # n
  BY LayoutTypes, Apart DEF Shape, Numbered
<1>2. /\ \A m : m \in M => /\ Bnd(w, "left", m) \in Int /\ Bnd(w, "right", m) \in Int /\ Pos(w, m) \in Int
                           /\ 0 <= Bnd(w, "left", m) /\ Bnd(w, "left", m) < Pos(w, m)
                           /\ Pos(w, m) < Bnd(w, "right", m) /\ Bnd(w, "right", m) <= Size(w) + 1
      /\ q \in Int
  BY <1>1, LayoutTypes, LeftRight DEF Shape, Numbered
<1>3. /\ x1 \in Trees /\ Root(x1) = Root(x) /\ Reds(x1) = Reds(x)
      /\ \A m : m \in Places => Par(x1, m) = Par(x, m)
      /\ \A e, m : e \in Sides /\ m \in Places => Kid(x1, e, m) = IF m = p /\ e = d THEN n ELSE Kid(x, e, m)
  BY <1>1, SetKidEffect
<1> HIDE DEF x1
<1>4. /\ x2 \in Trees /\ Root(x2) = Root(x) /\ Reds(x2) = Reds(x)
      /\ \A m : m \in Places => Par(x2, m) = Par(x, m)
      /\ \A e, m : e \in Sides /\ m \in Places => Kid(x2, e, m) = IF m = n THEN Sentinel ELSE Kid(x1, e, m)
  BY <1>1, <1>3, SetKidsEffect
<1> HIDE DEF x2
<1>5. /\ x3 \in Trees /\ Root(x3) = Root(x) /\ Reds(x3) = Reds(x)
      /\ \A m : m \in Places => Par(x3, m) = IF m = n THEN p ELSE Par(x, m)
      /\ \A e, m : e \in Sides /\ m \in Places => Kid(x3, e, m) = Kid(x2, e, m)
  BY <1>1, <1>4, SetParentEffect
<1> HIDE DEF x3
<1>6. y = Red(x3, n)
  BY DEF Leaf, x1, x2, x3
<1>7. /\ y \in Trees /\ Root(y) = Root(x) /\ Reds(y) = Reds(x) \cup {n}
      /\ \A m : m \in Places => Par(y, m) = IF m = n THEN p ELSE Par(x, m)
      /\ \A e, m : e \in Sides /\ m \in Places =>
            Kid(y, e, m) = IF m = n THEN Sentinel ELSE IF m = p /\ e = d THEN n ELSE Kid(x, e, m)
  BY <1>1, <1>3, <1>4, <1>5, <1>6, ColourEffect
<1>8. /\ v \in Layouts /\ Members(v) = M \cup {n} /\ Size(v) = Size(w) + 1
      /\ Pos(v, n) = q /\ Bnd(v, "left", n) = q - 1 /\ Bnd(v, "right", n) = q + 1
      /\ \A m : m \in M => Pos(v, m) = Later(Pos(w, m), q)
      /\ \A e, m : e \in Sides /\ m \in M => Bnd(v, e, m) = Later(Bnd(w, e, m), q)
  <2>1. w \in Layouts /\ n \in Nodes /\ q \in Int /\ n \notin M /\ \A m : m \in M => m \in Nodes
    BY <1>1, <1>2
  <2>2. v = Grow(w, n, q) /\ M = Members(w)
    OBVIOUS
  <2> HIDE DEF M, v
  <2>3. /\ v \in Layouts /\ Members(v) = M \cup {n} /\ Size(v) = Size(w) + 1
        /\ \A m : m \in Nodes => Pos(v, m) = IF m = n THEN q ELSE Later(Pos(w, m), q)
        /\ \A e, m : e \in Sides /\ m \in Nodes =>
              Bnd(v, e, m) = IF m = n THEN IF e = "left" THEN q - 1 ELSE q + 1 ELSE Later(Bnd(w, e, m), q)
    BY <2>1, <2>2, GrowIs
  <2> QED BY <2>1, <2>3, LeftRight
<1> HIDE DEF M, v
\* The place of n is between the positions q - 1 and q.
<1>9. /\ d = "left" => Bnd(w, "left", p) = q - 1 /\ Pos(w, p) = q
      /\ d = "right" => Pos(w, p) = q - 1 /\ Bnd(w, "right", p) = q
  <2>1. Bnd(w, d, p) = Pos(w, p) + 1 \/ Pos(w, p) = Bnd(w, d, p) + 1
    BY <1>1 DEF Shape, Spanned, Spans, M
  <2> QED BY <1>2, <2>1, LeftRight DEF M
<1>10. \A e, m : e \in Sides /\ m \in M /\ ~(m = p /\ e = d) =>
          /\ ~(Bnd(w, e, m) = q - 1 /\ Pos(w, m) = q)
          /\ ~(Bnd(w, e, m) = q /\ Pos(w, m) = q - 1)
  <2> SUFFICES ASSUME NEW e \in Sides, NEW m \in M, ~(m = p /\ e = d)
               PROVE  /\ ~(Bnd(w, e, m) = q - 1 /\ Pos(w, m) = q)
                      /\ ~(Bnd(w, e, m) = q /\ Pos(w, m) = q - 1)
    OBVIOUS
  <2>1. /\ Bnd(w, "left", m) < Pos(w, m) /\ Pos(w, m) < Bnd(w, "right", m)
        /\ Bnd(w, "left", m) \in Int /\ Bnd(w, "right", m) \in Int /\ Pos(w, m) \in Int
        /\ Bnd(w, "left", p) < Pos(w, p) /\ Pos(w, p) < Bnd(w, "right", p)
        /\ Bnd(w, "left", p) \in Int /\ Bnd(w, "right", p) \in Int /\ Pos(w, p) \in Int
    BY <1>2 DEF M
  <2>2. \/ m = p \/ Below(w, m, p) \/ Below(w, p, m)
        \/ Bnd(w, "right", m) <= Bnd(w, "left", p) \/ Bnd(w, "right", p) <= Bnd(w, "left", m)
    BY DEF Shape, Nested, M
  <2>3. Pos(w, m) = Pos(w, p) => m = p
    BY DEF Shape, Numbered, M
  <2>4. CASE e = "left"
    BY <1>2, <1>9, <2>1, <2>2, <2>3, <2>4, LeftRight DEF Below
  <2>5. CASE e = "right"
    BY <1>2, <1>9, <2>1, <2>2, <2>3, <2>5, LeftRight DEF Below
  <2> QED BY <2>4, <2>5, LeftRight
<1>16. 1 <= q /\ q <= Size(w) + 1
  BY <1>1, <1>2, <1>9, LeftRight DEF M
<1>17. \A m : m \in M => /\ Pos(v, m) = Later(Pos(w, m), q)
                         /\ Bnd(v, "left", m) = Later(Bnd(w, "left", m), q)
                         /\ Bnd(v, "right", m) = Later(Bnd(w, "right", m), q)
  BY <1>8, LeftRight
<1>11. Numbered(v)
  <2>1. \A m : m \in Members(v) =>
          /\ 0 <= Bnd(v, "left", m) /\ Bnd(v, "left", m) < Pos(v, m)
          /\ Pos(v, m) < Bnd(v, "right", m) /\ Bnd(v, "right", m) <= Size(v) + 1
    BY <1>1, <1>2, <1>8, <1>16, <1>17 DEF Later
  <2>2. \A m, k : m \in Members(v) /\ k \in Members(v) /\ Pos(v, m) = Pos(v, k) => m = k
    <3>1. \A m, k : m \in M /\ k \in M /\ Pos(w, m) = Pos(w, k) => m = k
      BY DEF Shape, Numbered, M
    <3> QED BY <1>2, <1>8, <1>17, <3>1 DEF Later
  <2>3. ASSUME NEW i \in 1 .. Size(v) PROVE \E m : m \in Members(v) /\ Pos(v, m) = i
    <3>1. \A j : j \in 1 .. Size(w) => \E m : m \in M /\ Pos(w, m) = j
      BY DEF Shape, Numbered, M
    <3>2. CASE i = q
      BY <1>8, <3>2
    <3>3. CASE i < q
      <4>0. i \in 1 .. Size(w)
        BY <1>1, <1>2, <1>8, <1>16, <3>3
      <4>1. PICK m : m \in M /\ Pos(w, m) = i
        BY <3>1, <4>0
      <4> QED BY <1>2, <1>8, <1>17, <3>3, <4>1 DEF Later
    <3>4. CASE i > q
      <4>1. i - 1 \in 1 .. Size(w)
        BY <1>1, <1>2, <1>8, <1>16, <3>4
      <4>2. PICK m : m \in M /\ Pos(w, m) = i - 1
        BY <3>1, <4>1
      <4> QED BY <1>2, <1>8, <1>17, <3>4, <4>2 DEF Later
    <3> QED BY <1>1, <1>2, <1>8, <3>2, <3>3, <3>4
  <2> QED BY <1>8, <2>1, <2>2, <2>3 DEF Numbered
<1>12. Nested(v)
  <2>1. ASSUME NEW k \in M, NEW m \in M
        PROVE  \/ m = k \/ Below(v, m, k) \/ Below(v, k, m)
               \/ Bnd(v, "right", m) <= Bnd(v, "left", k) \/ Bnd(v, "right", k) <= Bnd(v, "left", m)
    <3>1. \/ m = k \/ Below(w, m, k) \/ Below(w, k, m)
          \/ Bnd(w, "right", m) <= Bnd(w, "left", k) \/ Bnd(w, "right", k) <= Bnd(w, "left", m)
      BY DEF Shape, Nested, M
    <3> QED BY <1>2, <1>17, <3>1 DEF Below, Later
  <2>2. ASSUME NEW m \in M
        PROVE  \/ Below(v, n, m)
               \/ Bnd(v, "right", m) <= Bnd(v, "left", n) \/ Bnd(v, "right", n) <= Bnd(v, "left", m)
    BY <1>2, <1>8, <1>17 DEF Below, Later
  <2> QED BY <1>8, <2>1, <2>2 DEF Nested
<1>18. ASSUME NEW c, c # n, NEW e \in Sides, NEW a \in Int, NEW b \in Int, Spans(w, c, e, a, b),
              ~(a = q - 1 /\ b = q), ~(a = q /\ b = q - 1)
       PROVE  Spans(v, c, e, Later(a, q), Later(b, q))
  <2>1. Later(a, q) = Later(b, q) + 1 \/ Later(b, q) = Later(a, q) + 1 <=> a = b + 1 \/ b = a + 1
    BY <1>2, <1>18 DEF Later
  <2>2. CASE a = b + 1 \/ b = a + 1
    BY <1>18, <2>1, <2>2 DEF Spans
  <2>3. CASE ~(a = b + 1 \/ b = a + 1)
    <3>1. c \in M /\ Bnd(w, e, c) = a /\ Bnd(w, Other(e), c) = b
      BY <1>18, <2>3 DEF Spans, M
    <3>2. Bnd(v, e, c) = Later(a, q) /\ Bnd(v, Other(e), c) = Later(b, q)
      BY <1>8, <3>1, Mirror
    <3> QED BY <1>8, <2>1, <2>3, <3>1, <3>2 DEF Spans
  <2> QED BY <2>2, <2>3
<1>13. Spanned(y, v)
  <2>1. Spans(v, Root(y), "left", 0, Size(v) + 1)
    <3>1. Spans(w, Root(x), "left", 0, Size(w) + 1) /\ Root(x) # n
      BY <1>1, Apart DEF Shape, Spanned, Spans, M
    <3>2. Later(0, q) = 0 /\ Later(Size(w) + 1, q) = Size(v) + 1
      BY <1>1, <1>2, <1>8, <1>16 DEF Later
    <3>3. ~(0 = q - 1 /\ Size(w) + 1 = q) /\ ~(0 = q /\ Size(w) + 1 = q - 1)
      BY <1>1, <1>2, <1>9, <1>16, LeftRight DEF M
    <3> QED BY <1>1, <1>7, <1>18, <3>1, <3>2, <3>3, LeftRight
  <2>2. ASSUME NEW e \in Sides, NEW m \in M \cup {n}
        PROVE  Spans(v, Kid(y, e, m), e, Bnd(v, e, m), Pos(v, m))
    <3>1. CASE m = n
      <4>1. Kid(y, e, m) = Sentinel
        BY <1>1, <1>7, <3>1
      <4>2. Bnd(v, e, m) = Pos(v, m) + 1 \/ Pos(v, m) = Bnd(v, e, m) + 1
        BY <1>2, <1>8, <3>1, LeftRight
      <4> QED BY <4>1, <4>2 DEF Spans
    <3>2. CASE m = p /\ e = d
      <4>1. Kid(y, e, m) = n /\ p \in M
        BY <1>1, <1>7, <3>2 DEF M
      <4>2. CASE d = "left"
        BY <1>2, <1>8, <1>9, <3>2, <4>1, <4>2, LeftRight DEF Spans, Later
      <4>3. CASE d = "right"
        BY <1>2, <1>8, <1>9, <3>2, <4>1, <4>3, LeftRight DEF Spans, Later
      <4> QED BY <4>2, <4>3, LeftRight
    <3>3. CASE m # n /\ ~(m = p /\ e = d)
      <4>1. Kid(y, e, m) = Kid(x, e, m) /\ m \in M
        BY <1>1, <1>7, <3>3
      <4>2. Spans(w, Kid(x, e, m), e, Bnd(w, e, m), Pos(w, m)) /\ Kid(x, e, m) # n
        <5>1. Spans(w, Kid(x, e, m), e, Bnd(w, e, m), Pos(w, m))
          BY <4>1 DEF Shape, Spanned, M
        <5>2. Kid(x, e, m) \in M \cup {Sentinel}
          BY <5>1 DEF Spans, M
        <5> QED BY <1>1, <5>1, <5>2, Apart
      <4>3. Bnd(w, e, m) \in Int /\ Pos(w, m) \in Int
        BY <1>2, <4>1, LeftRight
      <4> QED BY <1>8, <1>10, <1>18, <3>3, <4>1, <4>2, <4>3
    <3> QED BY <3>1, <3>2, <3>3
  <2> QED BY <1>8, <2>1, <2>2 DEF Spanned
<1>14. Detached(y, v)
  BY <1>1, <1>7, <1>8 DEF Shape, Detached, M
<1>15. Parented(y, v)
  <2>0. /\ p \in M /\ \A e, m : e \in Sides /\ m \in M /\ Kid(x, e, m) # Sentinel => Kid(x, e, m) \in M /\ Par(x, Kid(x, e, m)) = m
        /\ \A m : m \in M /\ m # Root(x) => Par(x, m) \in M /\ SideOf(x, m) \in Sides /\ Kid(x, SideOf(x, m), Par(x, m)) = m
    BY KidIs, ParentIs DEF M
  <2>1. ASSUME NEW e \in Sides, NEW m \in M \cup {n}, Kid(y, e, m) # Sentinel PROVE Par(y, Kid(y, e, m)) = m
    BY <1>1, <1>7, <2>0, <2>1
  <2>2. ASSUME NEW m \in M \cup {n}, m # Root(y)
        PROVE  Par(y, m) \in M \cup {n} /\ \E e : e \in Sides /\ Kid(y, e, Par(y, m)) = m
    <3>1. CASE m = n
      BY <1>1, <1>7, <2>0, <3>1
    <3>2. CASE m # n
      <4>1. Par(y, m) = Par(x, m) /\ Par(x, m) \in M /\ Kid(x, SideOf(x, m), Par(x, m)) = m /\ SideOf(x, m) \in Sides
        BY <1>1, <1>7, <2>0, <2>2, <3>2
      <4>2. Kid(y, SideOf(x, m), Par(x, m)) = m
        BY <1>1, <1>7, <4>1, Apart
      <4> QED BY <4>1, <4>2
    <3> QED BY <3>1, <3>2
  <2> QED BY <1>8, <2>1, <2>2 DEF Parented
<1> QED BY <1>7, <1>11, <1>12, <1>13, <1>14, <1>15 DEF Shape, v

\* The position i as a bound on side e, when position q is taken out.
Earlier(e, i, q) == IF i > q \/ (i = q /\ e = "left") THEN i - 1 ELSE i

\* Positions after a deletion, from either side.
LEMMA EarlierIs ==
    \A i, q : i \in Int /\ q \in Int =>
        /\ Earlier("left", i, q) = IF i >= q THEN i - 1 ELSE i
        /\ Earlier("right", i, q) = IF i > q THEN i - 1 ELSE i
<1>1. ASSUME NEW i \in Int, NEW q \in Int
      PROVE  /\ Earlier("left", i, q) = IF i >= q THEN i - 1 ELSE i
             /\ Earlier("right", i, q) = IF i > q THEN i - 1 ELSE i
  <2>1. Earlier("left", i, q) = IF i > q \/ i = q THEN i - 1 ELSE i
    BY DEF Earlier
  <2>2. Earlier("right", i, q) = IF i > q THEN i - 1 ELSE i
    <3>1. ASSUME NEW e, e # "left" PROVE Earlier(e, i, q) = IF i > q THEN i - 1 ELSE i
      BY <3>1 DEF Earlier
    <3> QED BY <3>1, LeftRight
  <2>3. i >= q <=> i > q \/ i = q
    OBVIOUS
  <2> QED BY <2>1, <2>2, <2>3
<1> QED BY <1>1

Shrink(w, s) ==
    Layout(Members(w) \ {s}, Size(w) - 1,
           [m \in Nodes |-> Earlier("right", Pos(w, m), Pos(w, s))],
           [e \in Sides |-> [m \in Nodes |-> Earlier(e, Bnd(w, e, m), Pos(w, s))]])

\* The parts of a layout after a deletion.
LEMMA ShrinkIs ==
    ASSUME NEW w \in Layouts, NEW s \in Nodes, Size(w) # 0
    PROVE  /\ Shrink(w, s) \in Layouts
           /\ Members(Shrink(w, s)) = Members(w) \ {s} /\ Size(Shrink(w, s)) = Size(w) - 1
           /\ \A m : m \in Nodes => Pos(Shrink(w, s), m) = Earlier("right", Pos(w, m), Pos(w, s))
           /\ \A e, m : e \in Sides /\ m \in Nodes => Bnd(Shrink(w, s), e, m) = Earlier(e, Bnd(w, e, m), Pos(w, s))
<1> DEFINE p == [m \in Nodes |-> Earlier("right", Pos(w, m), Pos(w, s))]
           b == [e \in Sides |-> [m \in Nodes |-> Earlier(e, Bnd(w, e, m), Pos(w, s))]]
<1>1. p \in [Nodes -> Int] /\ b \in [Sides -> [Nodes -> Int]]
  <2>1. \A e, i, q : i \in Int => Earlier(e, i, q) \in Int
    BY DEF Earlier
  <2> QED BY <2>1, LayoutTypes
<1>2. Members(w) \ {s} \in SUBSET Nodes /\ Size(w) - 1 \in Nat
  BY LayoutTypes
<1>3. /\ \A m : m \in Nodes => p[m] = Earlier("right", Pos(w, m), Pos(w, s))
      /\ \A e, m : e \in Sides /\ m \in Nodes => b[e][m] = Earlier(e, Bnd(w, e, m), Pos(w, s))
  OBVIOUS
<1>4. Shrink(w, s) = Layout(Members(w) \ {s}, Size(w) - 1, p, b)
  BY DEF Shrink
<1> HIDE DEF p, b
<1> QED BY <1>1, <1>2, <1>3, <1>4, LayoutIs

\* A node s without a child on side d is taken out: its other child c takes its place.
LEMMA SpliceShape ==
    ASSUME NEW x, NEW w, Shape(x, w), NEW s \in Members(w), NEW d \in Sides, Kid(x, d, s) = Sentinel,
           NEW c, c = Kid(x, Other(d), s), NEW y \in Trees,
           Root(y) = IF s = Root(x) THEN c ELSE Root(x),
           \A e, m : e \in Sides /\ m \in Members(w) \ {s} =>
               Kid(y, e, m) = IF Kid(x, e, m) = s THEN c ELSE Kid(x, e, m),
           \A e, m : e \in Sides /\ m \in Places \ (Members(w) \ {s}) => Kid(y, e, m) = None,
           \A m : m \in Members(w) \ {s} /\ m # c => Par(y, m) = Par(x, m),
           c # Sentinel /\ s # Root(x) => Par(y, c) = Par(x, s)
    PROVE  Shape(y, Shrink(w, s))
<1> DEFINE M == Members(w)
           v == Shrink(w, s)
           q == Pos(w, s)
<1>1. /\ w \in Layouts /\ x \in Trees /\ M \subseteq Nodes /\ Size(w) \in Nat
      /\ s \in M
      /\ \A m : m \in M => m \in Nodes /\ m \in Places /\ m # Sentinel
  BY LayoutTypes, Apart DEF Shape, Numbered
<1>2. /\ \A m : m \in M => /\ Bnd(w, "left", m) \in Int /\ Bnd(w, "right", m) \in Int /\ Pos(w, m) \in Int
                           /\ 0 <= Bnd(w, "left", m) /\ Bnd(w, "left", m) < Pos(w, m)
                           /\ Pos(w, m) < Bnd(w, "right", m) /\ Bnd(w, "right", m) <= Size(w) + 1
      /\ q \in Int /\ 1 <= q /\ q <= Size(w)
  BY <1>1, LayoutTypes, LeftRight DEF Shape, Numbered
<1>3. /\ v \in Layouts /\ Members(v) = M \ {s} /\ Size(v) = Size(w) - 1
      /\ \A m : m \in M => Pos(v, m) = Earlier("right", Pos(w, m), q)
      /\ \A e, m : e \in Sides /\ m \in M => Bnd(v, e, m) = Earlier(e, Bnd(w, e, m), q)
  <2>1. w \in Layouts /\ s \in Nodes /\ Size(w) # 0
    BY <1>1, <1>2
  <2> QED BY <1>1, <2>1, ShrinkIs
<1>4. \A m : m \in M => /\ Pos(v, m) = Earlier("right", Pos(w, m), q)
                        /\ Bnd(v, "left", m) = Earlier("left", Bnd(w, "left", m), q)
                        /\ Bnd(v, "right", m) = Earlier("right", Bnd(w, "right", m), q)
  BY <1>3, LeftRight
<1>5. \A m : m \in M /\ m # s => Pos(w, m) # q
  BY <1>1 DEF Shape, Numbered, M, q
<1> HIDE DEF M, v
\* What is between position q - 1 and q + 1 is s.
<1>6. \A m : m \in M /\ Bnd(w, "left", m) = q - 1 /\ Bnd(w, "right", m) = q + 1 => m = s
  BY <1>2, <1>5
<1>7. /\ d = "left" => Bnd(w, "left", s) = q - 1
      /\ d = "right" => Bnd(w, "right", s) = q + 1
  <2>1. Bnd(w, d, s) = Pos(w, s) + 1 \/ Pos(w, s) = Bnd(w, d, s) + 1
    BY <1>1 DEF Shape, Spanned, Spans, M
  <2> QED BY <1>1, <1>2, <2>1, LeftRight DEF q
<1>8. \A m : m \in M => /\ d = "left" => Bnd(w, "right", m) # q
                        /\ d = "right" => Bnd(w, "left", m) # q
  <2> SUFFICES ASSUME NEW m \in M
               PROVE  /\ d = "left" => Bnd(w, "right", m) # q
                      /\ d = "right" => Bnd(w, "left", m) # q
    OBVIOUS
  <2>1. \/ m = s \/ Below(w, m, s) \/ Below(w, s, m)
        \/ Bnd(w, "right", m) <= Bnd(w, "left", s) \/ Bnd(w, "right", s) <= Bnd(w, "left", m)
    BY <1>1 DEF Shape, Nested, M
  <2>2. /\ Bnd(w, "left", m) < Pos(w, m) /\ Pos(w, m) < Bnd(w, "right", m)
        /\ Bnd(w, "left", m) \in Int /\ Bnd(w, "right", m) \in Int /\ Pos(w, m) \in Int
        /\ Bnd(w, "left", s) < q /\ q < Bnd(w, "right", s)
        /\ Bnd(w, "left", s) \in Int /\ Bnd(w, "right", s) \in Int /\ q \in Int /\ q = Pos(w, s)
    BY <1>1, <1>2 DEF q
  <2> QED BY <1>7, <2>1, <2>2 DEF Below
<1> HIDE DEF q
<1>9. Numbered(v)
  <2>1. \A m : m \in Members(v) =>
          /\ 0 <= Bnd(v, "left", m) /\ Bnd(v, "left", m) < Pos(v, m)
          /\ Pos(v, m) < Bnd(v, "right", m) /\ Bnd(v, "right", m) <= Size(v) + 1
    BY <1>1, <1>2, <1>3, <1>4, <1>5, EarlierIs
  <2>2. \A m, k : m \in Members(v) /\ k \in Members(v) /\ Pos(v, m) = Pos(v, k) => m = k
    <3>1. \A m, k : m \in M /\ k \in M /\ Pos(w, m) = Pos(w, k) => m = k
      BY DEF Shape, Numbered, M
    <3> QED BY <1>2, <1>3, <1>4, <1>5, <3>1, EarlierIs
  <2>3. ASSUME NEW i \in 1 .. Size(v) PROVE \E m : m \in Members(v) /\ Pos(v, m) = i
    <3>1. \A j : j \in 1 .. Size(w) => \E m : m \in M /\ Pos(w, m) = j
      BY DEF Shape, Numbered, M
    <3>2. i \in 1 .. Size(w) /\ i + 1 \in 1 .. Size(w)
      BY <1>1, <1>3
    <3>3. CASE i < q
      <4>1. PICK m : m \in M /\ Pos(w, m) = i
        BY <3>1, <3>2
      <4>2. m # s
        BY <1>2, <3>3, <4>1 DEF q
      <4> QED BY <1>2, <1>3, <1>4, <3>3, <4>1, <4>2, EarlierIs
    <3>4. CASE i >= q
      <4>1. PICK m : m \in M /\ Pos(w, m) = i + 1
        BY <3>1, <3>2
      <4>2. m # s
        BY <1>2, <3>4, <4>1 DEF q
      <4>3. Pos(w, m) \in Int /\ Pos(w, m) = i + 1 /\ Pos(w, m) > q /\ q \in Int /\ i \in Int
        BY <1>2, <3>4, <4>1
      <4>4. Pos(v, m) = i
        BY <1>4, <4>1, <4>3, EarlierIs
      <4> QED BY <1>3, <4>1, <4>2, <4>4
    <3> QED BY <1>2, <3>2, <3>3, <3>4
  <2> QED BY <1>3, <2>1, <2>2, <2>3 DEF Numbered
<1>10. Nested(v)
  <2>1. ASSUME NEW k \in M \ {s}, NEW m \in M \ {s}
        PROVE  \/ m = k \/ Below(v, m, k) \/ Below(v, k, m)
               \/ Bnd(v, "right", m) <= Bnd(v, "left", k) \/ Bnd(v, "right", k) <= Bnd(v, "left", m)
    <3>1. \/ m = k \/ Below(w, m, k) \/ Below(w, k, m)
          \/ Bnd(w, "right", m) <= Bnd(w, "left", k) \/ Bnd(w, "right", k) <= Bnd(w, "left", m)
      BY DEF Shape, Nested, M
    <3>2. /\ \A j : j \in {m, k} => /\ Bnd(w, "left", j) \in Int /\ Bnd(w, "right", j) \in Int
                                    /\ Pos(w, j) \in Int /\ Pos(w, j) # q
                                    /\ Pos(v, j) = Earlier("right", Pos(w, j), q)
                                    /\ Bnd(v, "left", j) = Earlier("left", Bnd(w, "left", j), q)
                                    /\ Bnd(v, "right", j) = Earlier("right", Bnd(w, "right", j), q)
          /\ q \in Int
      BY <1>2, <1>4, <1>5
    <3>3. ~(Bnd(w, "left", m) = q /\ Bnd(w, "right", k) = q) /\ ~(Bnd(w, "left", k) = q /\ Bnd(w, "right", m) = q)
      BY <1>8, LeftRight
    <3>4. \A j : j \in {m, k} =>
             /\ Bnd(w, "left", j) \in Int /\ Bnd(w, "right", j) \in Int
             /\ Pos(w, j) \in Int /\ Pos(w, j) # q
             /\ Pos(v, j) = IF Pos(w, j) > q THEN Pos(w, j) - 1 ELSE Pos(w, j)
             /\ Bnd(v, "left", j) = IF Bnd(w, "left", j) >= q THEN Bnd(w, "left", j) - 1 ELSE Bnd(w, "left", j)
             /\ Bnd(v, "right", j) = IF Bnd(w, "right", j) > q THEN Bnd(w, "right", j) - 1 ELSE Bnd(w, "right", j)
      BY <3>2, EarlierIs
    <3> QED BY <3>1, <3>2, <3>3, <3>4 DEF Below
  <2> QED BY <1>3, <2>1 DEF Nested
\* A subtree that is not that of s is where it was.
<1>11. ASSUME NEW k, k # s, NEW e \in Sides, NEW a \in Int, NEW b \in Int, b # q, Spans(w, k, e, a, b),
              e = "left" => a < b, e = "right" => b < a
       PROVE  Spans(v, k, e, Earlier(e, a, q), Earlier("right", b, q))
  <2>0. q \in Int
    BY <1>2
  <2>1. CASE a = b + 1 \/ b = a + 1
    <3>1. k = Sentinel
      BY <1>11, <2>1 DEF Spans
    <3>2. \/ Earlier(e, a, q) = Earlier("right", b, q) + 1
          \/ Earlier("right", b, q) = Earlier(e, a, q) + 1
      BY <1>11, <2>0, <2>1, LeftRight, EarlierIs
    <3> QED BY <3>1, <3>2 DEF Spans
  <2>2. CASE ~(a = b + 1 \/ b = a + 1)
    <3>1. k \in M /\ Bnd(w, e, k) = a /\ Bnd(w, Other(e), k) = b
      BY <1>11, <2>2 DEF Spans, M
    <3>2. Bnd(v, e, k) = Earlier(e, a, q) /\ Bnd(v, Other(e), k) = Earlier("right", b, q)
      <4>1. Bnd(v, e, k) = Earlier(e, a, q) /\ Bnd(v, Other(e), k) = Earlier(Other(e), b, q)
        BY <1>3, <1>11, <3>1, Mirror
      <4>2. Earlier(Other(e), b, q) = Earlier("right", b, q)
        BY <1>11, <2>0, LeftRight, EarlierIs
      <4> QED BY <4>1, <4>2
    <3>3. ~(e = "left" /\ a = q - 1 /\ b = q + 1) /\ ~(e = "right" /\ a = q + 1 /\ b = q - 1)
      BY <1>6, <1>11, <3>1, LeftRight
    <3>4. ~(\/ Earlier(e, a, q) = Earlier("right", b, q) + 1
            \/ Earlier("right", b, q) = Earlier(e, a, q) + 1)
      BY <1>11, <2>0, <2>2, <3>3, LeftRight, EarlierIs
    <3> QED BY <1>3, <1>11, <3>1, <3>2, <3>4 DEF Spans
  <2> QED BY <2>1, <2>2
\* The place of s is taken by c.
<1>12. ASSUME NEW e \in Sides, NEW a \in Int, NEW b \in Int, Spans(w, s, e, a, b)
       PROVE  Spans(v, c, e, Earlier(e, a, q), Earlier("right", b, q))
  <2>1. Bnd(w, e, s) = a /\ Bnd(w, Other(e), s) = b
    BY <1>1, <1>12, Apart DEF Spans
  <2>2. Spans(w, c, Other(d), Bnd(w, Other(d), s), q)
    BY <1>1, Mirror DEF Shape, Spanned, M, q
  <2>3. c # s
    BY <1>1, KidIs, Mirror DEF M
  <2>4. /\ q \in Int /\ Bnd(w, "left", s) < q /\ q < Bnd(w, "right", s)
        /\ Bnd(w, "left", s) \in Int /\ Bnd(w, "right", s) \in Int
    BY <1>1, <1>2 DEF q
  <2>5. Spans(v, c, "left", Bnd(w, "left", s), Bnd(w, "right", s) - 1)
    <3>1. CASE d = "left"
      <4>1. Spans(w, c, "right", Bnd(w, "right", s), q) /\ Bnd(w, "left", s) = q - 1
        BY <1>7, <2>2, <3>1, LeftRight
      <4>2. CASE Bnd(w, "right", s) = q + 1
        <5>1. c = Sentinel
          BY <2>4, <4>1, <4>2 DEF Spans
        <5> QED BY <2>4, <4>1, <4>2, <5>1 DEF Spans
      <4>3. CASE Bnd(w, "right", s) # q + 1
        <5>1. c \in M /\ Bnd(w, "right", c) = Bnd(w, "right", s) /\ Bnd(w, "left", c) = q
          BY <2>4, <4>1, <4>3, LeftRight DEF Spans, M
        <5>2. Bnd(v, "right", c) = Bnd(w, "right", s) - 1 /\ Bnd(v, "left", c) = Bnd(w, "left", s)
          BY <1>4, <2>4, <4>1, <5>1, EarlierIs
        <5> QED BY <1>3, <2>3, <2>4, <4>1, <4>3, <5>1, <5>2, LeftRight DEF Spans
      <4> QED BY <4>2, <4>3
    <3>2. CASE d = "right"
      <4>1. Spans(w, c, "left", Bnd(w, "left", s), q) /\ Bnd(w, "right", s) = q + 1
        BY <1>7, <2>2, <3>2, LeftRight
      <4>2. CASE Bnd(w, "left", s) = q - 1
        <5>1. c = Sentinel
          BY <2>4, <4>1, <4>2 DEF Spans
        <5> QED BY <2>4, <4>1, <4>2, <5>1 DEF Spans
      <4>3. CASE Bnd(w, "left", s) # q - 1
        <5>1. c \in M /\ Bnd(w, "left", c) = Bnd(w, "left", s) /\ Bnd(w, "right", c) = q
          BY <2>4, <4>1, <4>3, LeftRight DEF Spans, M
        <5>2. Bnd(v, "left", c) = Bnd(w, "left", s) /\ Bnd(v, "right", c) = Bnd(w, "right", s) - 1
          BY <1>4, <2>4, <4>1, <5>1, EarlierIs
        <5> QED BY <1>3, <2>3, <2>4, <4>1, <4>3, <5>1, <5>2, LeftRight DEF Spans
      <4> QED BY <4>2, <4>3
    <3> QED BY <3>1, <3>2, LeftRight
  <2>6. CASE e = "left"
    <3>1. Earlier(e, a, q) = Bnd(w, "left", s) /\ Earlier("right", b, q) = Bnd(w, "right", s) - 1
      BY <2>1, <2>4, <2>6, LeftRight, EarlierIs
    <3> QED BY <2>5, <2>6, <3>1
  <2>7. CASE e = "right"
    <3>1. Earlier(e, a, q) = Bnd(w, "right", s) - 1 /\ Earlier("right", b, q) = Bnd(w, "left", s)
      BY <2>1, <2>4, <2>7, LeftRight, EarlierIs
    <3> QED BY <2>5, <2>7, <3>1, SpansSwap, LeftRight
  <2> QED BY <2>6, <2>7, LeftRight
<1>13. Spanned(y, v)
  <2>1. Spans(v, Root(y), "left", 0, Size(v) + 1)
    <3>1. Spans(w, Root(x), "left", 0, Size(w) + 1)
      BY DEF Shape, Spanned
    <3>2. Earlier("left", 0, q) = 0 /\ Earlier("right", Size(w) + 1, q) = Size(v) + 1
      BY <1>1, <1>2, <1>3, EarlierIs
    <3>3. CASE s = Root(x)
      BY <1>1, <1>12, <3>1, <3>2, <3>3, LeftRight
    <3>4. CASE s # Root(x)
      BY <1>1, <1>2, <1>11, <3>1, <3>2, <3>4, LeftRight
    <3> QED BY <3>3, <3>4
  <2>2. ASSUME NEW e \in Sides, NEW m \in M \ {s}
        PROVE  Spans(v, Kid(y, e, m), e, Bnd(v, e, m), Pos(v, m))
    <3>1. Spans(w, Kid(x, e, m), e, Bnd(w, e, m), Pos(w, m))
      BY DEF Shape, Spanned, M
    <3>2. /\ Bnd(v, e, m) = Earlier(e, Bnd(w, e, m), q) /\ Pos(v, m) = Earlier("right", Pos(w, m), q)
          /\ Bnd(w, e, m) \in Int /\ Pos(w, m) \in Int /\ Pos(w, m) # q
          /\ e = "left" => Bnd(w, e, m) < Pos(w, m)
          /\ e = "right" => Pos(w, m) < Bnd(w, e, m)
      BY <1>2, <1>3, <1>5, LeftRight
    <3>3. CASE Kid(x, e, m) = s
      BY <1>12, <3>1, <3>2, <3>3 DEF M
    <3>4. CASE Kid(x, e, m) # s
      <4>1. Kid(y, e, m) = Kid(x, e, m)
        BY <3>4 DEF M
      <4> QED BY <1>11, <3>1, <3>2, <3>4, <4>1
    <3> QED BY <3>3, <3>4
  <2> QED BY <1>3, <2>1, <2>2 DEF Spanned
<1>14. Detached(y, v)
  BY <1>3 DEF Detached, M
<1>15. Parented(y, v)
  <2>0. /\ s \in M /\ s \in Nodes /\ c # s
        /\ \A e, m : e \in Sides /\ m \in M /\ Kid(x, e, m) # Sentinel => Kid(x, e, m) \in M /\ Kid(x, e, m) # m
                                                                         /\ Kid(x, e, m) # Root(x)
        /\ \A e, m : e \in Sides /\ m \in M /\ Kid(x, e, m) # Sentinel => Par(x, Kid(x, e, m)) = m
        /\ \A m : m \in M /\ m # Root(x) => Par(x, m) \in M /\ SideOf(x, m) \in Sides /\ Kid(x, SideOf(x, m), Par(x, m)) = m
        /\ c \in M \cup {Sentinel}
        /\ c # Sentinel => Par(x, c) = s
    BY <1>1, KidIs, ParentIs, Mirror DEF M
  <2>1. ASSUME NEW e \in Sides, NEW m \in M \ {s}, Kid(y, e, m) # Sentinel PROVE Par(y, Kid(y, e, m)) = m
    <3>1. CASE Kid(x, e, m) = s
      <4>1. Kid(y, e, m) = c /\ s # Root(x) /\ Par(x, s) = m
        BY <1>1, <2>0, <3>1, Apart DEF M
      <4> QED BY <2>1, <4>1
    <3>2. CASE Kid(x, e, m) # s
      <4>1. Kid(y, e, m) = Kid(x, e, m)
        BY <3>2 DEF M
      <4>2. Kid(x, e, m) # c /\ Kid(x, e, m) \in M /\ Par(x, Kid(x, e, m)) = m
        BY <2>0, <2>1, <4>1
      <4> QED BY <3>2, <4>1, <4>2 DEF M
    <3> QED BY <3>1, <3>2
  <2>2. ASSUME NEW m \in M \ {s}, m # Root(y)
        PROVE  Par(y, m) \in M \ {s} /\ \E e : e \in Sides /\ Kid(y, e, Par(y, m)) = m
    <3>1. CASE m = c
      <4>1. s # Root(x) /\ c # Sentinel
        BY <1>1, <2>2, <3>1
      <4>2. Par(y, m) = Par(x, s) /\ Par(x, s) \in M /\ Par(x, s) # s /\ Kid(x, SideOf(x, s), Par(x, s)) = s /\ SideOf(x, s) \in Sides
        BY <1>1, <2>0, <3>1, <4>1, ParentIs DEF M
      <4>3. Kid(y, SideOf(x, s), Par(x, s)) = m
        BY <3>1, <4>2 DEF M
      <4> QED BY <4>2, <4>3
    <3>2. CASE m # c
      <4>1. m # Root(x)
        BY <2>2, <3>2
      <4>2. Par(y, m) = Par(x, m) /\ Par(x, m) \in M /\ Kid(x, SideOf(x, m), Par(x, m)) = m /\ SideOf(x, m) \in Sides
        BY <2>0, <3>2, <4>1 DEF M
      <4>3. Par(x, m) # s
        <5>1. Par(x, m) = s => SideOf(x, m) = d \/ SideOf(x, m) = Other(d)
          BY <4>2, Mirror
        <5> QED BY <1>1, <3>2, <4>2, <5>1
      <4>4. Kid(y, SideOf(x, m), Par(x, m)) = m
        BY <4>2, <4>3 DEF M
      <4> QED BY <4>2, <4>3, <4>4
    <3> QED BY <3>1, <3>2
  <2> QED BY <1>3, <2>1, <2>2 DEF Parented
<1> QED BY <1>9, <1>10, <1>13, <1>14, <1>15 DEF Shape, v

\* s, which is no member, gets the number of n.
Rename(w, n, s) ==
    Layout((Members(w) \ {n}) \cup {s}, Size(w),
           [m \in Nodes |-> IF m = s THEN Pos(w, n) ELSE Pos(w, m)],
           [e \in Sides |-> [m \in Nodes |-> IF m = s THEN Bnd(w, e, n) ELSE Bnd(w, e, m)]])

\* The parts of a layout in which a node took the place of another.
LEMMA RenameIs ==
    ASSUME NEW w \in Layouts, NEW n \in Nodes, NEW s \in Nodes
    PROVE  /\ Rename(w, n, s) \in Layouts
           /\ Members(Rename(w, n, s)) = (Members(w) \ {n}) \cup {s} /\ Size(Rename(w, n, s)) = Size(w)
           /\ \A m : m \in Nodes => Pos(Rename(w, n, s), m) = IF m = s THEN Pos(w, n) ELSE Pos(w, m)
           /\ \A e, m : e \in Sides /\ m \in Nodes =>
                 Bnd(Rename(w, n, s), e, m) = IF m = s THEN Bnd(w, e, n) ELSE Bnd(w, e, m)
<1> DEFINE p == [m \in Nodes |-> IF m = s THEN Pos(w, n) ELSE Pos(w, m)]
           b == [e \in Sides |-> [m \in Nodes |-> IF m = s THEN Bnd(w, e, n) ELSE Bnd(w, e, m)]]
<1>1. p \in [Nodes -> Int] /\ b \in [Sides -> [Nodes -> Int]]
  BY LayoutTypes
<1>2. (Members(w) \ {n}) \cup {s} \in SUBSET Nodes /\ Size(w) \in Nat
  BY LayoutTypes
<1>3. /\ \A m : m \in Nodes => p[m] = IF m = s THEN Pos(w, n) ELSE Pos(w, m)
      /\ \A e, m : e \in Sides /\ m \in Nodes => b[e][m] = IF m = s THEN Bnd(w, e, n) ELSE Bnd(w, e, m)
  OBVIOUS
<1>4. Rename(w, n, s) = Layout((Members(w) \ {n}) \cup {s}, Size(w), p, b)
  BY DEF Rename
<1> HIDE DEF p, b
<1> QED BY <1>1, <1>2, <1>3, <1>4, LayoutIs

\* s takes the place of n.
LEMMA RenameShape ==
    ASSUME NEW x, NEW w, Shape(x, w), NEW n \in Members(w), NEW s \in Nodes \ Members(w), NEW y \in Trees,
           Root(y) = IF Root(x) = n THEN s ELSE Root(x),
           \A e : e \in Sides => Kid(y, e, s) = Kid(x, e, n),
           \A e, m : e \in Sides /\ m \in Members(w) \ {n} =>
               Kid(y, e, m) = IF Kid(x, e, m) = n THEN s ELSE Kid(x, e, m),
           \A e, m : e \in Sides /\ m \in Places \ (Members(w) \cup {s}) => Kid(y, e, m) = None,
           \A e : e \in Sides => Kid(y, e, n) = None,
           Par(y, s) = Par(x, n),
           \A m : m \in Members(w) \ {n, Root(x)} => Par(y, m) = IF Par(x, m) = n THEN s ELSE Par(x, m)
    PROVE  Shape(y, Rename(w, n, s))
<1> DEFINE M == Members(w)
           v == Rename(w, n, s)
<1>1. /\ w \in Layouts /\ x \in Trees /\ M \subseteq Nodes /\ Size(w) \in Nat
      /\ n \in M /\ s \notin M /\ s \in Nodes /\ s # n /\ s # Sentinel
      /\ \A m : m \in M => m \in Nodes /\ m \in Places /\ m # Sentinel /\ m # s
  BY LayoutTypes, Apart DEF Shape, Numbered
<1>2. /\ v \in Layouts /\ Members(v) = (M \ {n}) \cup {s} /\ Size(v) = Size(w)
      /\ Pos(v, s) = Pos(w, n)
      /\ \A e : e \in Sides => Bnd(v, e, s) = Bnd(w, e, n)
      /\ \A m : m \in M => Pos(v, m) = Pos(w, m)
      /\ \A e, m : e \in Sides /\ m \in M => Bnd(v, e, m) = Bnd(w, e, m)
  BY <1>1, RenameIs
<1> HIDE DEF M, v
<1>3. Numbered(v)
  <2>1. \A m : m \in Members(v) =>
          /\ 0 <= Bnd(v, "left", m) /\ Bnd(v, "left", m) < Pos(v, m)
          /\ Pos(v, m) < Bnd(v, "right", m) /\ Bnd(v, "right", m) <= Size(v) + 1
    BY <1>1, <1>2, LeftRight DEF Shape, Numbered, M
  <2>2. \A m, k : m \in Members(v) /\ k \in Members(v) /\ Pos(v, m) = Pos(v, k) => m = k
    <3>1. \A m, k : m \in M /\ k \in M /\ Pos(w, m) = Pos(w, k) => m = k
      BY DEF Shape, Numbered, M
    <3> QED BY <1>1, <1>2, <3>1
  <2>3. ASSUME NEW i \in 1 .. Size(v) PROVE \E m : m \in Members(v) /\ Pos(v, m) = i
    <3>1. PICK m : m \in M /\ Pos(w, m) = i
      BY <1>2 DEF Shape, Numbered, M
    <3> QED BY <1>1, <1>2, <3>1
  <2> QED BY <1>2, <2>1, <2>2, <2>3 DEF Numbered
<1>4. Nested(v)
  <2>1. \A m, k : m \in M /\ k \in M =>
          \/ m = k \/ Below(w, m, k) \/ Below(w, k, m)
          \/ Bnd(w, "right", m) <= Bnd(w, "left", k) \/ Bnd(w, "right", k) <= Bnd(w, "left", m)
    BY DEF Shape, Nested, M
  <2>2. ASSUME NEW k \in M \ {n}, NEW m \in M \ {n}
        PROVE  \/ m = k \/ Below(v, m, k) \/ Below(v, k, m)
               \/ Bnd(v, "right", m) <= Bnd(v, "left", k) \/ Bnd(v, "right", k) <= Bnd(v, "left", m)
    BY <1>2, <2>1, LeftRight DEF Below
  <2>3. ASSUME NEW m \in M \ {n}
        PROVE  \/ Below(v, m, s) \/ Below(v, s, m)
               \/ Bnd(v, "right", m) <= Bnd(v, "left", s) \/ Bnd(v, "right", s) <= Bnd(v, "left", m)
    BY <1>1, <1>2, <2>1, LeftRight DEF Below
  <2> QED BY <1>2, <2>2, <2>3 DEF Nested
<1>5. ASSUME NEW c, NEW e \in Sides, NEW a, NEW b, Spans(w, c, e, a, b)
      PROVE  Spans(v, IF c = n THEN s ELSE c, e, a, b)
  BY <1>1, <1>2, <1>5, Mirror DEF Spans, M
<1>6. Spanned(y, v)
  <2>1. Spans(v, Root(y), "left", 0, Size(v) + 1)
    <3>1. Spans(w, Root(x), "left", 0, Size(w) + 1)
      BY DEF Shape, Spanned
    <3> QED BY <1>2, <1>5, <3>1, LeftRight
  <2>2. ASSUME NEW e \in Sides, NEW m \in (M \ {n}) \cup {s}
        PROVE  Spans(v, Kid(y, e, m), e, Bnd(v, e, m), Pos(v, m))
    <3>1. \A k : k \in M => Spans(w, Kid(x, e, k), e, Bnd(w, e, k), Pos(w, k))
      BY DEF Shape, Spanned, M
    <3>2. CASE m = s
      <4>1. Kid(x, e, n) # n
        BY <1>1, KidIs DEF M
      <4>2. Spans(v, Kid(x, e, n), e, Bnd(w, e, n), Pos(w, n))
        BY <1>1, <1>5, <3>1, <4>1
      <4> QED BY <1>2, <3>2, <4>2
    <3>3. CASE m # s
      <4>1. m \in M \ {n}
        BY <3>3
      <4>2. Kid(y, e, m) = IF Kid(x, e, m) = n THEN s ELSE Kid(x, e, m)
        BY <4>1 DEF M
      <4>3. Spans(v, Kid(y, e, m), e, Bnd(w, e, m), Pos(w, m))
        BY <1>5, <3>1, <4>1, <4>2
      <4> QED BY <1>2, <4>1, <4>3
    <3> QED BY <3>2, <3>3
  <2> QED BY <1>2, <2>1, <2>2 DEF Spanned
<1>7. Detached(y, v)
  BY <1>2 DEF Detached, M
<1>8. Parented(y, v)
  <2>0. /\ \A e, m : e \in Sides /\ m \in M /\ Kid(x, e, m) # Sentinel => Kid(x, e, m) \in M \ {Root(x)} /\ Kid(x, e, m) # m
        /\ \A e, m : e \in Sides /\ m \in M /\ Kid(x, e, m) # Sentinel => Par(x, Kid(x, e, m)) = m
        /\ \A m : m \in M /\ m # Root(x) => /\ Par(x, m) \in M /\ Par(x, m) # m /\ SideOf(x, m) \in Sides
                                            /\ Kid(x, SideOf(x, m), Par(x, m)) = m
    BY <1>1, KidIs, ParentIs DEF M
  <2>1. ASSUME NEW e \in Sides, NEW m \in (M \ {n}) \cup {s}, Kid(y, e, m) # Sentinel PROVE Par(y, Kid(y, e, m)) = m
    <3>1. CASE m = s
      <4>1. Kid(y, e, m) = Kid(x, e, n) /\ Kid(x, e, n) \in M \ {Root(x)} /\ Kid(x, e, n) # n /\ Par(x, Kid(x, e, n)) = n
        BY <1>1, <2>0, <2>1, <3>1
      <4> QED BY <3>1, <4>1 DEF M
    <3>2. CASE m # s /\ Kid(x, e, m) = n
      <4>1. Kid(y, e, m) = s /\ Par(x, n) = m
        BY <1>1, <2>0, <3>2 DEF M
      <4> QED BY <4>1
    <3>3. CASE m # s /\ Kid(x, e, m) # n
      <4>1. Kid(y, e, m) = Kid(x, e, m) /\ m \in M /\ m # n
        BY <3>3 DEF M
      <4>2. Kid(x, e, m) \in M \ {n, Root(x)} /\ Par(x, Kid(x, e, m)) = m
        BY <2>0, <2>1, <3>3, <4>1
      <4> QED BY <4>1, <4>2 DEF M
    <3> QED BY <3>1, <3>2, <3>3
  <2>2. ASSUME NEW m \in (M \ {n}) \cup {s}, m # Root(y)
        PROVE  Par(y, m) \in (M \ {n}) \cup {s} /\ \E e : e \in Sides /\ Kid(y, e, Par(y, m)) = m
    <3>1. CASE m = s
      <4>1. n # Root(x)
        BY <2>2, <3>1
      <4>2. Par(y, m) = Par(x, n) /\ Par(x, n) \in M /\ Par(x, n) # n /\ Kid(x, SideOf(x, n), Par(x, n)) = n /\ SideOf(x, n) \in Sides
        BY <1>1, <2>0, <3>1, <4>1
      <4>3. Kid(y, SideOf(x, n), Par(x, n)) = m
        BY <3>1, <4>2 DEF M
      <4> QED BY <4>2, <4>3
    <3>2. CASE m # s
      <4>1. m # Root(x) /\ m \in M /\ m # n
        BY <2>2, <3>2
      <4>2. Par(x, m) \in M /\ Kid(x, SideOf(x, m), Par(x, m)) = m /\ SideOf(x, m) \in Sides
        BY <2>0, <4>1
      <4>3. CASE Par(x, m) = n
        <5>1. Par(y, m) = s /\ Kid(y, SideOf(x, m), s) = m
          BY <4>1, <4>2, <4>3 DEF M
        <5> QED BY <4>2, <5>1
      <4>4. CASE Par(x, m) # n
        <5>1. Par(y, m) = Par(x, m) /\ Kid(y, SideOf(x, m), Par(x, m)) = m
          BY <4>1, <4>2, <4>4 DEF M
        <5> QED BY <4>2, <4>4, <5>1
      <4> QED BY <4>3, <4>4
    <3> QED BY <3>1, <3>2
  <2> QED BY <1>2, <2>1, <2>2 DEF Parented
<1> QED BY <1>3, <1>4, <1>6, <1>7, <1>8 DEF Shape, v

-----------------------------------------------------------------------------
(* What rbtree_min returns. *)

\* The node at position i.
At(w, i) == CHOOSE n \in Members(w) : Pos(w, n) = i

\* Every position has one node.
LEMMA AtIs ==
    ASSUME NEW w, Numbered(w)
    PROVE  /\ \A i : i \in 1 .. Size(w) => At(w, i) \in Members(w) /\ Pos(w, At(w, i)) = i
           /\ \A n : n \in Members(w) => At(w, Pos(w, n)) = n
<1>1. \A i : i \in 1 .. Size(w) => At(w, i) \in Members(w) /\ Pos(w, At(w, i)) = i
  <2> SUFFICES ASSUME NEW i \in 1 .. Size(w) PROVE At(w, i) \in Members(w) /\ Pos(w, At(w, i)) = i
    OBVIOUS
  <2>1. \E n \in Members(w) : Pos(w, n) = i
    BY DEF Numbered
  <2> QED BY <2>1 DEF At
<1>2. ASSUME NEW n \in Members(w) PROVE At(w, Pos(w, n)) = n
  <2>1. At(w, Pos(w, n)) \in Members(w) /\ Pos(w, At(w, Pos(w, n))) = Pos(w, n)
    BY DEF At
  <2> QED BY <2>1 DEF Numbered
<1> QED BY <1>1, <1>2

\* The types of a shape, and the order of the bounds of its nodes.
LEMMA ShapeTypes ==
    ASSUME NEW x, NEW w, Shape(x, w)
    PROVE  /\ x \in Trees /\ w \in Layouts /\ Members(w) \subseteq Nodes /\ Size(w) \in Nat
           /\ \A m : m \in Members(w) => /\ m \in Nodes /\ m \in Places /\ m # Sentinel
                                         /\ Bnd(w, "left", m) \in Int /\ Bnd(w, "right", m) \in Int
                                         /\ Pos(w, m) \in Int /\ Pos(w, m) \in 1 .. Size(w)
                                         /\ 0 <= Bnd(w, "left", m) /\ Bnd(w, "left", m) < Pos(w, m)
                                         /\ Pos(w, m) < Bnd(w, "right", m) /\ Bnd(w, "right", m) <= Size(w) + 1
<1>1. /\ x \in Trees /\ w \in Layouts /\ Members(w) \subseteq Nodes /\ Size(w) \in Nat
      /\ \A m : m \in Members(w) => m \in Nodes /\ m \in Places /\ m # Sentinel
  BY LayoutTypes, Apart DEF Shape, Numbered
<1> QED BY <1>1, LayoutTypes, LeftRight DEF Shape, Numbered

\* A kid is the sentinel, or a node whose bounds are the bound and the position
\* of its parent.
LEMMA KidOrNot ==
    ASSUME NEW x, NEW w, Shape(x, w), NEW d \in Sides, NEW n \in Members(w)
    PROVE  \/ /\ Kid(x, d, n) = Sentinel
              /\ d = "left" => Pos(w, n) = Bnd(w, "left", n) + 1
              /\ d = "right" => Bnd(w, "right", n) = Pos(w, n) + 1
           \/ /\ Kid(x, d, n) \in Members(w)
              /\ Bnd(w, d, Kid(x, d, n)) = Bnd(w, d, n) /\ Bnd(w, Other(d), Kid(x, d, n)) = Pos(w, n)
              /\ d = "left" => Pos(w, n) > Bnd(w, "left", n) + 1
              /\ d = "right" => Bnd(w, "right", n) > Pos(w, n) + 1
<1>1. Spans(w, Kid(x, d, n), d, Bnd(w, d, n), Pos(w, n))
  BY DEF Shape, Spanned
<1>2. n \in Members(w)
  OBVIOUS
<1> QED BY <1>1, <1>2, ShapeTypes, LeftRight DEF Spans

\* f is the search of rbtree_min.
LeftmostEqn(x, f) ==
    f = [m \in Nodes |-> IF Kid(x, "left", m) \in Nodes THEN f[Kid(x, "left", m)] ELSE m]

\* The first node of the subtree of c.
LEMMA MinIs ==
    ASSUME NEW x, NEW w, Shape(x, w), NEW c \in Members(w)
    PROVE  rbtree_min(x, c) \in Members(w) /\ Pos(w, rbtree_min(x, c)) = Bnd(w, "left", c) + 1
<1> DEFINE M == Members(w)
           first(m) == At(w, Bnd(w, "left", m) + 1)
           g == [m \in Nodes |-> IF m \in M THEN first(m) ELSE m]
           f == CHOOSE f : LeftmostEqn(x, f)
<1>1. rbtree_min(x, c) = f[c]
  BY DEF rbtree_min, LeftmostEqn, Kid
<1>2. /\ \A m : m \in M => /\ m \in Nodes /\ Bnd(w, "left", m) \in Nat /\ Pos(w, m) \in Nat /\ Bnd(w, "left", m) < Pos(w, m)
                           /\ Bnd(w, "left", m) + 1 \in 1 .. Size(w)
      /\ \A m : m \in M => \/ /\ Kid(x, "left", m) = Sentinel
                              /\ Pos(w, m) = Bnd(w, "left", m) + 1
                           \/ /\ Kid(x, "left", m) \in M
                              /\ Bnd(w, "left", Kid(x, "left", m)) = Bnd(w, "left", m)
                              /\ Pos(w, Kid(x, "left", m)) < Pos(w, m)
  <2>1. /\ M \subseteq Nodes /\ Size(w) \in Nat
        /\ \A m : m \in M => /\ m \in Nodes
                             /\ Bnd(w, "left", m) \in Int /\ Bnd(w, "right", m) \in Int /\ Pos(w, m) \in Int
                             /\ 0 <= Bnd(w, "left", m) /\ Bnd(w, "left", m) < Pos(w, m)
                             /\ Pos(w, m) < Bnd(w, "right", m) /\ Bnd(w, "right", m) <= Size(w) + 1
    BY ShapeTypes
  <2> QED BY <2>1, KidOrNot, LeftRight
<1>3. \A m : m \in M => first(m) \in M /\ Pos(w, first(m)) = Bnd(w, "left", m) + 1
  BY <1>2, AtIs DEF Shape
<1>4. \A m : m \in M /\ Kid(x, "left", m) = Sentinel => first(m) = m
  <2> SUFFICES ASSUME NEW m \in M, Kid(x, "left", m) = Sentinel PROVE first(m) = m
    OBVIOUS
  <2>1. Bnd(w, "left", m) + 1 = Pos(w, m)
    BY <1>2, Apart
  <2> QED BY <2>1, AtIs DEF Shape
<1>5. \A m : m \in Nodes \ M => Kid(x, "left", m) = None
  BY Apart, LeftRight DEF Shape, Detached
<1> HIDE DEF M, first
<1>6. LeftmostEqn(x, g)
  <2>1. ASSUME NEW m \in Nodes
        PROVE  g[m] = IF Kid(x, "left", m) \in Nodes THEN g[Kid(x, "left", m)] ELSE m
    <3>1. CASE m \in M /\ Kid(x, "left", m) \in M
      <4>1. Kid(x, "left", m) \in Nodes /\ first(Kid(x, "left", m)) = first(m)
        BY <1>2, <3>1, Apart DEF first
      <4> QED BY <3>1, <4>1
    <3>2. CASE m \in M /\ Kid(x, "left", m) = Sentinel
      BY <1>2, <1>4, <3>2, Apart
    <3>3. CASE m \notin M
      BY <1>5, <3>3, Apart
    <3> QED BY <1>2, <3>1, <3>2, <3>3
  <2> QED BY <2>1 DEF LeftmostEqn
<1>7. LeftmostEqn(x, f)
  BY <1>6
<1> HIDE DEF f, g
<1>8. \A m : m \in M => f[m] = IF Kid(x, "left", m) \in Nodes THEN f[Kid(x, "left", m)] ELSE m
  BY <1>2, <1>7 DEF LeftmostEqn
<1>9. \A m : m \in M => f[m] = first(m)
  <2> SUFFICES ASSUME NEW b \in M, f[b] # first(b) PROVE FALSE
    OBVIOUS
  <2> DEFINE Bad == {m \in M : f[m] # first(m)}
             T == {Pos(w, m) : m \in Bad}
  <2>1. T \in SUBSET Nat /\ T # {}
    BY <1>2
  <2>2. PICK i \in T : \A j \in T : i <= j
    BY <2>1, LeastNumber
  <2>3. PICK m \in Bad : Pos(w, m) = i
    OBVIOUS
  <2>4. CASE Kid(x, "left", m) = Sentinel
    BY <1>4, <1>8, <2>3, <2>4, Apart
  <2>5. CASE Kid(x, "left", m) \in M
    <3>1. Pos(w, Kid(x, "left", m)) < Pos(w, m) /\ Kid(x, "left", m) \in Nodes /\ Bnd(w, "left", Kid(x, "left", m)) = Bnd(w, "left", m)
      BY <1>2, <2>3, <2>5, Apart
    <3>2. Kid(x, "left", m) \notin Bad
      <4>1. ASSUME NEW k \in Bad PROVE Pos(w, m) <= Pos(w, k)
        BY <2>2, <2>3
      <4>2. Pos(w, m) \in Nat /\ Pos(w, Kid(x, "left", m)) \in Nat
        BY <1>2, <2>3, <2>5
      <4> HIDE DEF Bad
      <4> QED BY <3>1, <4>1, <4>2
    <3> QED BY <1>8, <2>3, <2>5, <3>1, <3>2 DEF first
  <2> QED BY <1>2, <2>3, <2>4, <2>5
<1> QED BY <1>1, <1>3, <1>9 DEF M, first

-----------------------------------------------------------------------------
(* The deletion. *)

\* A node whose links are cleared.
LEMMA ClearEffect ==
    /\ \A x, n : x \in Trees /\ n \in Places =>
          /\ Clear(x, n) \in Trees
          /\ Root(Clear(x, n)) = Root(x)
          /\ Reds(Clear(x, n)) = Reds(x)
    /\ \A x, n, m : x \in Trees /\ n \in Places /\ m \in Places =>
          Par(Clear(x, n), m) = IF m = n THEN None ELSE Par(x, m)
    /\ \A x, n, e, m : x \in Trees /\ n \in Places /\ e \in Sides /\ m \in Places =>
          Kid(Clear(x, n), e, m) = IF m = n THEN None ELSE Kid(x, e, m)
<1>1. \A x, n : Clear(x, n) = SetParent(SetKids(x, n, None, None), n, None)
  BY DEF Clear
<1>2. None \in Places \cup {None}
  OBVIOUS
<1> QED BY <1>1, <1>2, SetKidsEffect, SetParentEffect

\* What Inherit does, as the record's parts see it.
Inherited(x, n, s, y) ==
    /\ y \in Trees /\ Root(y) = Root(x)
    /\ Reds(y) = IF n \in Reds(x) THEN Reds(x) \cup {s} ELSE Reds(x) \ {s}
    /\ \A m : m \in Places => Par(y, m) = IF m = s THEN Par(x, n) ELSE Par(x, m)
    /\ \A e, m : e \in Sides /\ m \in Places => Kid(y, e, m) = IF m = s THEN Kid(x, e, n) ELSE Kid(x, e, m)

\* The substitute has the links and the colour of the deleted node.
LEMMA InheritEffect ==
    ASSUME NEW x \in Trees, NEW n \in Places, NEW s \in Places, NEW y, y = Inherit(x, n, s)
    PROVE  Inherited(x, n, s, y)
<1> DEFINE b == Kid(x, "left", n)
           c == Kid(x, "right", n)
           p == Par(x, n)
           r == x.red[n]
           x1 == SetKids(x, s, b, c)
           x2 == SetParent(x1, s, p)
<1>1. y = SetRed(x2, s, r)
  BY DEF Inherit, Kid, Par
<1>2. b \in Places \cup {None} /\ c \in Places \cup {None} /\ p \in Places \cup {None}
  BY TreeTypes, LeftRight
<1>3. r \in BOOLEAN
  BY DEF Trees
<1>4. r <=> n \in Reds(x)
  BY DEF Reds
<1>5. \A e : e \in Sides => Kid(x, e, n) = IF e = "left" THEN b ELSE c
  BY LeftRight
<1> HIDE DEF b, c, p, r
<1>6. /\ x1 \in Trees /\ Root(x1) = Root(x) /\ Reds(x1) = Reds(x)
      /\ \A m : m \in Places => Par(x1, m) = Par(x, m)
      /\ \A e, m : e \in Sides /\ m \in Places => Kid(x1, e, m) = IF m = s THEN Kid(x, e, n) ELSE Kid(x, e, m)
  BY <1>2, <1>5, SetKidsEffect
<1> HIDE DEF x1
<1>7. /\ x2 \in Trees /\ Root(x2) = Root(x) /\ Reds(x2) = Reds(x)
      /\ \A m : m \in Places => Par(x2, m) = IF m = s THEN p ELSE Par(x, m)
      /\ \A e, m : e \in Sides /\ m \in Places => Kid(x2, e, m) = Kid(x1, e, m)
  BY <1>2, <1>6, SetParentEffect
<1> HIDE DEF x2
<1>8. y \in Trees /\ Root(y) = Root(x) /\ Reds(y) = IF r THEN Reds(x) \cup {s} ELSE Reds(x) \ {s}
  BY <1>1, <1>3, <1>7, SetRedEffect
<1>9. /\ \A m : m \in Places => Par(y, m) = Par(x2, m)
      /\ \A e, m : e \in Sides /\ m \in Places => Kid(y, e, m) = Kid(x2, e, m)
  BY <1>1, <1>7, SetRedEffect
<1>10. Reds(y) = IF n \in Reds(x) THEN Reds(x) \cup {s} ELSE Reds(x) \ {s}
  BY <1>4, <1>8
<1> QED BY <1>6, <1>7, <1>8, <1>9, <1>10 DEF p, Inherited

\* y is x after s took the place of n.
TookOver(x, n, s, y) ==
    /\ y \in Trees /\ Root(y) = IF n = Root(x) THEN s ELSE Root(x)
    /\ Reds(y) = IF n \in Reds(x) THEN Reds(x) \cup {s} ELSE Reds(x) \ {s}
    /\ \A e : e \in Sides => Kid(y, e, n) = None /\ Kid(y, e, s) = Kid(x, e, n)
    /\ \A e, m : e \in Sides /\ m \in Places \ {n, s} =>
           Kid(y, e, m) = IF n # Root(x) /\ e = SideOf(x, n) /\ m = Par(x, n) THEN s ELSE Kid(x, e, m)
    /\ Par(y, s) = Par(x, n)
    /\ \A m : m \in Places \ {n, s} =>
           Par(y, m) = IF m # Sentinel /\ \E e : e \in Sides /\ m = Kid(x, e, n) THEN s ELSE Par(x, m)

\* The substitute replaces the deleted node in all links to it.
LEMMA TakeOverEffect ==
    ASSUME NEW x \in Trees, NEW n \in Nodes, NEW s \in Nodes \ {n},
           \A e : e \in Sides => Kid(x, e, n) \in Places \ {n, s},
           n = Root(x) \/ Par(x, n) \in Places \ {n, s},
           NEW y, y = Clear(TakeOver(x, n, s), n)
    PROVE  TookOver(x, n, s, y)
<1> DEFINE b == Kid(x, "left", n)
           c == Kid(x, "right", n)
           x1 == Inherit(x, n, s)
           x2 == Replace(x1, n, s)
           x3 == Adopt(x2, b, s)
           x4 == Adopt(x3, c, s)
<1>1. y = Clear(x4, n)
  BY DEF TakeOver, Kid
<1>2. /\ n \in Places /\ s \in Places /\ n # s
      /\ b \in Places /\ c \in Places /\ b \notin {n, s} /\ c \notin {n, s}
  BY Apart, LeftRight
<1>3. /\ x1 \in Trees /\ Root(x1) = Root(x)
      /\ Reds(x1) = IF n \in Reds(x) THEN Reds(x) \cup {s} ELSE Reds(x) \ {s}
      /\ \A m : m \in Places => Par(x1, m) = IF m = s THEN Par(x, n) ELSE Par(x, m)
      /\ \A e, m : e \in Sides /\ m \in Places => Kid(x1, e, m) = IF m = s THEN Kid(x, e, n) ELSE Kid(x, e, m)
  <2>1. x1 = Inherit(x, n, s) /\ x \in Trees
    OBVIOUS
  <2> HIDE DEF x1, b, c
  <2>2. Inherited(x, n, s, x1)
    BY <1>2, <2>1, InheritEffect
  <2> QED BY <2>2 DEF Inherited
<1> HIDE DEF x1
<1>4. Par(x1, n) = Par(x, n) /\ (n # Root(x) => SideOf(x1, n) = SideOf(x, n))
  BY <1>2, <1>3, SideIs, LeftRight
<1>5. /\ x2 \in Trees /\ Root(x2) = (IF n = Root(x) THEN s ELSE Root(x)) /\ Reds(x2) = Reds(x1)
      /\ \A m : m \in Places => Par(x2, m) = Par(x1, m)
      /\ \A e, m : e \in Sides /\ m \in Places =>
             Kid(x2, e, m) = IF n # Root(x) /\ e = SideOf(x, n) /\ m = Par(x, n) THEN s ELSE Kid(x1, e, m)
  BY <1>2, <1>3, <1>4, ReplaceEffect
<1> HIDE DEF x2
<1>6. /\ x3 \in Trees /\ Root(x3) = Root(x2) /\ Reds(x3) = Reds(x1)
      /\ \A m : m \in Places => Par(x3, m) = IF m = b /\ m # Sentinel THEN s ELSE Par(x1, m)
      /\ \A e, m : e \in Sides /\ m \in Places => Kid(x3, e, m) = Kid(x2, e, m)
  BY <1>2, <1>5, AdoptEffect
<1> HIDE DEF x3
<1>7. /\ x4 \in Trees /\ Root(x4) = Root(x2) /\ Reds(x4) = Reds(x1)
      /\ \A m : m \in Places => Par(x4, m) = IF m = c /\ m # Sentinel THEN s ELSE Par(x3, m)
      /\ \A e, m : e \in Sides /\ m \in Places => Kid(x4, e, m) = Kid(x2, e, m)
  BY <1>2, <1>6, AdoptEffect
<1> HIDE DEF x4
<1>8. /\ y \in Trees /\ Root(y) = Root(x2) /\ Reds(y) = Reds(x1)
      /\ \A m : m \in Places => Par(y, m) = IF m = n THEN None ELSE Par(x4, m)
      /\ \A e, m : e \in Sides /\ m \in Places => Kid(y, e, m) = IF m = n THEN None ELSE Kid(x2, e, m)
  BY <1>1, <1>2, <1>7, ClearEffect
<1>9. \A m : (\E e : e \in Sides /\ m = Kid(x, e, n)) <=> m = b \/ m = c
  BY LeftRight
<1>10. \A m : m \in Places \ {n, s} =>
           Par(y, m) = IF m # Sentinel /\ \E e : e \in Sides /\ m = Kid(x, e, n) THEN s ELSE Par(x, m)
  BY <1>3, <1>6, <1>7, <1>8, <1>9
<1>11. Par(y, s) = Par(x, n)
  BY <1>2, <1>3, <1>6, <1>7, <1>8
<1>12. \A e : e \in Sides => Kid(y, e, n) = None /\ Kid(y, e, s) = Kid(x, e, n)
  BY <1>2, <1>3, <1>5, <1>8
<1>13. \A e, m : e \in Sides /\ m \in Places \ {n, s} =>
           Kid(y, e, m) = IF n # Root(x) /\ e = SideOf(x, n) /\ m = Par(x, n) THEN s ELSE Kid(x, e, m)
  BY <1>3, <1>5, <1>8
<1> QED BY <1>3, <1>5, <1>8, <1>10, <1>11, <1>12, <1>13 DEF TookOver

\* What is known of the substitute and of its child that takes its place.
LEMMA SubstituteIs ==
    ASSUME NEW x, NEW w, Shape(x, w), NEW n \in Members(w),
           NEW s, s = Substitute(x, n), NEW c, c = Orphan(x, n, s)
    PROVE  /\ s \in Members(w)
           /\ \E d : d \in Sides /\ Kid(x, d, s) = Sentinel /\ c = Kid(x, Other(d), s)
           /\ s # n => /\ \A e : e \in Sides => Kid(x, e, n) \in Members(w) /\ Kid(x, e, n) # n
                       /\ Kid(x, "left", n) # s
                       /\ Pos(w, s) = Pos(w, n) + 1 /\ Bnd(w, "left", s) = Pos(w, n)
                       /\ s # Root(x)
                       /\ Kid(x, "left", s) = Sentinel
<1> DEFINE M == Members(w)
           l == Kid(x, "left", n)
           r == Kid(x, "right", n)
<1>1. /\ s = IF l = Sentinel \/ r = Sentinel THEN n ELSE rbtree_min(x, r)
      /\ c = IF s = n THEN IF l = Sentinel THEN r ELSE l
             ELSE IF Kid(x, "left", s) # Sentinel THEN Kid(x, "left", s) ELSE Kid(x, "right", s)
  BY DEF Substitute, Orphan, Kid
<1>2. \A m : m \in M => /\ m \in Nodes /\ m # Sentinel
                        /\ Bnd(w, "left", m) \in Int /\ Bnd(w, "right", m) \in Int /\ Pos(w, m) \in Int
                        /\ 0 <= Bnd(w, "left", m) /\ Bnd(w, "left", m) < Pos(w, m)
                        /\ Pos(w, m) < Bnd(w, "right", m)
  BY ShapeTypes
<1>3. CASE l = Sentinel \/ r = Sentinel
  <2>1. s = n /\ c = IF l = Sentinel THEN r ELSE l
    BY <1>1, <1>3
  <2> QED BY <1>3, <2>1, LeftRight
<1>4. CASE l # Sentinel /\ r # Sentinel
  <2>1. s = rbtree_min(x, r)
    BY <1>1, <1>4
  <2>2. /\ r \in M /\ Bnd(w, "left", r) = Pos(w, n)
        /\ l \in M /\ Bnd(w, "right", l) = Pos(w, n)
    BY <1>4, KidIs, LeftRight
  <2>3. s \in M /\ Pos(w, s) = Pos(w, n) + 1
    BY <2>1, <2>2, MinIs
  <2>4. s # n /\ s # l
    BY <1>2, <2>2, <2>3
  <2>5. Pos(w, n) <= Bnd(w, "left", s)
    <3>1. \/ s = n \/ Below(w, s, n) \/ Below(w, n, s)
          \/ Bnd(w, "right", s) <= Bnd(w, "left", n) \/ Bnd(w, "right", n) <= Bnd(w, "left", s)
      BY <2>3 DEF Shape, Nested
    <3>2. \/ s = r \/ Below(w, s, r) \/ Below(w, r, s)
          \/ Bnd(w, "right", s) <= Bnd(w, "left", r) \/ Bnd(w, "right", r) <= Bnd(w, "left", s)
      BY <2>2, <2>3 DEF Shape, Nested
    <3> HIDE DEF M, r, l
    <3> QED BY <1>2, <2>2, <2>3, <2>4, <3>1, <3>2 DEF Below
  <2>6. Bnd(w, "left", s) = Pos(w, n)
    BY <1>2, <2>3, <2>5
  <2>7. Kid(x, "left", s) = Sentinel
    BY <1>2, <2>3, <2>6, KidOrNot, LeftRight
  <2>8. s # Root(x)
    <3>1. s = Root(x) => Bnd(w, "left", s) = 0
      BY <2>3, <1>2 DEF Shape, Spanned, Spans
    <3> QED BY <1>2, <2>3, <2>6, <3>1
  <2>9. \A e : e \in Sides => Kid(x, e, n) \in M /\ Kid(x, e, n) # n
    BY <1>4, KidIs, LeftRight
  <2>10. c = Kid(x, "right", s)
    BY <1>1, <2>4, <2>7
  <2> QED BY <2>3, <2>4, <2>6, <2>7, <2>8, <2>9, <2>10, LeftRight
<1> QED BY <1>3, <1>4

\* Where the node m of the tree without n was before, and what hangs there now
\* where k hung before.
Before(n, s, m) == IF m = s THEN n ELSE m
Now(n, s, c, k) == IF k = s THEN c ELSE IF k = n THEN s ELSE k

\* A deletion takes one node out of the layout, and leaves the others in order.
LEMMA DeleteShape ==
    ASSUME NEW x, NEW w, Shape(x, w), NEW n \in Members(w),
           NEW s, s = Substitute(x, n), NEW c, c = Orphan(x, n, s),
           NEW y, y = IF s = Root(x) THEN Clear(Black(SetRoot(x, c), c), n) ELSE Clear(Unlink(x, n, s, c), n)
    PROVE  /\ Root(y) = Now(n, s, c, Root(x))
           /\ Reds(y) = IF s = Root(x) THEN Reds(x) \ {c}
                        ELSE IF s = n THEN Reds(x)
                        ELSE IF n \in Reds(x) THEN Reds(x) \cup {s} ELSE Reds(x) \ {s}
           /\ \A e, m : e \in Sides /\ m \in Members(w) \ {n} => Kid(y, e, m) = Now(n, s, c, Kid(x, e, Before(n, s, m)))
           /\ s # Root(x) => Par(y, c) = IF s # n /\ Par(x, s) = n THEN s ELSE Par(x, s)
           /\ \E v : /\ Shape(y, v) /\ Members(v) = Members(w) \ {n}
                     /\ \A a, b : /\ a \in Members(v) /\ b \in Members(v) /\ Pos(v, a) < Pos(v, b)
                                  => Pos(w, a) < Pos(w, b)
<1> DEFINE M == Members(w)
<1>1. /\ w \in Layouts /\ x \in Trees /\ M \subseteq Nodes /\ Size(w) \in Nat /\ n \in M
      /\ \A m : m \in M => m \in Nodes /\ m \in Places /\ m # Sentinel
  BY ShapeTypes
<1>2. /\ s \in M
      /\ s # n => /\ \A e : e \in Sides => Kid(x, e, n) \in M /\ Kid(x, e, n) # n
                  /\ Kid(x, "left", n) # s
                  /\ Pos(w, s) = Pos(w, n) + 1 /\ Bnd(w, "left", s) = Pos(w, n)
                  /\ s # Root(x)
  BY SubstituteIs
<1>3. PICK d \in Sides : Kid(x, d, s) = Sentinel /\ c = Kid(x, Other(d), s)
  BY SubstituteIs
<1>4. /\ c \in M \cup {Sentinel} /\ c # s /\ c \in Places
      /\ c # Sentinel => Par(x, c) = s /\ c # Root(x)
  BY <1>1, <1>2, <1>3, KidIs, Mirror, Apart
<1>5. \A a, b : a \in M /\ b \in M /\ Pos(w, a) = Pos(w, b) => a = b
  BY DEF Shape, Numbered
<1>6. \A a : a \in M => Pos(w, a) \in Int /\ Pos(w, a) \in 1 .. Size(w)
  BY ShapeTypes
<1>7. /\ Shrink(w, s) \in Layouts
      /\ Members(Shrink(w, s)) = Members(w) \ {s}
      /\ \A m : m \in M => Pos(Shrink(w, s), m) = IF Pos(w, m) > Pos(w, s) THEN Pos(w, m) - 1 ELSE Pos(w, m)
  <2>1. w \in Layouts /\ s \in Nodes /\ Size(w) # 0
    BY <1>1, <1>2, <1>6
  <2> QED BY <1>1, <1>2, <1>6, <2>1, ShrinkIs, EarlierIs
<1>8. \A e, m : e \in Sides /\ m \in M \ {s} /\ Kid(x, e, m) = s => s # Root(x) /\ m = Par(x, s) /\ e = SideOf(x, s)
  BY <1>1, <1>2, KidIs DEF M
<1>9. s # Root(x) => Par(x, s) \in M /\ Par(x, s) # s /\ SideOf(x, s) \in Sides /\ Kid(x, SideOf(x, s), Par(x, s)) = s
  BY <1>2, ParentIs
<1>10. \A e, m : e \in Sides /\ m \in Places \ M => Kid(x, e, m) = None
  BY DEF Shape, Detached
<1> HIDE DEF M
<1>11. CASE s = n
  <2>1. /\ y \in Trees /\ Root(y) = Now(n, s, c, Root(x))
        /\ Reds(y) = IF s = Root(x) THEN Reds(x) \ {c} ELSE Reds(x)
        /\ \A e, m : e \in Sides /\ m \in Places \ {n} => Kid(y, e, m) = IF Kid(x, e, m) = s THEN c ELSE Kid(x, e, m)
        /\ \A e : e \in Sides => Kid(y, e, n) = None
        /\ \A m : m \in Places \ {n} => Par(y, m) = IF m = c /\ s # Root(x) THEN Par(x, s) ELSE Par(x, m)
    <3>1. CASE s = Root(x)
      <4> DEFINE x1 == SetRoot(x, c)
                 x2 == Black(x1, c)
      <4>1. y = Clear(x2, n)
        BY <3>1
      <4>2. /\ x1 \in Trees /\ Root(x1) = c /\ Reds(x1) = Reds(x)
            /\ \A m : Par(x1, m) = Par(x, m)
            /\ \A e, m : Kid(x1, e, m) = Kid(x, e, m)
        BY <1>1, <1>4, SetRootEffect
      <4> HIDE DEF x1
      <4>3. /\ x2 \in Trees /\ Root(x2) = c /\ Reds(x2) = Reds(x) \ {c}
            /\ \A m : Par(x2, m) = Par(x, m)
            /\ \A e, m : Kid(x2, e, m) = Kid(x, e, m)
        BY <1>4, <4>2, ColourEffect
      <4> HIDE DEF x2
      <4>4. n \in Places
        BY <1>1
      <4>5. \A e, m : e \in Sides /\ m \in Places \ {n} => Kid(x, e, m) # s
        BY <1>8, <1>10, <1>11, <3>1, Apart, <1>1, <1>2
      <4>6. /\ y \in Trees /\ Root(y) = c /\ Reds(y) = Reds(x) \ {c}
            /\ \A m : m \in Places => Par(y, m) = IF m = n THEN None ELSE Par(x, m)
            /\ \A e, m : e \in Sides /\ m \in Places => Kid(y, e, m) = IF m = n THEN None ELSE Kid(x, e, m)
        BY <4>1, <4>3, <4>4, ClearEffect
      <4> QED BY <1>11, <3>1, <4>4, <4>5, <4>6 DEF Now
    <3>2. CASE s # Root(x)
      <4> DEFINE x1 == Replace(x, s, c)
                 x2 == SetParent(x1, c, Par(x, s))
      <4>1. y = Clear(x2, n)
        BY <1>11, <3>2 DEF Unlink, Par
      <4>2. /\ x1 \in Trees /\ Root(x1) = Root(x) /\ Reds(x1) = Reds(x)
            /\ \A m : m \in Places => Par(x1, m) = Par(x, m)
            /\ \A e, m : e \in Sides /\ m \in Places => Kid(x1, e, m) = IF e = SideOf(x, s) /\ m = Par(x, s) THEN c ELSE Kid(x, e, m)
        BY <1>1, <1>4, <1>9, <3>2, ReplaceEffect
      <4> HIDE DEF x1
      <4>3. /\ x2 \in Trees /\ Root(x2) = Root(x) /\ Reds(x2) = Reds(x)
            /\ \A m : m \in Places => Par(x2, m) = IF m = c THEN Par(x, s) ELSE Par(x, m)
            /\ \A e, m : e \in Sides /\ m \in Places => Kid(x2, e, m) = Kid(x1, e, m)
        BY <1>1, <1>4, <1>9, <3>2, <4>2, SetParentEffect
      <4> HIDE DEF x2
      <4>4. n \in Places
        BY <1>1
      <4>5. \A e, m : e \in Sides /\ m \in Places \ {n} => (Kid(x, e, m) = s <=> e = SideOf(x, s) /\ m = Par(x, s))
        BY <1>1, <1>2, <1>8, <1>9, <1>10, <1>11, <3>2, Apart
      <4>6. /\ y \in Trees /\ Root(y) = Root(x) /\ Reds(y) = Reds(x)
            /\ \A m : m \in Places => Par(y, m) = IF m = n THEN None ELSE Par(x2, m)
            /\ \A e, m : e \in Sides /\ m \in Places => Kid(y, e, m) = IF m = n THEN None ELSE Kid(x1, e, m)
        BY <4>1, <4>3, <4>4, ClearEffect
      <4> QED BY <1>11, <3>2, <4>2, <4>3, <4>4, <4>5, <4>6 DEF Now
    <3> QED BY <3>1, <3>2
  <2>2. Shape(y, Shrink(w, s))
    <3>1. \A e, m : e \in Sides /\ m \in M \ {s} => Kid(y, e, m) = IF Kid(x, e, m) = s THEN c ELSE Kid(x, e, m)
      BY <1>1, <1>11, <2>1
    <3>2. \A e, m : e \in Sides /\ m \in Places \ (M \ {s}) => Kid(y, e, m) = None
      BY <1>1, <1>2, <1>10, <1>11, <2>1, Apart
    <3>3. /\ \A m : m \in M \ {s} /\ m # c => Par(y, m) = Par(x, m)
          /\ c # Sentinel /\ s # Root(x) => Par(y, c) = Par(x, s)
          /\ Root(y) = IF s = Root(x) THEN c ELSE Root(x)
      BY <1>1, <1>4, <1>11, <2>1 DEF Now
    <3> QED BY <1>2, <1>3, <2>1, <3>1, <3>2, <3>3, SpliceShape DEF M
  <2>3. \A a, b : /\ a \in M \ {n} /\ b \in M \ {n} /\ Pos(Shrink(w, s), a) < Pos(Shrink(w, s), b)
                  => Pos(w, a) < Pos(w, b)
    BY <1>2, <1>5, <1>6, <1>7, <1>11
  <2>4. \A e, m : e \in Sides /\ m \in M \ {n} => Kid(y, e, m) = Now(n, s, c, Kid(x, e, Before(n, s, m)))
    BY <1>1, <1>11, <2>1 DEF Now, Before
  <2> QED BY <1>4, <1>7, <1>11, <2>1, <2>2, <2>3, <2>4 DEF M
<1>12. CASE s # n
  <2>1. /\ \A e : e \in Sides => Kid(x, e, n) \in M /\ Kid(x, e, n) # n
        /\ Kid(x, "left", n) # s
        /\ Pos(w, s) = Pos(w, n) + 1 /\ Bnd(w, "left", s) = Pos(w, n)
        /\ s # Root(x) /\ s \in Nodes /\ n \in Nodes /\ n \in Places /\ s \in Places
    BY <1>1, <1>2, <1>12
  <2> DEFINE p  == Par(x, s)
             up == IF p = n THEN s ELSE p
             z  == Replace(x, s, c)
             x0 == SetParent(z, c, p)
             z0 == Clear(x0, s)
             x1 == SetParent(z, c, up)
             u  == Shrink(w, s)
  <2>2. y = Clear(TakeOver(x1, n, s), n)
    BY <1>12, <2>1 DEF Unlink, Par
  <2>3. /\ p \in M /\ p \in Places /\ p # s /\ up \in Places
        /\ \A e, m : e \in Sides /\ m \in M => (Kid(x, e, m) = s <=> e = SideOf(x, s) /\ m = p)
    BY <1>1, <1>2, <1>8, <1>9, <2>1, KidIs DEF M
  <2>4. /\ z \in Trees /\ Root(z) = Root(x) /\ Reds(z) = Reds(x)
        /\ \A m : m \in Places => Par(z, m) = Par(x, m)
        /\ \A e, m : e \in Sides /\ m \in Places => Kid(z, e, m) = IF e = SideOf(x, s) /\ m = p THEN c ELSE Kid(x, e, m)
    BY <1>1, <1>4, <1>9, <2>1, <2>3, ReplaceEffect DEF p
  <2> HIDE DEF p, z, up
  <2>5. /\ x0 \in Trees /\ Root(x0) = Root(x) /\ Reds(x0) = Reds(x)
        /\ \A m : m \in Places => Par(x0, m) = IF m = c THEN p ELSE Par(x, m)
        /\ \A e, m : e \in Sides /\ m \in Places => Kid(x0, e, m) = Kid(z, e, m)
    BY <1>4, <2>3, <2>4, SetParentEffect
  <2>6. /\ x1 \in Trees /\ Root(x1) = Root(x) /\ Reds(x1) = Reds(x)
        /\ \A m : m \in Places => Par(x1, m) = IF m = c THEN up ELSE Par(x, m)
        /\ \A e, m : e \in Sides /\ m \in Places => Kid(x1, e, m) = Kid(z, e, m)
    BY <1>4, <2>3, <2>4, SetParentEffect
  <2> HIDE DEF x0, x1
  <2>7. /\ z0 \in Trees /\ Root(z0) = Root(x) /\ Reds(z0) = Reds(x)
        /\ \A m : m \in Places => Par(z0, m) = IF m = s THEN None ELSE Par(x0, m)
        /\ \A e, m : e \in Sides /\ m \in Places => Kid(z0, e, m) = IF m = s THEN None ELSE Kid(z, e, m)
    BY <2>1, <2>5, ClearEffect
  <2> HIDE DEF z0, u
  <2>8. \A e, m : e \in Sides /\ m \in M => Kid(z, e, m) = IF Kid(x, e, m) = s THEN c ELSE Kid(x, e, m)
    BY <1>1, <2>3, <2>4
  <2>9. Shape(z0, u)
    <3>1. \A e, m : e \in Sides /\ m \in M \ {s} => Kid(z0, e, m) = IF Kid(x, e, m) = s THEN c ELSE Kid(x, e, m)
      BY <1>1, <2>7, <2>8
    <3>2. \A e, m : e \in Sides /\ m \in Places \ (M \ {s}) => Kid(z0, e, m) = None
      BY <1>10, <2>1, <2>3, <2>4, <2>7
    <3>3. /\ \A m : m \in M \ {s} /\ m # c => Par(z0, m) = Par(x, m)
          /\ c # Sentinel /\ s # Root(x) => Par(z0, c) = Par(x, s)
          /\ Root(z0) = IF s = Root(x) THEN c ELSE Root(x)
      BY <1>1, <1>4, <2>1, <2>5, <2>7 DEF p
    <3> QED BY <1>2, <1>3, <2>7, <3>1, <3>2, <3>3, SpliceShape DEF M, u
  \* Nothing links n with s and c but what the parents say.
  <2>10. /\ c # n /\ (n = Root(x) \/ Par(x, n) # s)
         /\ \A e : e \in Sides => Kid(z, e, n) \in Places \ {n, s}
         /\ n # Root(x) => /\ Par(x, n) \in M /\ Par(x, n) # n /\ SideOf(x, n) \in Sides
                           /\ Kid(x, SideOf(x, n), Par(x, n)) = n
                           /\ \A e, m : e \in Sides /\ m \in M /\ Kid(x, e, m) = n => e = SideOf(x, n) /\ m = Par(x, n)
         /\ n = Root(x) => \A e, m : e \in Sides /\ m \in M => Kid(x, e, m) # n
    <3>1. n # Root(x) => /\ Par(x, n) \in M /\ Par(x, n) # n /\ SideOf(x, n) \in Sides
                         /\ Kid(x, SideOf(x, n), Par(x, n)) = n
                         /\ \A e, m : e \in Sides /\ m \in M /\ Kid(x, e, m) = n => e = SideOf(x, n) /\ m = Par(x, n)
      BY <1>1, ParentIs DEF M
    <3>2. n = Root(x) => \A e, m : e \in Sides /\ m \in M => Kid(x, e, m) # n
      BY <1>1, KidIs DEF M
    <3>3. \A e : e \in Sides => Kid(x, e, s) # n
      <4> SUFFICES ASSUME NEW e \in Sides, Kid(x, e, s) = n PROVE FALSE
        OBVIOUS
      <4>1. Bnd(w, e, n) = Bnd(w, e, s) /\ Bnd(w, Other(e), n) = Pos(w, s)
        BY <1>1, <1>2, KidIs DEF M
      <4>2. Bnd(w, "right", n) = Pos(w, s) \/ Bnd(w, "left", n) = Pos(w, s)
        BY <4>1, LeftRight
      <4>3. /\ Bnd(w, "left", n) < Pos(w, n) /\ Bnd(w, "left", n) \in Int /\ Bnd(w, "right", n) \in Int /\ Pos(w, n) \in Int
            /\ Kid(x, "right", n) # Sentinel
        BY <1>1, <2>1, ShapeTypes, LeftRight DEF M
      <4>4. Bnd(w, "right", n) > Pos(w, n) + 1
        BY <1>1, <4>3, KidOrNot, LeftRight DEF M
      <4> QED BY <2>1, <4>2, <4>3, <4>4
    <3>4. c # n
      BY <1>3, <3>3, Mirror
    <3>5. n = Root(x) \/ Par(x, n) # s
      BY <3>1, <3>3
    <3>6. \A e : e \in Sides => Kid(z, e, n) \in Places \ {n, s}
      BY <1>1, <1>4, <2>1, <2>8, <3>4
    <3> QED BY <3>1, <3>2, <3>4, <3>5, <3>6
  <2>11. n # Root(x) => SideOf(x1, n) = SideOf(x, n)
    <3> SUFFICES ASSUME n # Root(x) PROVE SideOf(x1, n) = SideOf(x, n)
      OBVIOUS
    <3>1. Par(x1, n) = Par(x, n) /\ Par(x, n) \in M /\ Par(x, n) \in Places
      BY <1>1, <2>1, <2>6, <2>10
    <3>2. Kid(x1, "left", Par(x, n)) = IF Kid(x, "left", Par(x, n)) = s THEN c ELSE Kid(x, "left", Par(x, n))
      BY <2>6, <2>8, <3>1, LeftRight
    <3> QED BY <1>12, <2>10, <3>1, <3>2, SideIs
  <2>12. /\ y \in Trees /\ Root(y) = IF n = Root(x) THEN s ELSE Root(x)
         /\ Reds(y) = IF n \in Reds(x) THEN Reds(x) \cup {s} ELSE Reds(x) \ {s}
         /\ \A e : e \in Sides => Kid(y, e, n) = None /\ Kid(y, e, s) = Kid(z, e, n)
         /\ \A e, m : e \in Sides /\ m \in Places \ {n, s} =>
                Kid(y, e, m) = IF n # Root(x) /\ e = SideOf(x, n) /\ m = Par(x, n) THEN s ELSE Kid(z, e, m)
         /\ Par(y, s) = Par(x, n)
         /\ \A m : m \in Places \ {n, s} =>
                Par(y, m) = IF m # Sentinel /\ \E e : e \in Sides /\ m = Kid(z, e, n) THEN s ELSE Par(x1, m)
    <3>1. /\ x1 \in Trees /\ n \in Nodes /\ s \in Nodes \ {n}
          /\ \A e : e \in Sides => Kid(x1, e, n) \in Places \ {n, s}
          /\ n = Root(x1) \/ Par(x1, n) \in Places \ {n, s}
          /\ Par(x1, n) = Par(x, n) /\ Root(x1) = Root(x) /\ Reds(x1) = Reds(x)
      BY <1>1, <1>12, <2>1, <2>6, <2>10
    <3>2. TookOver(x1, n, s, y)
      BY <2>2, <3>1, TakeOverEffect
    <3> QED BY <2>1, <2>6, <2>11, <3>1, <3>2 DEF TookOver
  <2>13. \A e, m : e \in Sides /\ m \in M \ {n, s} =>
             Kid(y, e, m) = IF Kid(z, e, m) = n THEN s ELSE Kid(z, e, m)
    BY <1>1, <1>12, <2>8, <2>10, <2>12
  <2>14. \A m : m \in M \ {n, s, Root(x)} => Par(y, m) = IF Par(z0, m) = n THEN s ELSE Par(z0, m)
    <3> SUFFICES ASSUME NEW m \in M \ {n, s, Root(x)}
                 PROVE  Par(y, m) = IF Par(z0, m) = n THEN s ELSE Par(z0, m)
      OBVIOUS
    <3>1. /\ Par(y, m) = IF \E e : e \in Sides /\ m = Kid(z, e, n) THEN s ELSE IF m = c THEN up ELSE Par(x, m)
          /\ Par(z0, m) = IF m = c THEN p ELSE Par(x, m)
      BY <1>1, <2>5, <2>6, <2>7, <2>12
    <3>2. /\ Par(x, m) \in M /\ SideOf(x, m) \in Sides /\ Kid(x, SideOf(x, m), Par(x, m)) = m
          /\ \A e : e \in Sides /\ Kid(x, e, n) = m => Par(x, m) = n
      BY <1>1, ParentIs DEF M
    <3>3. CASE m = c
      <4>1. up = IF p = n THEN s ELSE p
        BY DEF up
      <4>2. p # n => \A e : e \in Sides => Kid(x, e, n) # s
        BY <1>1, <2>3
      <4>3. \A e : e \in Sides => Kid(x, e, n) # m
        BY <1>1, <1>4, <1>12, <3>2, <3>3
      <4> QED BY <1>1, <2>8, <3>1, <3>3, <4>1, <4>2, <4>3
    <3>4. CASE m # c
      BY <1>1, <2>8, <3>1, <3>2, <3>4
    <3> QED BY <3>3, <3>4
  <2>15. /\ Shape(y, Rename(u, n, s)) /\ Members(Rename(u, n, s)) = M \ {n}
         /\ \A m : m \in M \ {n, s} => Pos(Rename(u, n, s), m) = Pos(u, m)
         /\ Pos(Rename(u, n, s), s) = Pos(u, n)
    <3>1. Members(u) = M \ {s} /\ n \in Members(u) /\ s \in Nodes \ Members(u) /\ u \in Layouts
      BY <1>1, <1>7, <1>12, <2>1 DEF u, M
    <3>2. Root(y) = IF Root(z0) = n THEN s ELSE Root(z0)
      BY <2>7, <2>12
    <3>3. /\ \A e : e \in Sides => Kid(y, e, s) = Kid(z0, e, n) /\ Kid(y, e, n) = None
          /\ \A e, m : e \in Sides /\ m \in Members(u) \ {n} =>
                 Kid(y, e, m) = IF Kid(z0, e, m) = n THEN s ELSE Kid(z0, e, m)
      BY <1>1, <1>12, <2>1, <2>7, <2>12, <2>13, <3>1
    <3>4. \A e, m : e \in Sides /\ m \in Places \ (Members(u) \cup {s}) => Kid(y, e, m) = None
      <4>1. \A e, m : e \in Sides /\ m \in Places \ M => Kid(z, e, m) = None
        BY <1>10, <2>3, <2>4
      <4>2. \A m : m \in Places \ M => ~(n # Root(x) /\ m = Par(x, n))
        BY <2>10
      <4>3. \A m : m \in Places \ (Members(u) \cup {s}) => m \in Places \ M /\ m # n /\ m # s
        BY <1>1, <1>2, <3>1
      <4> QED BY <2>12, <4>1, <4>2, <4>3
    <3>5. Par(y, s) = Par(z0, n)
      BY <1>12, <2>1, <2>5, <2>7, <2>10, <2>12
    <3>6. \A m : m \in Members(u) \ {n, Root(z0)} => Par(y, m) = IF Par(z0, m) = n THEN s ELSE Par(z0, m)
      BY <2>7, <2>14, <3>1
    <3>7. Shape(y, Rename(u, n, s))
      BY <2>9, <2>12, <3>1, <3>2, <3>3, <3>4, <3>5, <3>6, RenameShape
    <3> QED BY <1>1, <1>2, <1>12, <2>1, <3>1, <3>7, RenameIs
  <2>16. \A a, b : /\ a \in M \ {n} /\ b \in M \ {n} /\ Pos(Rename(u, n, s), a) < Pos(Rename(u, n, s), b)
                   => Pos(w, a) < Pos(w, b)
    <3>1. \A m : m \in M => Pos(u, m) = IF Pos(w, m) > Pos(w, s) THEN Pos(w, m) - 1 ELSE Pos(w, m)
      BY <1>7 DEF u
    <3>2. Pos(Rename(u, n, s), s) = Pos(w, n) /\ n \in M /\ s \in M /\ Pos(w, s) = Pos(w, n) + 1 /\ Pos(w, n) \in Int
      <4>1. /\ Pos(w, n) \in Int /\ Pos(w, s) \in Int /\ Pos(w, s) = Pos(w, n) + 1
            /\ Pos(u, n) = IF Pos(w, n) > Pos(w, s) THEN Pos(w, n) - 1 ELSE Pos(w, n)
        BY <1>1, <1>2, <1>6, <1>12, <3>1
      <4>2. Pos(u, n) = Pos(w, n)
        BY <4>1
      <4>3. Pos(Rename(u, n, s), s) = Pos(u, n)
        BY <2>15
      <4>4. n \in M /\ s \in M
        BY <1>1, <1>2
      <4> QED BY <4>1, <4>2, <4>3, <4>4
    <3>3. \A m : m \in M \ {n, s} => Pos(w, m) # Pos(w, n) /\ Pos(w, m) # Pos(w, s) /\ Pos(w, m) \in Int
              /\ Pos(Rename(u, n, s), m) = IF Pos(w, m) > Pos(w, s) THEN Pos(w, m) - 1 ELSE Pos(w, m)
      BY <1>1, <1>2, <1>5, <1>6, <2>15, <3>1
    <3> QED BY <3>2, <3>3
  <2>17. \A e, m : e \in Sides /\ m \in M \ {n} => Kid(y, e, m) = Now(n, s, c, Kid(x, e, Before(n, s, m)))
    <3> SUFFICES ASSUME NEW e \in Sides, NEW m \in M \ {n}
                 PROVE  Kid(y, e, m) = Now(n, s, c, Kid(x, e, Before(n, s, m)))
      OBVIOUS
    <3>1. CASE m = s
      BY <1>1, <2>1, <2>8, <2>10, <2>12, <3>1 DEF Now, Before
    <3>2. CASE m # s
      BY <1>1, <1>12, <2>8, <2>10, <2>13, <3>2 DEF Now, Before
    <3> QED BY <3>1, <3>2
  <2>18. Par(y, c) = IF s # n /\ Par(x, s) = n THEN s ELSE Par(x, s)
    <3>1. c \in Places \ {n, s}
      BY <1>4, <2>10
    <3>2. Par(x1, c) = up
      BY <1>4, <2>6
    <3>3. (\E e : e \in Sides /\ c = Kid(z, e, n)) /\ c # Sentinel => up = s
      <4> SUFFICES ASSUME NEW e \in Sides, c = Kid(z, e, n), c # Sentinel PROVE up = s
        OBVIOUS
      <4>1. Kid(x, e, n) = s \/ Kid(x, e, n) = c
        BY <1>1, <2>8
      <4>2. Kid(x, e, n) # c
        BY <1>1, <1>4, <1>12, KidIs DEF M
      <4>3. p = n
        BY <1>1, <2>3, <4>1, <4>2
      <4> QED BY <4>3 DEF up
    <3> QED BY <1>12, <2>12, <3>1, <3>2, <3>3 DEF up, p
  <2>19. Root(y) = Now(n, s, c, Root(x))
    BY <2>1, <2>12 DEF Now
  <2> QED BY <1>12, <2>1, <2>12, <2>15, <2>16, <2>17, <2>18, <2>19 DEF M
<1> QED BY <1>11, <1>12

-----------------------------------------------------------------------------
(* Heights and colours. *)

\* A height for every place.
Heights == [Places -> Nat]

Hgt(h, n) == h[n]

\* h[n] black nodes of M are on every path down from n, where the subtree on
\* side hd of hp counts for one more than it has.
Balanced(x, M, h, hd, hp) ==
    /\ h \in Heights /\ Hgt(h, Sentinel) = 0 /\ Sentinel \notin Reds(x)
    /\ \A d, n : d \in Sides /\ n \in M =>
          Hgt(h, n) = Hgt(h, Kid(x, d, n)) + (IF n \in Reds(x) THEN 0 ELSE 1)
                                           + (IF d = hd /\ n = hp THEN 1 ELSE 0)

\* The root is black, and so are the children of red nodes, but for low as a
\* root or child and for high as a parent.
Painted(x, M, low, high) ==
    /\ Root(x) \in Reds(x) => Root(x) = low
    /\ \A d, n : d \in Sides /\ n \in M /\ n \in Reds(x) /\ Kid(x, d, n) \in Reds(x)
                 => Kid(x, d, n) = low \/ n = high

\* Heights are numbers.
LEMMA HeightsIs ==
    /\ \A h, n : h \in Heights /\ n \in Places => Hgt(h, n) \in Nat
    /\ \A f : (\A n \in Places : f[n] \in Nat) => [n \in Places |-> f[n]] \in Heights
BY DEF Heights, Hgt

\* Two heights changed.
Raise(h, m, i, n, j) == [k \in Places |-> IF k = m THEN i ELSE IF k = n THEN j ELSE h[k]]

\* What changing two heights gives.
LEMMA RaiseIs ==
    ASSUME NEW h \in Heights, NEW m, NEW i \in Nat, NEW n, NEW j \in Nat
    PROVE  /\ Raise(h, m, i, n, j) \in Heights
           /\ \A k : k \in Places => Hgt(Raise(h, m, i, n, j), k) = IF k = m THEN i ELSE IF k = n THEN j ELSE Hgt(h, k)
BY DEF Raise, Heights, Hgt

\* What is known of the links of a shape.
LEMMA Links ==
    ASSUME NEW x, NEW w, Shape(x, w)
    PROVE  /\ \A e, m : e \in Sides /\ m \in Members(w) =>
                  /\ Kid(x, e, m) \in Members(w) \cup {Sentinel} /\ Kid(x, e, m) \in Places
                  /\ Kid(x, e, m) # Root(x) \/ Kid(x, e, m) = Sentinel
                  /\ Kid(x, e, m) # m
                  /\ Kid(x, e, m) # Sentinel => Par(x, Kid(x, e, m)) = m /\ SideOf(x, Kid(x, e, m)) = e
           /\ Sentinel \notin Members(w) /\ Root(x) \in Members(w) \cup {Sentinel}
           /\ \A m : m \in Members(w) => m \in Places /\ m \in Nodes
<1>1. \A e, m : e \in Sides /\ m \in Members(w) => Kid(x, e, m) \in Members(w) \cup {Sentinel}
  BY DEF Shape, Spanned, Spans
<1>2. Root(x) \in Members(w) \cup {Sentinel}
  BY DEF Shape, Spanned, Spans
<1>3. \A m : m \in Members(w) => m \in Nodes /\ m \in Places /\ m # Sentinel
  BY ShapeTypes
<1> QED BY <1>1, <1>2, <1>3, KidIs, Apart

\* rbtree_insert, the uncle u is red: p and u become black, and g red.
LEMMA InsertClimb ==
    ASSUME NEW x, NEW w, Shape(x, w), NEW n, n \in Members(w), NEW p, p \in Members(w), NEW g, g \in Members(w),
           NEW d \in Sides, NEW u, u = Kid(x, Other(d), g), p = Kid(x, d, g), p = Par(x, n), n # Root(x),
           p \in Reds(x), u \in Reds(x), g \notin Reds(x),
           NEW h, NEW hd, Balanced(x, Members(w), h, hd, None), Painted(x, Members(w), n, None),
           NEW y, Reds(y) = ((Reds(x) \ {p}) \ {u}) \cup {g}, Root(y) = Root(x),
           \A e, m : e \in Sides /\ m \in Places => Kid(y, e, m) = Kid(x, e, m)
    PROVE  /\ \E h1 : /\ Balanced(y, Members(w), h1, hd, None)
                     /\ Hgt(h1, Root(y)) = Hgt(h, Root(x)) /\ Hgt(h1, g) = Hgt(h, n) + 1
           /\ Painted(y, Members(w), g, None)
<1> DEFINE M == Members(w)
           h1 == Raise(h, p, Hgt(h, p) + 1, u, Hgt(h, u) + 1)
<1>1. /\ \A e, m : e \in Sides /\ m \in M =>
             /\ Kid(x, e, m) \in M \cup {Sentinel} /\ Kid(x, e, m) \in Places /\ Kid(x, e, m) # m
             /\ Kid(x, e, m) # Root(x) \/ Kid(x, e, m) = Sentinel
             /\ Kid(x, e, m) # Sentinel => Par(x, Kid(x, e, m)) = m /\ SideOf(x, Kid(x, e, m)) = e
      /\ Sentinel \notin M /\ Root(x) \in M \cup {Sentinel}
      /\ \A m : m \in M => m \in Places /\ m # None
  BY Links, Apart
<1>2. /\ u # Sentinel /\ p # Sentinel /\ u \in M /\ p \in M /\ g \in M
      /\ u # p /\ u # g /\ p # g /\ Par(x, u) = g /\ Par(x, p) = g /\ u \in Places /\ p \in Places
  <2>1. u # Sentinel /\ p # Sentinel
    BY <1>1 DEF Balanced
  <2>2. Other(d) \in Sides /\ Other(d) # d
    BY Mirror
  <2>3. u \in M /\ u # g /\ p # g /\ Par(x, u) = g /\ Par(x, p) = g /\ SideOf(x, u) = Other(d) /\ SideOf(x, p) = d
    <3>1. p # g /\ Par(x, p) = g /\ SideOf(x, p) = d
      <4>1. p = Kid(x, d, g) /\ g \in Members(w)
        OBVIOUS
      <4>2. Kid(x, d, g) # Sentinel
        BY <2>1, <4>1
      <4>3. Kid(x, d, g) # g /\ Par(x, Kid(x, d, g)) = g /\ SideOf(x, Kid(x, d, g)) = d
        BY <4>1, <4>2, KidIs
      <4> QED BY <4>1, <4>3
    <3>2. u \in M /\ u # g /\ Par(x, u) = g /\ SideOf(x, u) = Other(d)
      BY <2>1, <2>2, KidIs
    <3> QED BY <3>1, <3>2
  <2> QED BY <1>1, <2>1, <2>2, <2>3
<1>3. /\ h \in Heights /\ \A m : m \in Places => Hgt(h, m) \in Nat
      /\ Hgt(h, Sentinel) = 0 /\ Sentinel \notin Reds(x)
      /\ \A e, m : e \in Sides /\ m \in M => Hgt(h, m) = Hgt(h, Kid(x, e, m)) + (IF m \in Reds(x) THEN 0 ELSE 1)
  BY <1>1, HeightsIs DEF Balanced
<1>4. /\ h1 \in Heights
      /\ \A k : k \in Places => Hgt(h1, k) = IF k = p THEN Hgt(h, p) + 1 ELSE IF k = u THEN Hgt(h, u) + 1 ELSE Hgt(h, k)
  <2>1. Hgt(h, p) + 1 \in Nat /\ Hgt(h, u) + 1 \in Nat
    BY <1>2, <1>3
  <2> QED BY <1>3, <2>1, RaiseIs
<1> HIDE DEF M, h1
<1>5. Balanced(y, M, h1, hd, None)
  <2>1. Hgt(h1, Sentinel) = 0 /\ Sentinel \notin Reds(y)
    BY <1>1, <1>2, <1>3, <1>4, Apart DEF M
  <2>2. ASSUME NEW e \in Sides, NEW m \in M
        PROVE  Hgt(h1, m) = Hgt(h1, Kid(y, e, m)) + (IF m \in Reds(y) THEN 0 ELSE 1) + (IF e = hd /\ m = None THEN 1 ELSE 0)
    <3>1. Kid(y, e, m) = Kid(x, e, m) /\ m # None /\ Kid(x, e, m) \in Places /\ Hgt(h, Kid(x, e, m)) \in Nat /\ Hgt(h, m) \in Nat
      BY <1>1, <1>3
    <3>2. CASE m = g
      <4>1. Kid(x, e, m) = p \/ Kid(x, e, m) = u
        BY <3>2, Mirror
      <4> QED BY <1>1, <1>2, <1>3, <1>4, <3>1, <3>2, <4>1
    <3>3. CASE m # g
      <4>1. Kid(x, e, m) # p /\ Kid(x, e, m) # u
        BY <1>1, <1>2, <3>3
      <4> QED BY <1>1, <1>2, <1>3, <1>4, <3>1, <3>3, <4>1
    <3> QED BY <3>2, <3>3
  <2> QED BY <1>4, <2>1, <2>2 DEF Balanced
<1>6. Painted(y, M, g, None)
  <2>1. Root(x) \notin Reds(x)
    BY DEF Painted
  <2>2. ASSUME NEW e \in Sides, NEW m \in M, m \in Reds(y), Kid(y, e, m) \in Reds(y), Kid(y, e, m) # g PROVE FALSE
    <3>1. Kid(y, e, m) = Kid(x, e, m) /\ Kid(x, e, m) \in Reds(x) /\ Kid(x, e, m) # p /\ Kid(x, e, m) # u /\ m # p
      BY <1>1, <2>2
    <3>2. m # g
      BY <3>1, Mirror
    <3>3. m \in Reds(x) /\ Kid(x, e, m) = n
      BY <1>1, <2>2, <3>1, <3>2 DEF Painted, M
    <3>4. Par(x, n) = m
      BY <1>1, <3>3 DEF M
    <3> QED BY <3>1, <3>4
  <2> QED BY <2>1, <2>2 DEF Painted
<1>7. Hgt(h1, Root(y)) = Hgt(h, Root(x)) /\ Hgt(h1, g) = Hgt(h, n) + 1
  <2>1. p # Root(x) /\ u # Root(x) /\ Root(x) \in Places
    <3>1. Root(x) \in Places
      <4>1. Sentinel \in Places
        BY Apart
      <4> QED BY <1>1, <4>1
    <3>2. Other(d) \in Sides /\ p = Kid(x, d, g) /\ u = Kid(x, Other(d), g) /\ g \in M
      BY <1>2, Mirror
    <3> QED BY <1>1, <1>2, <3>1, <3>2
  <2>2. Hgt(h, p) = Hgt(h, n)
    <3>1. SideOf(x, n) \in Sides /\ Kid(x, SideOf(x, n), p) = n
      BY ParentIs
    <3>2. Hgt(h, p) = Hgt(h, n) + 0 /\ Hgt(h, n) \in Nat
      BY <1>1, <1>2, <1>3, <3>1
    <3> QED BY <3>2
  <2>3. Hgt(h, g) = Hgt(h, p) + 1
    <3>1. g \in M /\ p = Kid(x, d, g) /\ d \in Sides
      BY <1>2
    <3> QED BY <1>3, <3>1
  <2>4. g # p /\ g # u /\ g \in Places
    BY <1>1, <1>2
  <2> QED BY <1>4, <2>1, <2>2, <2>3, <2>4
<1> QED BY <1>5, <1>6, <1>7 DEF M

\* What is known of the links and the heights of a shape.
LEMMA HeightFacts ==
    ASSUME NEW x, NEW w, Shape(x, w), NEW M, M = Members(w), NEW h, NEW hd, NEW hp, Balanced(x, M, h, hd, hp)
    PROVE  /\ \A e, m : e \in Sides /\ m \in M =>
                  /\ Kid(x, e, m) \in M \cup {Sentinel} /\ Kid(x, e, m) \in Places /\ Kid(x, e, m) # m
                  /\ Hgt(h, Kid(x, e, m)) \in Nat
                  /\ Hgt(h, m) = Hgt(h, Kid(x, e, m)) + (IF m \in Reds(x) THEN 0 ELSE 1) + (IF e = hd /\ m = hp THEN 1 ELSE 0)
           /\ \A e, m, c : e \in Sides /\ m \in M /\ c = Kid(x, e, m) /\ c \in M =>
                  c # Root(x) /\ Par(x, c) = m /\ SideOf(x, c) = e
           /\ Sentinel \notin M /\ None \notin M /\ Sentinel \in Places /\ Root(x) \in M \cup {Sentinel}
           /\ \A m : m \in M => m \in Places
           /\ h \in Heights /\ \A m : m \in Places => Hgt(h, m) \in Nat
           /\ Hgt(h, Sentinel) = 0 /\ Sentinel \notin Reds(x)
<1>1. h \in Heights /\ (\A m : m \in Places => Hgt(h, m) \in Nat) /\ Hgt(h, Sentinel) = 0 /\ Sentinel \notin Reds(x)
  BY HeightsIs DEF Balanced
<1>2. /\ Sentinel \notin M /\ None \notin M /\ Root(x) \in M \cup {Sentinel} /\ Sentinel \in Places
      /\ \A m : m \in M => m \in Places
  BY Links, Apart
<1>3. \A e, m : e \in Sides /\ m \in M => Kid(x, e, m) \in M \cup {Sentinel} /\ Kid(x, e, m) \in Places /\ Kid(x, e, m) # m
  BY Links
<1>4. \A e, m, c : e \in Sides /\ m \in M /\ c = Kid(x, e, m) /\ c \in M => c # Root(x) /\ Par(x, c) = m /\ SideOf(x, c) = e
  BY <1>2, Links
<1>5. \A e, m : e \in Sides /\ m \in M =>
          Hgt(h, m) = Hgt(h, Kid(x, e, m)) + (IF m \in Reds(x) THEN 0 ELSE 1) + (IF e = hd /\ m = hp THEN 1 ELSE 0)
  BY DEF Balanced
<1> QED BY <1>1, <1>2, <1>3, <1>4, <1>5

\* The links of y are those of x after a rotation at n, above which up comes.
Turned(x, y, M, n, d, up) ==
    /\ Root(y) = IF n = Root(x) THEN up ELSE Root(x)
    /\ \A e, m : e \in Sides /\ m \in M =>
          Kid(y, e, m) = IF m = n /\ e = Other(d) THEN Kid(x, d, up)
                         ELSE IF m = up /\ e = d THEN n
                         ELSE IF Kid(x, e, m) = n THEN up
                         ELSE Kid(x, e, m)

\* rbtree_insert, the first rotation: node n is an inner grandchild.
LEMMA InsertInner ==
    ASSUME NEW x, NEW w, Shape(x, w), NEW M, M = Members(w), NEW d \in Sides,
           NEW p \in M, NEW n \in M, n = Kid(x, Other(d), p), p \in Reds(x), n \in Reds(x),
           NEW h, NEW hd, Balanced(x, M, h, hd, None), Painted(x, M, n, None),
           NEW y, Turned(x, y, M, p, d, n), Reds(y) = Reds(x)
    PROVE  Balanced(y, M, h, hd, None) /\ Painted(y, M, p, None) /\ Root(y) = Root(x)
<1> DEFINE o == Other(d)
           c == Kid(x, d, n)
<1>1. /\ \A e, m : e \in Sides /\ m \in M =>
             /\ Kid(x, e, m) \in M \cup {Sentinel} /\ Kid(x, e, m) \in Places /\ Kid(x, e, m) # m
             /\ Hgt(h, Kid(x, e, m)) \in Nat
             /\ Hgt(h, m) = Hgt(h, Kid(x, e, m)) + (IF m \in Reds(x) THEN 0 ELSE 1)
      /\ \A e, m, k : e \in Sides /\ m \in M /\ k = Kid(x, e, m) /\ k \in M => k # Root(x) /\ Par(x, k) = m /\ SideOf(x, k) = e
      /\ Sentinel \notin M /\ None \notin M
      /\ Hgt(h, Sentinel) = 0 /\ Sentinel \notin Reds(x) /\ h \in Heights
      /\ \A m : m \in M => m \in Places /\ Hgt(h, m) \in Nat
  BY HeightFacts
<1>2. o \in Sides /\ o # d /\ \A e : e \in Sides => e = d \/ e = o
  BY Mirror
<1>3. p # n /\ Kid(x, o, p) = n /\ n # Root(x) /\ Hgt(h, p) = Hgt(h, n) /\ Hgt(h, n) = Hgt(h, c)
  BY <1>1, <1>2
<1>4. \A e, m : e \in Sides /\ m \in M =>
          Kid(y, e, m) = IF m = p /\ e = o THEN c ELSE IF m = n /\ e = d THEN p
                         ELSE IF Kid(x, e, m) = p THEN n ELSE Kid(x, e, m)
  BY DEF Turned
<1>5. Root(x) \notin Reds(x) /\ Root(y) = Root(x)
  BY <1>3 DEF Painted, Turned
<1>6. \A e, m : e \in Sides /\ m \in M /\ m \in Reds(x) /\ Kid(x, e, m) \in Reds(x) => Kid(x, e, m) = n
  BY <1>1 DEF Painted
<1>7. c \notin Reds(x)
  BY <1>1, <1>6
<1> HIDE DEF o, c
<1>8. Balanced(y, M, h, hd, None)
  <2>1. ASSUME NEW e \in Sides, NEW m \in M
        PROVE  Hgt(h, m) = Hgt(h, Kid(y, e, m)) + (IF m \in Reds(y) THEN 0 ELSE 1)
    <3>1. CASE m = p /\ e = o
      BY <1>1, <1>3, <1>4, <3>1
    <3>2. CASE m = n /\ e = d
      BY <1>1, <1>3, <1>4, <3>2
    <3>3. CASE ~(m = p /\ e = o) /\ ~(m = n /\ e = d)
      BY <1>1, <1>3, <1>4, <3>3
    <3> QED BY <3>1, <3>2, <3>3
  <2>2. \A e, m : e \in Sides /\ m \in M => Hgt(h, Kid(y, e, m)) \in Nat
    BY <1>1, <1>2, <1>3, <1>4 DEF c
  <2> QED BY <1>1, <2>1, <2>2 DEF Balanced
<1>9. Painted(y, M, p, None)
  <2>1. ASSUME NEW e \in Sides, NEW m \in M, m \in Reds(y), Kid(y, e, m) \in Reds(y), Kid(y, e, m) # p PROVE FALSE
    <3>1. CASE m = p /\ e = o
      BY <1>4, <1>7, <2>1, <3>1
    <3>2. CASE ~(m = p /\ e = o)
      <4>1. Kid(x, e, m) # p /\ Kid(x, e, m) = Kid(y, e, m)
        BY <1>3, <1>4, <1>6, <2>1, <3>2
      <4>2. Kid(x, e, m) = n
        BY <1>6, <2>1, <4>1
      <4>3. m = p /\ e = o
        BY <1>1, <1>2, <1>3, <4>2
      <4> QED BY <3>2, <4>3
    <3> QED BY <3>1, <3>2
  <2> QED BY <1>5, <2>1 DEF Painted
<1> QED BY <1>5, <1>8, <1>9

\* rbtree_insert, the last rotation: g comes below its red child p.
LEMMA InsertOuter ==
    ASSUME NEW x, NEW w, Shape(x, w), NEW M, M = Members(w), NEW d \in Sides,
           NEW g \in M, NEW p \in M, p = Kid(x, d, g), NEW n, n = Kid(x, d, p),
           p \in Reds(x), n \in Reds(x), g \notin Reds(x), Kid(x, Other(d), g) \notin Reds(x),
           NEW h, NEW hd, Balanced(x, M, h, hd, None), Painted(x, M, n, None),
           NEW y, Turned(x, y, M, g, Other(d), p), Reds(y) = (Reds(x) \ {p}) \cup {g}
    PROVE  (\E h1 : Balanced(y, M, h1, hd, None)) /\ Painted(y, M, n, None)
<1> DEFINE o == Other(d)
           c == Kid(x, o, p)
           h1 == Raise(h, p, Hgt(h, g), g, Hgt(h, p))
<1>1. /\ \A e, m : e \in Sides /\ m \in M =>
             /\ Kid(x, e, m) \in M \cup {Sentinel} /\ Kid(x, e, m) \in Places /\ Kid(x, e, m) # m
             /\ Hgt(h, Kid(x, e, m)) \in Nat
             /\ Hgt(h, m) = Hgt(h, Kid(x, e, m)) + (IF m \in Reds(x) THEN 0 ELSE 1)
      /\ \A e, m, k : e \in Sides /\ m \in M /\ k = Kid(x, e, m) /\ k \in M => k # Root(x) /\ Par(x, k) = m /\ SideOf(x, k) = e
      /\ Sentinel \notin M /\ None \notin M /\ Root(x) \in M \cup {Sentinel}
      /\ Hgt(h, Sentinel) = 0 /\ Sentinel \notin Reds(x) /\ h \in Heights
      /\ \A m : m \in M => m \in Places
      /\ \A m : m \in Places => Hgt(h, m) \in Nat
  BY HeightFacts
<1>2. o \in Sides /\ o # d /\ Other(o) = d /\ \A e : e \in Sides => e = d \/ e = o
  BY Mirror
<1>3. /\ p # g /\ Kid(x, d, g) = p /\ p # Root(x) /\ Kid(x, d, p) = n /\ n # p
      /\ n \in M /\ n # Root(x) /\ Par(x, n) = p
      /\ Hgt(h, g) = Hgt(h, p) + 1 /\ Hgt(h, p) = Hgt(h, c) /\ c \in M \cup {Sentinel}
      /\ \A e, m : e \in Sides /\ m \in M /\ Kid(x, e, m) = p => m = g /\ e = d
  BY <1>1, <1>2
<1>4. \A e, m : e \in Sides /\ m \in M =>
          Kid(y, e, m) = IF m = g /\ e = d THEN c ELSE IF m = p /\ e = o THEN g
                         ELSE IF Kid(x, e, m) = g THEN p ELSE Kid(x, e, m)
  BY <1>2 DEF Turned
<1>5. Root(x) \notin Reds(x)
  BY <1>3 DEF Painted
<1>6. \A e, m : e \in Sides /\ m \in M /\ m \in Reds(x) /\ Kid(x, e, m) \in Reds(x) => Kid(x, e, m) = n
  BY <1>1 DEF Painted
<1>7. c \notin Reds(x) /\ c # g /\ c # p
  <2>1. c # n
    BY <1>1, <1>2, <1>3
  <2>2. c # p
    BY <1>1, <1>2
  <2>3. c # g
    BY <1>1, <1>3
  <2> QED BY <1>6, <1>2, <2>1, <2>2, <2>3
<1>8. /\ h1 \in Heights
      /\ \A k : k \in Places => Hgt(h1, k) = IF k = p THEN Hgt(h, g) ELSE IF k = g THEN Hgt(h, p) ELSE Hgt(h, k)
  BY <1>1, RaiseIs
<1> HIDE DEF o, c, h1
<1>9. Balanced(y, M, h1, hd, None)
  <2>1. ASSUME NEW e \in Sides, NEW m \in M
        PROVE  Hgt(h1, m) = Hgt(h1, Kid(y, e, m)) + (IF m \in Reds(y) THEN 0 ELSE 1)
    <3>1. CASE m = g /\ e = d
      <4>1. Kid(y, e, m) = c /\ m \in Reds(y) /\ Hgt(h1, c) = Hgt(h, c) /\ Hgt(h1, g) = Hgt(h, p)
        BY <1>1, <1>3, <1>4, <1>7, <1>8, <3>1, Apart
      <4> QED BY <1>1, <1>3, <3>1, <4>1
    <3>2. CASE m = p /\ e = o
      <4>1. Kid(y, e, m) = g /\ m \notin Reds(y) /\ Hgt(h1, p) = Hgt(h, g) /\ Hgt(h1, g) = Hgt(h, p)
        BY <1>1, <1>3, <1>4, <1>8, <3>2
      <4> QED BY <1>1, <1>3, <3>2, <4>1
    <3>3. CASE m = g /\ e = o
      <4>1. Kid(y, e, m) = Kid(x, o, g) /\ m \in Reds(y) /\ Kid(x, o, g) # g /\ Kid(x, o, g) # p
        BY <1>1, <1>2, <1>3, <1>4, <3>3
      <4>2. Hgt(h1, Kid(x, o, g)) = Hgt(h, Kid(x, o, g)) /\ Hgt(h1, g) = Hgt(h, p)
            /\ Hgt(h, g) = Hgt(h, Kid(x, o, g)) + 1 /\ Hgt(h, Kid(x, o, g)) \in Nat
        BY <1>1, <1>2, <1>3, <1>8, <4>1
      <4> QED BY <1>1, <1>3, <3>3, <4>1, <4>2
    <3>4. CASE m = p /\ e = d
      <4>1. Kid(y, e, m) = n /\ m \notin Reds(y) /\ n # g
        BY <1>1, <1>2, <1>3, <1>4, <3>4
      <4>2. Hgt(h1, n) = Hgt(h, n) /\ Hgt(h1, p) = Hgt(h, g) /\ Hgt(h, p) = Hgt(h, n) /\ Hgt(h, n) \in Nat
        BY <1>1, <1>2, <1>3, <1>8, <4>1
      <4> QED BY <1>1, <1>3, <3>4, <4>1, <4>2
    <3>5. CASE m # g /\ m # p
      <4>1. Kid(x, e, m) # p /\ (m \in Reds(y) <=> m \in Reds(x))
        BY <1>3, <3>5
      <4>2. CASE Kid(x, e, m) = g
        <5>1. Kid(y, e, m) = p /\ Hgt(h1, p) = Hgt(h, Kid(x, e, m)) /\ Hgt(h1, m) = Hgt(h, m)
          BY <1>1, <1>3, <1>4, <1>8, <3>5, <4>2
        <5> QED BY <1>1, <4>1, <5>1
      <4>3. CASE Kid(x, e, m) # g
        <5>1. Kid(y, e, m) = Kid(x, e, m) /\ Hgt(h1, Kid(x, e, m)) = Hgt(h, Kid(x, e, m)) /\ Hgt(h1, m) = Hgt(h, m)
          BY <1>1, <1>3, <1>4, <1>8, <3>5, <4>1, <4>3
        <5> QED BY <1>1, <4>1, <5>1
      <4> QED BY <4>2, <4>3
    <3> QED BY <1>2, <3>1, <3>2, <3>3, <3>4, <3>5
  <2>2. \A e, m : e \in Sides /\ m \in M => Hgt(h1, Kid(y, e, m)) \in Nat
    <3>1. \A e, m : e \in Sides /\ m \in M => Kid(y, e, m) \in Places
      BY <1>1, <1>2, <1>3, <1>4 DEF c
    <3> QED BY <3>1, <1>8, HeightsIs
  <2>3. Hgt(h1, Sentinel) = 0 /\ Sentinel \notin Reds(y)
    BY <1>1, <1>8, Apart
  <2> QED BY <1>1, <1>8, <2>1, <2>2, <2>3 DEF Balanced
<1>10. Painted(y, M, n, None)
  <2>1. ASSUME NEW e \in Sides, NEW m \in M, m \in Reds(y), Kid(y, e, m) \in Reds(y) PROVE FALSE
    <3>1. m # p /\ Kid(y, e, m) # p
      BY <1>3, <2>1
    <3>2. CASE m = g /\ e = d
      BY <1>4, <1>7, <2>1, <3>2
    <3>3. CASE m = g /\ e = o
      <4>1. Kid(y, e, m) = Kid(x, o, g) /\ Kid(x, o, g) # g /\ Kid(x, o, g) \notin Reds(x)
        BY <1>1, <1>2, <1>3, <1>4, <3>3 DEF o
      <4> QED BY <2>1, <4>1
    <3>4. CASE m # g
      <4>1. Kid(y, e, m) = Kid(x, e, m) /\ Kid(x, e, m) # g /\ m \in Reds(x) /\ Kid(x, e, m) \in Reds(x)
        BY <1>3, <1>4, <2>1, <3>1, <3>4
      <4>2. Kid(x, e, m) = n
        BY <1>6, <4>1
      <4>3. m = p
        BY <1>1, <1>3, <4>2
      <4> QED BY <3>1, <4>3
    <3> QED BY <1>2, <3>2, <3>3, <3>4
  <2>2. Root(y) \notin Reds(y)
    BY <1>3, <1>5 DEF Turned
  <2> QED BY <2>1, <2>2 DEF Painted
<1> QED BY <1>9, <1>10

\* rbtree_delete, the red sibling s of the short side is rotated away.
LEMMA DeleteRedSibling ==
    ASSUME NEW x, NEW w, Shape(x, w), NEW M, M = Members(w), NEW d \in Sides,
           NEW p \in M, NEW s, s = Kid(x, Other(d), p), s \in Reds(x), Kid(x, d, p) \notin Reds(x),
           NEW h, Balanced(x, M, h, d, p), Painted(x, M, None, None),
           NEW y, Turned(x, y, M, p, d, s), Reds(y) = (Reds(x) \ {s}) \cup {p}
    PROVE  (\E h1 : Balanced(y, M, h1, d, p)) /\ Painted(y, M, None, None)
           /\ Kid(y, d, p) = Kid(x, d, p) /\ Kid(y, Other(d), p) \notin Reds(y) /\ s \in M
<1> DEFINE o == Other(d)
           c == Kid(x, d, s)
           h1 == Raise(h, s, Hgt(h, p), p, Hgt(h, s))
<1>1. /\ \A e, m : e \in Sides /\ m \in M =>
             /\ Kid(x, e, m) \in M \cup {Sentinel} /\ Kid(x, e, m) \in Places /\ Kid(x, e, m) # m
             /\ Hgt(h, Kid(x, e, m)) \in Nat
             /\ Hgt(h, m) = Hgt(h, Kid(x, e, m)) + (IF m \in Reds(x) THEN 0 ELSE 1) + (IF e = d /\ m = p THEN 1 ELSE 0)
      /\ \A e, m, k : e \in Sides /\ m \in M /\ k = Kid(x, e, m) /\ k \in M => k # Root(x) /\ Par(x, k) = m /\ SideOf(x, k) = e
      /\ Sentinel \notin M /\ None \notin M /\ Root(x) \in M \cup {Sentinel}
      /\ Hgt(h, Sentinel) = 0 /\ Sentinel \notin Reds(x) /\ h \in Heights
      /\ \A m : m \in M => m \in Places
      /\ \A m : m \in Places => Hgt(h, m) \in Nat
      /\ Sentinel \in Places
  BY HeightFacts
<1>2. o \in Sides /\ o # d /\ Other(o) = d /\ \A e : e \in Sides => e = d \/ e = o
  BY Mirror
<1>6. /\ Root(x) \notin Reds(x)
      /\ \A e, m : e \in Sides /\ m \in M /\ m \in Reds(x) => Kid(x, e, m) \notin Reds(x)
  BY <1>1, Apart DEF Painted
<1>3. /\ s \in M /\ p # s /\ Kid(x, o, p) = s /\ s # Root(x) /\ p \notin Reds(x)
      /\ Hgt(h, p) = Hgt(h, s) + 1 /\ Hgt(h, s) = Hgt(h, c) /\ c \in M \cup {Sentinel}
      /\ \A e, m : e \in Sides /\ m \in M /\ Kid(x, e, m) = s => m = p /\ e = o
  <2>1. s \in M /\ p # s /\ Kid(x, o, p) = s /\ p \notin Reds(x)
    BY <1>1, <1>2, <1>6
  <2>2. s # Root(x) /\ \A e, m : e \in Sides /\ m \in M /\ Kid(x, e, m) = s => m = p /\ e = o
    BY <1>1, <1>2, <2>1
  <2>3. Hgt(h, p) = Hgt(h, s) + 1 /\ Hgt(h, s) = Hgt(h, c) /\ c \in M \cup {Sentinel}
    BY <1>1, <1>2, <2>1
  <2> QED BY <2>1, <2>2, <2>3
<1>4. \A e, m : e \in Sides /\ m \in M =>
          Kid(y, e, m) = IF m = p /\ e = o THEN c ELSE IF m = s /\ e = d THEN p
                         ELSE IF Kid(x, e, m) = p THEN s ELSE Kid(x, e, m)
  BY <1>2 DEF Turned
<1>7. c \notin Reds(x) /\ c # s /\ c # p /\ c \in Places
  <2>1. c # p
    BY <1>1, <1>3
  <2> QED BY <1>1, <1>3, <1>6, <2>1
<1>8. /\ h1 \in Heights
      /\ \A k : k \in Places => Hgt(h1, k) = IF k = s THEN Hgt(h, p) ELSE IF k = p THEN Hgt(h, s) ELSE Hgt(h, k)
  BY <1>1, <1>3, RaiseIs
<1> HIDE DEF o, c, h1
<1>9. Balanced(y, M, h1, d, p)
  <2>1. ASSUME NEW e \in Sides, NEW m \in M
        PROVE  Hgt(h1, m) = Hgt(h1, Kid(y, e, m)) + (IF m \in Reds(y) THEN 0 ELSE 1) + (IF e = d /\ m = p THEN 1 ELSE 0)
    <3>1. CASE m = p /\ e = o
      <4>1. Kid(y, e, m) = c /\ m \in Reds(y) /\ Hgt(h1, c) = Hgt(h, c) /\ Hgt(h1, p) = Hgt(h, s)
        BY <1>1, <1>3, <1>4, <1>7, <1>8, <3>1
      <4> QED BY <1>1, <1>2, <1>3, <3>1, <4>1
    <3>2. CASE m = s /\ e = d
      <4>1. Kid(y, e, m) = p /\ m \notin Reds(y) /\ Hgt(h1, s) = Hgt(h, p) /\ Hgt(h1, p) = Hgt(h, s)
        BY <1>1, <1>3, <1>4, <1>8, <3>2
      <4> QED BY <1>1, <1>3, <3>2, <4>1
    <3>3. CASE m = p /\ e = d
      <4>1. Kid(y, e, m) = Kid(x, d, p) /\ m \in Reds(y) /\ Kid(x, d, p) # p /\ Kid(x, d, p) # s
        BY <1>1, <1>2, <1>3, <1>4, <3>3
      <4>2. Hgt(h1, Kid(x, d, p)) = Hgt(h, Kid(x, d, p)) /\ Hgt(h1, p) = Hgt(h, s)
            /\ Hgt(h, p) = Hgt(h, Kid(x, d, p)) + 2 /\ Hgt(h, Kid(x, d, p)) \in Nat
        BY <1>1, <1>2, <1>3, <1>8, <4>1
      <4> QED BY <1>1, <1>3, <3>3, <4>1, <4>2
    <3>4. CASE m = s /\ e = o
      <4>0. Kid(x, o, s) # p /\ Kid(x, o, s) # s /\ Hgt(h, s) = Hgt(h, Kid(x, o, s)) /\ Hgt(h, Kid(x, o, s)) \in Nat
            /\ Kid(x, o, s) \in Places
        BY <1>1, <1>2, <1>3
      <4>1. Kid(y, e, m) = Kid(x, o, s) /\ m \notin Reds(y)
        BY <1>2, <1>3, <1>4, <3>4, <4>0
      <4>2. Hgt(h1, Kid(x, o, s)) = Hgt(h, Kid(x, o, s)) /\ Hgt(h1, s) = Hgt(h, p)
        BY <1>1, <1>3, <1>8, <4>0
      <4> QED BY <1>1, <1>3, <3>4, <4>0, <4>1, <4>2
    <3>5. CASE m # p /\ m # s
      <4>1. Kid(x, e, m) # s /\ (m \in Reds(y) <=> m \in Reds(x))
        BY <1>3, <3>5
      <4>2. CASE Kid(x, e, m) = p
        <5>1. Kid(y, e, m) = s /\ Hgt(h1, s) = Hgt(h, Kid(x, e, m)) /\ Hgt(h1, m) = Hgt(h, m)
          BY <1>1, <1>3, <1>4, <1>8, <3>5, <4>2
        <5> QED BY <1>1, <3>5, <4>1, <5>1
      <4>3. CASE Kid(x, e, m) # p
        <5>1. Kid(y, e, m) = Kid(x, e, m) /\ Hgt(h1, Kid(x, e, m)) = Hgt(h, Kid(x, e, m)) /\ Hgt(h1, m) = Hgt(h, m)
          BY <1>1, <1>3, <1>4, <1>8, <3>5, <4>1, <4>3
        <5> QED BY <1>1, <3>5, <4>1, <5>1
      <4> QED BY <4>2, <4>3
    <3> QED BY <1>2, <3>1, <3>2, <3>3, <3>4, <3>5
  <2>3. Hgt(h1, Sentinel) = 0 /\ Sentinel \notin Reds(y)
    BY <1>1, <1>3, <1>8
  <2> QED BY <1>8, <2>1, <2>3 DEF Balanced
<1>11. Kid(y, d, p) = Kid(x, d, p) /\ Kid(y, o, p) = c
  BY <1>1, <1>2, <1>3, <1>4
<1>10. Painted(y, M, None, None)
  <2>1. ASSUME NEW e \in Sides, NEW m \in M, m \in Reds(y), Kid(y, e, m) \in Reds(y) PROVE FALSE
    <3>1. m # s /\ Kid(y, e, m) # s
      BY <1>3, <2>1
    <3>2. CASE m = p /\ e = o
      BY <1>7, <1>11, <2>1, <3>2
    <3>3. CASE m = p /\ e = d
      BY <1>1, <1>2, <1>11, <2>1, <3>3
    <3>4. CASE m # p
      BY <1>3, <1>4, <1>6, <2>1, <3>1, <3>4
    <3> QED BY <1>2, <3>2, <3>3, <3>4
  <2>2. Root(y) \notin Reds(y)
    BY <1>3, <1>6 DEF Turned
  <2> QED BY <2>1, <2>2 DEF Painted
<1> QED BY <1>3, <1>7, <1>9, <1>10, <1>11 DEF o

\* rbtree_delete, the sibling s is made red and the parent p is now short.
LEMMA DeleteClimb ==
    ASSUME NEW x, NEW w, Shape(x, w), NEW M, M = Members(w), NEW d \in Sides,
           NEW p \in M, NEW s \in M, s = Kid(x, Other(d), p), s \notin Reds(x),
           \A e : e \in Sides => Kid(x, e, s) \notin Reds(x),
           NEW h, Balanced(x, M, h, d, p), Painted(x, M, None, None),
           NEW y, Root(y) = Root(x), Reds(y) = Reds(x) \cup {s},
           \A e, m : e \in Sides /\ m \in Places => Kid(y, e, m) = Kid(x, e, m)
    PROVE  /\ Painted(y, M, p, p)
           /\ p = Root(x) => \E h1 : Balanced(y, M, h1, "left", None)
           /\ p # Root(x) => \E h1 : /\ Balanced(y, M, h1, SideOf(x, p), Par(x, p))
                                     /\ p \notin Reds(x) => Hgt(h1, p) = Hgt(h, Kid(x, d, p)) + 1
<1> DEFINE o == Other(d)
           h1 == Raise(h, s, Hgt(h, s) - 1, p, Hgt(h, p) - 1)
<1>1. /\ \A e, m : e \in Sides /\ m \in M =>
             /\ Kid(x, e, m) \in M \cup {Sentinel} /\ Kid(x, e, m) \in Places /\ Kid(x, e, m) # m
             /\ Hgt(h, Kid(x, e, m)) \in Nat
             /\ Hgt(h, m) = Hgt(h, Kid(x, e, m)) + (IF m \in Reds(x) THEN 0 ELSE 1) + (IF e = d /\ m = p THEN 1 ELSE 0)
      /\ \A e, m, k : e \in Sides /\ m \in M /\ k = Kid(x, e, m) /\ k \in M => k # Root(x) /\ Par(x, k) = m /\ SideOf(x, k) = e
      /\ Sentinel \notin M /\ None \notin M /\ Root(x) \in M \cup {Sentinel}
      /\ Hgt(h, Sentinel) = 0 /\ Sentinel \notin Reds(x) /\ h \in Heights
      /\ \A m : m \in M => m \in Places
      /\ \A m : m \in Places => Hgt(h, m) \in Nat
      /\ Sentinel \in Places
  BY HeightFacts
<1>2. o \in Sides /\ o # d /\ Other(o) = d /\ \A e : e \in Sides => e = d \/ e = o
  BY Mirror
<1>6. /\ Root(x) \notin Reds(x)
      /\ \A e, m : e \in Sides /\ m \in M /\ m \in Reds(x) => Kid(x, e, m) \notin Reds(x)
  BY <1>1, Apart DEF Painted
<1>3. /\ p # s /\ Kid(x, o, p) = s /\ s # Root(x)
      /\ Hgt(h, s) - 1 \in Nat /\ Hgt(h, p) - 1 \in Nat
      /\ \A e, m : e \in Sides /\ m \in M /\ Kid(x, e, m) = s => m = p /\ e = o
  <2>1. p # s /\ Kid(x, o, p) = s
    BY <1>1, <1>2
  <2>2. s # Root(x) /\ \A e, m : e \in Sides /\ m \in M /\ Kid(x, e, m) = s => m = p /\ e = o
    BY <1>1, <1>2, <2>1
  <2>3. Hgt(h, s) = Hgt(h, Kid(x, d, s)) + 1 /\ Hgt(h, Kid(x, d, s)) \in Nat
    BY <1>1, <1>2, <2>1
  <2>4. Hgt(h, p) = Hgt(h, Kid(x, d, p)) + (IF p \in Reds(x) THEN 0 ELSE 1) + 1 /\ Hgt(h, Kid(x, d, p)) \in Nat
    BY <1>1
  <2> QED BY <2>1, <2>2, <2>3, <2>4
<1>7. p # Root(x) => Par(x, p) \in M /\ Par(x, p) # p /\ SideOf(x, p) \in Sides /\ Kid(x, SideOf(x, p), Par(x, p)) = p
  BY ParentIs
<1>4. \A e, m : e \in Sides /\ m \in M /\ Kid(x, e, m) = p => p # Root(x) /\ m = Par(x, p) /\ e = SideOf(x, p)
  BY <1>1
<1>8. /\ h1 \in Heights
      /\ \A k : k \in Places => Hgt(h1, k) = IF k = s THEN Hgt(h, s) - 1 ELSE IF k = p THEN Hgt(h, p) - 1 ELSE Hgt(h, k)
  BY <1>1, <1>3, RaiseIs
<1> HIDE DEF o, h1
<1>9. ASSUME NEW hd, NEW hp, p = Root(x) => hp = None, p # Root(x) => hd = SideOf(x, p) /\ hp = Par(x, p)
      PROVE  Balanced(y, M, h1, hd, hp)
  <2>1. ASSUME NEW e \in Sides, NEW m \in M
        PROVE  Hgt(h1, m) = Hgt(h1, Kid(y, e, m)) + (IF m \in Reds(y) THEN 0 ELSE 1) + (IF e = hd /\ m = hp THEN 1 ELSE 0)
    <3>0. Kid(y, e, m) = Kid(x, e, m) /\ Kid(x, e, m) \in Places /\ Hgt(h, Kid(x, e, m)) \in Nat /\ Hgt(h, m) \in Nat /\ m \in Places
      BY <1>1
    <3>9. e = hd /\ m = hp <=> Kid(x, e, m) = p
      BY <1>1, <1>4, <1>7, <1>9
    <3>1. CASE m = p /\ e = o
      <4>1. Kid(x, e, m) = s /\ Hgt(h1, s) = Hgt(h, s) - 1 /\ Hgt(h1, p) = Hgt(h, p) - 1 /\ Hgt(h, p) = Hgt(h, s) + (IF p \in Reds(x) THEN 0 ELSE 1)
        BY <1>1, <1>2, <1>3, <1>8, <3>0, <3>1
      <4> QED BY <1>1, <1>3, <3>0, <3>1, <3>9, <4>1
    <3>2. CASE m = p /\ e = d
      <4>1. Kid(x, e, m) # s /\ Kid(x, e, m) # p /\ Hgt(h1, p) = Hgt(h, p) - 1
            /\ Hgt(h, p) = Hgt(h, Kid(x, e, m)) + (IF p \in Reds(x) THEN 0 ELSE 1) + 1
        BY <1>1, <1>2, <1>3, <1>8, <3>0, <3>2
      <4>2. Hgt(h1, Kid(x, e, m)) = Hgt(h, Kid(x, e, m))
        BY <1>8, <3>0, <4>1
      <4> QED BY <1>1, <1>3, <3>0, <3>2, <3>9, <4>1, <4>2
    <3>3. CASE m = s
      <4>1. Kid(x, e, m) # s /\ Kid(x, e, m) # p /\ Hgt(h1, s) = Hgt(h, s) - 1 /\ Hgt(h, s) = Hgt(h, Kid(x, e, m)) + 1
        <5>1. Kid(x, e, m) # p
          <6>1. Kid(x, e, m) = p => Hgt(h, s) = Hgt(h, p) + 1
            BY <1>1, <1>3, <3>3
          <6>2. Hgt(h, p) = Hgt(h, s) + (IF p \in Reds(x) THEN 0 ELSE 1)
            BY <1>1, <1>2, <1>3
          <6> QED BY <1>1, <6>1, <6>2
        <5> QED BY <1>1, <1>3, <1>8, <3>0, <3>3, <5>1
      <4>2. Hgt(h1, Kid(x, e, m)) = Hgt(h, Kid(x, e, m))
        BY <1>8, <3>0, <4>1
      <4> QED BY <1>1, <1>3, <3>0, <3>3, <3>9, <4>1, <4>2
    <3>4. CASE m # p /\ m # s
      <4>1. Kid(x, e, m) # s /\ Hgt(h1, m) = Hgt(h, m) /\ (m \in Reds(y) <=> m \in Reds(x))
            /\ Hgt(h, m) = Hgt(h, Kid(x, e, m)) + (IF m \in Reds(x) THEN 0 ELSE 1)
        BY <1>1, <1>3, <1>8, <3>0, <3>4
      <4>2. Hgt(h1, Kid(x, e, m)) = IF Kid(x, e, m) = p THEN Hgt(h, Kid(x, e, m)) - 1 ELSE Hgt(h, Kid(x, e, m))
        BY <1>8, <3>0, <4>1
      <4> QED BY <1>3, <3>0, <3>9, <4>1, <4>2
    <3> QED BY <1>2, <3>1, <3>2, <3>3, <3>4
  <2>3. Hgt(h1, Sentinel) = 0 /\ Sentinel \notin Reds(y)
    BY <1>1, <1>8
  <2> QED BY <1>8, <2>1, <2>3 DEF Balanced
<1>10. Painted(y, M, p, p)
  <2>1. ASSUME NEW e \in Sides, NEW m \in M, m \in Reds(y), Kid(y, e, m) \in Reds(y), m # p PROVE FALSE
    <3>1. Kid(y, e, m) = Kid(x, e, m) /\ Kid(x, e, m) # s
      BY <1>1, <1>3, <2>1
    <3> QED BY <1>6, <2>1, <3>1
  <2>2. Root(y) \notin Reds(y)
    BY <1>3, <1>6
  <2> QED BY <2>1, <2>2 DEF Painted
<1>11. p = Root(x) => Balanced(y, M, h1, "left", None)
  BY <1>9
<1>12. p # Root(x) => Balanced(y, M, h1, SideOf(x, p), Par(x, p))
  BY <1>9
<1>13. p \notin Reds(x) => Hgt(h1, p) = Hgt(h, Kid(x, d, p)) + 1
  <2>1. Hgt(h1, p) = Hgt(h, p) - 1
    BY <1>1, <1>3, <1>8
  <2>2. p \notin Reds(x) => Hgt(h, p) = Hgt(h, Kid(x, d, p)) + 1 + 1 /\ Hgt(h, Kid(x, d, p)) \in Nat
    BY <1>1
  <2> QED BY <2>1, <2>2
<1> QED BY <1>10, <1>11, <1>12, <1>13

\* rbtree_delete, the inner nephew i, which is red, comes above the sibling s.
LEMMA DeleteNephew ==
    ASSUME NEW x, NEW w, Shape(x, w), NEW M, M = Members(w), NEW d \in Sides,
           NEW p \in M, NEW s \in M, s = Kid(x, Other(d), p), s \notin Reds(x),
           NEW i, i = Kid(x, d, s), i \in Reds(x), Kid(x, Other(d), s) \notin Reds(x),
           NEW h, Balanced(x, M, h, d, p), Painted(x, M, None, None),
           NEW y, Turned(x, y, M, s, Other(d), i), Reds(y) = (Reds(x) \ {i}) \cup {s}
    PROVE  /\ \E h1 : Balanced(y, M, h1, d, p)
           /\ Painted(y, M, None, None)
           /\ Kid(y, d, p) = Kid(x, d, p) /\ Kid(y, Other(d), p) = i /\ Kid(y, Other(d), i) = s /\ i \in M
           /\ i \notin Reds(y) /\ Root(y) = Root(x)
<1> DEFINE o == Other(d)
           c == Kid(x, o, i)
           r == Kid(x, o, s)
           h1 == Raise(h, i, Hgt(h, s), s, Hgt(h, i))
<1>1. /\ \A e, m : e \in Sides /\ m \in M =>
             /\ Kid(x, e, m) \in M \cup {Sentinel} /\ Kid(x, e, m) \in Places /\ Kid(x, e, m) # m
             /\ Hgt(h, Kid(x, e, m)) \in Nat
             /\ Hgt(h, m) = Hgt(h, Kid(x, e, m)) + (IF m \in Reds(x) THEN 0 ELSE 1) + (IF e = d /\ m = p THEN 1 ELSE 0)
      /\ \A e, m, k : e \in Sides /\ m \in M /\ k = Kid(x, e, m) /\ k \in M => k # Root(x) /\ Par(x, k) = m /\ SideOf(x, k) = e
      /\ Sentinel \notin M /\ None \notin M /\ Root(x) \in M \cup {Sentinel}
      /\ Hgt(h, Sentinel) = 0 /\ Sentinel \notin Reds(x) /\ h \in Heights
      /\ \A m : m \in M => m \in Places
      /\ \A m : m \in Places => Hgt(h, m) \in Nat
      /\ Sentinel \in Places
  BY HeightFacts
<1>2. o \in Sides /\ o # d /\ Other(o) = d /\ \A e : e \in Sides => e = d \/ e = o
  BY Mirror
<1>6. /\ Root(x) \notin Reds(x)
      /\ \A e, m : e \in Sides /\ m \in M /\ m \in Reds(x) => Kid(x, e, m) \notin Reds(x)
  BY <1>1, Apart DEF Painted
<1>3. /\ i \in M /\ p # s /\ p # i /\ i # s /\ Kid(x, o, p) = s /\ s # Root(x) /\ i # Root(x) /\ Kid(x, d, s) = i
      /\ Hgt(h, s) = Hgt(h, i) + 1 /\ Hgt(h, i) = Hgt(h, c) /\ c \in M \cup {Sentinel} /\ Hgt(h, i) = Hgt(h, Kid(x, d, i))
      /\ r \in Places /\ r # s /\ r # i /\ Hgt(h, r) = Hgt(h, i)
      /\ \A e, m : e \in Sides /\ m \in M /\ Kid(x, e, m) = i => m = s /\ e = d
      /\ \A e, m : e \in Sides /\ m \in M /\ Kid(x, e, m) = s => m = p /\ e = o
  <2>1. i \in M /\ p # s /\ i # s /\ Kid(x, o, p) = s /\ Kid(x, d, s) = i
    BY <1>1, <1>2
  <2>2. /\ s # Root(x) /\ i # Root(x)
        /\ \A e, m : e \in Sides /\ m \in M /\ Kid(x, e, m) = s => m = p /\ e = o
        /\ \A e, m : e \in Sides /\ m \in M /\ Kid(x, e, m) = i => m = s /\ e = d
    BY <1>1, <1>2, <2>1
  <2>3. Hgt(h, s) = Hgt(h, i) + 1 /\ Hgt(h, p) >= Hgt(h, s)
    BY <1>1, <1>2, <2>1
  <2>4. p # i
    BY <1>1, <2>1, <2>3
  <2>5. Hgt(h, i) = Hgt(h, c) /\ c \in M \cup {Sentinel} /\ Hgt(h, i) = Hgt(h, Kid(x, d, i))
    BY <1>1, <1>2, <2>1, <2>4
  <2>6. r \in Places /\ r # s /\ Hgt(h, r) = Hgt(h, i)
    BY <1>1, <1>2, <2>1, <2>3
  <2>7. r # i
    BY <1>2, <2>2, <2>1
  <2> QED BY <2>1, <2>2, <2>3, <2>4, <2>5, <2>6, <2>7
<1>4. \A e, m : e \in Sides /\ m \in M =>
          Kid(y, e, m) = IF m = s /\ e = d THEN c ELSE IF m = i /\ e = o THEN s
                         ELSE IF Kid(x, e, m) = s THEN i ELSE Kid(x, e, m)
  BY <1>2 DEF Turned
<1>7. c \notin Reds(x) /\ c # s /\ c # i /\ c \in Places
  <2>0. Hgt(h, i) \in Nat /\ Hgt(h, s) = Hgt(h, i) + 1 /\ Hgt(h, i) = Hgt(h, c)
    BY <1>1, <1>3
  <2>1. c # s
    BY <2>0
  <2>2. c # i /\ c \notin Reds(x) /\ c \in Places
    BY <1>1, <1>2, <1>3, <1>6
  <2> QED BY <2>1, <2>2
<1>8. /\ h1 \in Heights
      /\ \A k : k \in Places => Hgt(h1, k) = IF k = i THEN Hgt(h, s) ELSE IF k = s THEN Hgt(h, i) ELSE Hgt(h, k)
  BY <1>1, <1>3, RaiseIs
<1>12. r \notin Reds(x) /\ r = Kid(x, o, s)
  OBVIOUS
<1> HIDE DEF o, c, h1, r
<1>11. /\ Kid(y, d, p) = Kid(x, d, p) /\ Kid(y, o, p) = i /\ Kid(y, o, i) = s
       /\ Root(y) = Root(x) /\ i \notin Reds(y)
  BY <1>1, <1>2, <1>3, <1>4 DEF Turned
<1>9. Balanced(y, M, h1, d, p)
  <2>1. ASSUME NEW e \in Sides, NEW m \in M
        PROVE  Hgt(h1, m) = Hgt(h1, Kid(y, e, m)) + (IF m \in Reds(y) THEN 0 ELSE 1) + (IF e = d /\ m = p THEN 1 ELSE 0)
    <3>1. CASE m = s /\ e = d
      <4>1. Kid(y, e, m) = c /\ m \in Reds(y) /\ Hgt(h1, c) = Hgt(h, c) /\ Hgt(h1, s) = Hgt(h, i)
        BY <1>1, <1>3, <1>4, <1>7, <1>8, <3>1
      <4>2. Hgt(h, i) = Hgt(h, c) /\ Hgt(h, i) \in Nat /\ m # p /\ m = s
        BY <1>1, <1>3, <3>1
      <4> QED BY <4>1, <4>2
    <3>2. CASE m = i /\ e = o
      <4>1. Kid(y, e, m) = s /\ m \notin Reds(y) /\ Hgt(h1, i) = Hgt(h, s) /\ Hgt(h1, s) = Hgt(h, i)
        BY <1>1, <1>3, <1>8, <1>11, <3>2
      <4> QED BY <1>1, <1>3, <3>2, <4>1
    <3>3. CASE m = s /\ e = o
      <4>1. Kid(y, e, m) = r /\ m \in Reds(y)
        BY <1>1, <1>2, <1>3, <1>4, <1>12, <3>3
      <4>2. Hgt(h1, r) = Hgt(h, r) /\ Hgt(h1, s) = Hgt(h, i)
        BY <1>1, <1>3, <1>8
      <4> QED BY <1>1, <1>3, <3>3, <4>1, <4>2
    <3>4. CASE m = i /\ e = d
      <4>0. Kid(x, d, i) # i /\ Kid(x, d, i) # s /\ Kid(x, d, i) \in Places
        BY <1>1, <1>2, <1>3
      <4>1. Kid(y, e, m) = Kid(x, d, i) /\ m \notin Reds(y)
        BY <1>2, <1>3, <1>4, <1>11, <3>4, <4>0
      <4>2. Hgt(h1, Kid(x, d, i)) = Hgt(h, Kid(x, d, i)) /\ Hgt(h1, i) = Hgt(h, s)
        BY <1>1, <1>3, <1>8, <4>0
      <4> QED BY <1>1, <1>3, <3>4, <4>1, <4>2
    <3>5. CASE m # s /\ m # i
      <4>1. Kid(x, e, m) # i /\ (m \in Reds(y) <=> m \in Reds(x))
        BY <1>3, <3>5
      <4>2. CASE Kid(x, e, m) = s
        <5>1. Kid(y, e, m) = i /\ Hgt(h1, i) = Hgt(h, Kid(x, e, m)) /\ Hgt(h1, m) = Hgt(h, m)
          BY <1>1, <1>3, <1>4, <1>8, <3>5, <4>2
        <5> QED BY <1>1, <3>5, <4>1, <5>1
      <4>3. CASE Kid(x, e, m) # s
        <5>1. Kid(y, e, m) = Kid(x, e, m) /\ Hgt(h1, Kid(x, e, m)) = Hgt(h, Kid(x, e, m)) /\ Hgt(h1, m) = Hgt(h, m)
          BY <1>1, <1>3, <1>4, <1>8, <3>5, <4>1, <4>3
        <5> QED BY <1>1, <3>5, <4>1, <5>1
      <4> QED BY <4>2, <4>3
    <3> QED BY <1>2, <3>1, <3>2, <3>3, <3>4, <3>5
  <2>3. Hgt(h1, Sentinel) = 0 /\ Sentinel \notin Reds(y)
    BY <1>1, <1>3, <1>8
  <2> QED BY <1>8, <2>1, <2>3 DEF Balanced
<1>10. Painted(y, M, None, None)
  <2>1. ASSUME NEW e \in Sides, NEW m \in M, m \in Reds(y), Kid(y, e, m) \in Reds(y) PROVE FALSE
    <3>1. m # i /\ Kid(y, e, m) # i
      BY <1>11, <2>1
    <3>2. CASE m = s /\ e = d
      BY <1>3, <1>4, <1>7, <2>1, <3>2
    <3>3. CASE m = s /\ e = o
      BY <1>2, <1>3, <1>4, <1>12, <2>1, <3>3
    <3>4. CASE m # s
      BY <1>3, <1>4, <1>6, <2>1, <3>1, <3>4
    <3> QED BY <1>2, <3>2, <3>3, <3>4
  <2>2. Root(y) \notin Reds(y)
    BY <1>3, <1>6, <1>11
  <2> QED BY <2>1, <2>2 DEF Painted
<1> QED BY <1>3, <1>9, <1>10, <1>11 DEF o

\* rbtree_delete, the last rotation: the sibling s, whose outer child is red,
\* comes above p.
LEMMA DeleteOuter ==
    ASSUME NEW x, NEW w, Shape(x, w), NEW M, M = Members(w), NEW d \in Sides,
           NEW p \in M, NEW s \in M, s = Kid(x, Other(d), p), s \notin Reds(x),
           NEW r, r = Kid(x, Other(d), s), r \in Reds(x), Kid(x, d, p) \notin Reds(x),
           NEW h, Balanced(x, M, h, d, p), Painted(x, M, None, None),
           NEW y, Turned(x, y, M, p, d, s),
           Reds(y) = ((IF p \in Reds(x) THEN Reds(x) \cup {s} ELSE Reds(x) \ {s}) \ {p}) \ {r}
    PROVE  /\ \E h1 : Balanced(y, M, h1, "left", None)
           /\ Painted(y, M, None, None)
<1> DEFINE o == Other(d)
           c == Kid(x, d, s)
           h0 == Raise(h, s, Hgt(h, p), p, Hgt(h, s))
           h1 == Raise(h0, r, Hgt(h, s), r, Hgt(h, s))
<1>1. /\ \A e, m : e \in Sides /\ m \in M =>
             /\ Kid(x, e, m) \in M \cup {Sentinel} /\ Kid(x, e, m) \in Places /\ Kid(x, e, m) # m
             /\ Hgt(h, Kid(x, e, m)) \in Nat
             /\ Hgt(h, m) = Hgt(h, Kid(x, e, m)) + (IF m \in Reds(x) THEN 0 ELSE 1) + (IF e = d /\ m = p THEN 1 ELSE 0)
      /\ \A e, m, k : e \in Sides /\ m \in M /\ k = Kid(x, e, m) /\ k \in M => k # Root(x) /\ Par(x, k) = m /\ SideOf(x, k) = e
      /\ Sentinel \notin M /\ None \notin M /\ Root(x) \in M \cup {Sentinel}
      /\ Hgt(h, Sentinel) = 0 /\ Sentinel \notin Reds(x) /\ h \in Heights
      /\ \A m : m \in M => m \in Places
      /\ \A m : m \in Places => Hgt(h, m) \in Nat
      /\ Sentinel \in Places
  BY HeightFacts
<1>2. o \in Sides /\ o # d /\ Other(o) = d /\ \A e : e \in Sides => e = d \/ e = o
  BY Mirror
<1>6. /\ Root(x) \notin Reds(x)
      /\ \A e, m : e \in Sides /\ m \in M /\ m \in Reds(x) => Kid(x, e, m) \notin Reds(x)
  BY <1>1, Apart DEF Painted
<1>3. /\ r \in M /\ p # s /\ p # r /\ r # s /\ Kid(x, o, p) = s /\ s # Root(x) /\ r # Root(x) /\ Kid(x, o, s) = r
      /\ Hgt(h, s) = Hgt(h, r) + 1 /\ Hgt(h, c) = Hgt(h, r) /\ c \in Places
      /\ Hgt(h, p) = Hgt(h, s) + (IF p \in Reds(x) THEN 0 ELSE 1)
      /\ Hgt(h, s) = Hgt(h, Kid(x, d, p)) + 1
      /\ \A e, m : e \in Sides /\ m \in M /\ Kid(x, e, m) = r => m = s /\ e = o
      /\ \A e, m : e \in Sides /\ m \in M /\ Kid(x, e, m) = s => m = p /\ e = o
  <2>1. r \in M /\ p # s /\ r # s /\ Kid(x, o, p) = s /\ Kid(x, o, s) = r
    BY <1>1, <1>2
  <2>2. /\ s # Root(x) /\ r # Root(x)
        /\ \A e, m : e \in Sides /\ m \in M /\ Kid(x, e, m) = s => m = p /\ e = o
        /\ \A e, m : e \in Sides /\ m \in M /\ Kid(x, e, m) = r => m = s /\ e = o
    BY <1>1, <1>2, <2>1
  <2>3. Hgt(h, s) = Hgt(h, r) + 1 /\ Hgt(h, p) = Hgt(h, s) + (IF p \in Reds(x) THEN 0 ELSE 1)
    BY <1>1, <1>2, <2>1
  <2>4. p # r
    BY <1>1, <2>1, <2>3
  <2>5. Hgt(h, c) = Hgt(h, r) /\ c \in Places
    BY <1>1, <1>2, <2>1, <2>3
  <2>6. Hgt(h, s) = Hgt(h, Kid(x, d, p)) + 1
    BY <1>1, <1>2, <2>3
  <2> QED BY <2>1, <2>2, <2>3, <2>4, <2>5, <2>6
<1>4. \A e, m : e \in Sides /\ m \in M =>
          Kid(y, e, m) = IF m = p /\ e = o THEN c ELSE IF m = s /\ e = d THEN p
                         ELSE IF Kid(x, e, m) = p THEN s ELSE Kid(x, e, m)
  BY <1>2 DEF Turned
<1>7. c # s /\ c # p /\ c # r
  <2>1. c # p
    BY <1>1, <1>3
  <2>2. c # s /\ c # r
    BY <1>1, <1>2, <1>3
  <2> QED BY <2>1, <2>2
<1>8. /\ h1 \in Heights
      /\ \A k : k \in Places => Hgt(h1, k) = IF k = r THEN Hgt(h, s) ELSE IF k = s THEN Hgt(h, p)
                                             ELSE IF k = p THEN Hgt(h, s) ELSE Hgt(h, k)
  <2>1. /\ h0 \in Heights
        /\ \A k : k \in Places => Hgt(h0, k) = IF k = s THEN Hgt(h, p) ELSE IF k = p THEN Hgt(h, s) ELSE Hgt(h, k)
    BY <1>1, <1>3, RaiseIs
  <2> HIDE DEF h0
  <2> QED BY <1>1, <1>3, <2>1, RaiseIs
<1>12. Kid(x, d, p) \notin Reds(x) /\ Kid(x, d, p) # p /\ Kid(x, d, p) # s /\ Kid(x, d, p) # r /\ Kid(x, d, p) \in Places
  BY <1>1, <1>2, <1>3
<1>13. /\ p \notin Reds(y) /\ r \notin Reds(y) /\ (s \in Reds(y) <=> p \in Reds(x))
       /\ \A k : k \notin {p, r, s} => (k \in Reds(y) <=> k \in Reds(x))
  BY <1>3
<1>14. c = Kid(x, d, s)
  OBVIOUS
<1> HIDE DEF o, c, h0, h1
<1>11. Kid(y, d, p) = Kid(x, d, p) /\ Kid(y, o, p) = c /\ Kid(y, d, s) = p /\ Kid(y, o, s) = r
  <2>1. Kid(y, o, p) = c /\ Kid(y, d, s) = p
    BY <1>2, <1>3, <1>4
  <2>2. Kid(y, d, p) = Kid(x, d, p)
    BY <1>2, <1>3, <1>4, <1>12
  <2>3. Kid(y, o, s) = r
    BY <1>2, <1>3, <1>4
  <2> QED BY <2>1, <2>2, <2>3
<1>9. Balanced(y, M, h1, "left", None)
  <2>1. ASSUME NEW e \in Sides, NEW m \in M
        PROVE  Hgt(h1, m) = Hgt(h1, Kid(y, e, m)) + (IF m \in Reds(y) THEN 0 ELSE 1)
    <3>1. CASE m = p /\ e = o
      <4>1. Hgt(h1, c) = Hgt(h, c) /\ Hgt(h1, p) = Hgt(h, s)
        BY <1>1, <1>3, <1>7, <1>8
      <4> QED BY <1>1, <1>3, <1>11, <1>13, <3>1, <4>1
    <3>2. CASE m = s /\ e = d
      <4>1. Hgt(h1, s) = Hgt(h, p) /\ Hgt(h1, p) = Hgt(h, s)
        BY <1>1, <1>3, <1>8
      <4> QED BY <1>1, <1>3, <1>11, <1>13, <3>2, <4>1
    <3>3. CASE m = p /\ e = d
      <4>1. Hgt(h1, Kid(x, d, p)) = Hgt(h, Kid(x, d, p)) /\ Hgt(h1, p) = Hgt(h, s) /\ Hgt(h, Kid(x, d, p)) \in Nat
        BY <1>1, <1>3, <1>8, <1>12
      <4> QED BY <1>3, <1>11, <1>13, <3>3, <4>1
    <3>4. CASE m = s /\ e = o
      <4>1. Hgt(h1, s) = Hgt(h, p) /\ Hgt(h1, r) = Hgt(h, s)
        BY <1>1, <1>3, <1>8
      <4> QED BY <1>1, <1>3, <1>11, <1>13, <3>4, <4>1
    <3>6. CASE m = r
      <4>1. Kid(x, e, r) \in Places /\ Kid(x, e, r) # r /\ Kid(x, e, r) # s /\ Hgt(h, r) = Hgt(h, Kid(x, e, r)) /\ Hgt(h, r) \in Nat
        BY <1>1, <1>3
      <4>2. Kid(x, e, r) # p
        BY <1>1, <1>3, <4>1
      <4>3. Kid(y, e, m) = Kid(x, e, r) /\ Hgt(h1, Kid(x, e, r)) = Hgt(h, Kid(x, e, r)) /\ Hgt(h1, r) = Hgt(h, s)
        BY <1>1, <1>3, <1>4, <1>8, <3>6, <4>1, <4>2
      <4> QED BY <1>3, <1>13, <3>6, <4>1, <4>3
    <3>5. CASE m # p /\ m # s /\ m # r
      <4>1. Kid(x, e, m) # s /\ Kid(x, e, m) # r /\ (m \in Reds(y) <=> m \in Reds(x))
        BY <1>3, <1>13, <3>5
      <4>2. CASE Kid(x, e, m) = p
        <5>1. Kid(y, e, m) = s /\ Hgt(h1, s) = Hgt(h, Kid(x, e, m)) /\ Hgt(h1, m) = Hgt(h, m)
          BY <1>1, <1>3, <1>4, <1>8, <3>5, <4>2
        <5> QED BY <1>1, <3>5, <4>1, <5>1
      <4>3. CASE Kid(x, e, m) # p
        <5>1. Kid(y, e, m) = Kid(x, e, m) /\ Hgt(h1, Kid(x, e, m)) = Hgt(h, Kid(x, e, m)) /\ Hgt(h1, m) = Hgt(h, m)
          BY <1>1, <1>3, <1>4, <1>8, <3>5, <4>1, <4>3
        <5> QED BY <1>1, <3>5, <4>1, <5>1
      <4> QED BY <4>2, <4>3
    <3> QED BY <1>2, <3>1, <3>2, <3>3, <3>4, <3>5, <3>6
  <2>2. \A e, m : e \in Sides /\ m \in M => Hgt(h1, Kid(y, e, m)) \in Nat
    <3>1. \A e, m : e \in Sides /\ m \in M => Kid(y, e, m) \in Places
      BY <1>1, <1>2, <1>3, <1>4
    <3> QED BY <1>8, <3>1, HeightsIs
  <2>3. Hgt(h1, Sentinel) = 0 /\ Sentinel \notin Reds(y)
    BY <1>1, <1>3, <1>8
  <2> QED BY <1>1, <1>8, <2>1, <2>2, <2>3 DEF Balanced
<1>10. Painted(y, M, None, None)
  <2>1. ASSUME NEW e \in Sides, NEW m \in M, m \in Reds(y), Kid(y, e, m) \in Reds(y) PROVE FALSE
    <3>1. m # p /\ m # r /\ Kid(y, e, m) # p /\ Kid(y, e, m) # r
      BY <1>13, <2>1
    <3>2. CASE m = s
      BY <1>2, <1>11, <3>1, <3>2
    <3>3. CASE m # s /\ Kid(x, e, m) = p
      BY <1>3, <1>4, <1>6, <1>13, <2>1, <3>1, <3>3
    <3>4. CASE m # s /\ Kid(x, e, m) # p
      BY <1>3, <1>4, <1>6, <1>13, <2>1, <3>1, <3>4
    <3> QED BY <3>2, <3>3, <3>4
  <2>2. Root(y) \notin Reds(y)
    BY <1>3, <1>6, <1>13 DEF Turned
  <2> QED BY <2>1, <2>2 DEF Painted
<1> QED BY <1>9, <1>10

\* A red node k that is the root, or where a black node is missing, is made black.
LEMMA MakeBlack ==
    ASSUME NEW x, NEW w, Shape(x, w), NEW M, M = Members(w), NEW k \in M, k \in Reds(x),
           NEW h, NEW hd, NEW hp, Balanced(x, M, h, hd, hp),
           \/ k = Root(x) /\ hp = None
           \/ hd \in Sides /\ hp \in M /\ k = Kid(x, hd, hp),
           Root(x) \in Reds(x) => Root(x) = k,
           \A e, m : e \in Sides /\ m \in M /\ m \in Reds(x) /\ Kid(x, e, m) \in Reds(x) => Kid(x, e, m) = k \/ m = k,
           NEW y, Root(y) = Root(x), Reds(y) = Reds(x) \ {k},
           \A e, m : e \in Sides /\ m \in Places => Kid(y, e, m) = Kid(x, e, m)
    PROVE  (\E h1 : Balanced(y, M, h1, "left", None)) /\ Painted(y, M, None, None)
<1> DEFINE h1 == Raise(h, k, Hgt(h, k) + 1, k, Hgt(h, k) + 1)
<1>1. /\ \A e, m : e \in Sides /\ m \in M =>
             /\ Kid(x, e, m) \in M \cup {Sentinel} /\ Kid(x, e, m) \in Places /\ Kid(x, e, m) # m
             /\ Hgt(h, Kid(x, e, m)) \in Nat
             /\ Hgt(h, m) = Hgt(h, Kid(x, e, m)) + (IF m \in Reds(x) THEN 0 ELSE 1) + (IF e = hd /\ m = hp THEN 1 ELSE 0)
      /\ \A e, m, c : e \in Sides /\ m \in M /\ c = Kid(x, e, m) /\ c \in M => c # Root(x) /\ Par(x, c) = m /\ SideOf(x, c) = e
      /\ Sentinel \notin M /\ None \notin M /\ Sentinel \in Places
      /\ Hgt(h, Sentinel) = 0 /\ Sentinel \notin Reds(x) /\ h \in Heights
      /\ \A m : m \in M => m \in Places
      /\ \A m : m \in Places => Hgt(h, m) \in Nat
  BY HeightFacts
<1>2. /\ h1 \in Heights
      /\ \A m : m \in Places => Hgt(h1, m) = IF m = k THEN Hgt(h, k) + 1 ELSE Hgt(h, m)
  <2>1. Hgt(h, k) + 1 \in Nat
    BY <1>1
  <2> QED BY <1>1, <2>1, RaiseIs
<1> HIDE DEF h1
<1>3. \A e, m : e \in Sides /\ m \in M /\ Kid(x, e, m) = k => e = hd /\ m = hp
  BY <1>1
<1>4. hp \in M => Kid(x, hd, hp) = k
  BY <1>1
<1>5. Balanced(y, M, h1, "left", None)
  <2>1. ASSUME NEW e \in Sides, NEW m \in M
        PROVE  Hgt(h1, m) = Hgt(h1, Kid(y, e, m)) + (IF m \in Reds(y) THEN 0 ELSE 1)
    <3>1. /\ Kid(y, e, m) = Kid(x, e, m) /\ Kid(x, e, m) \in Places /\ Hgt(h, Kid(x, e, m)) \in Nat /\ Hgt(h, m) \in Nat
          /\ Hgt(h, m) = Hgt(h, Kid(x, e, m)) + (IF m \in Reds(x) THEN 0 ELSE 1) + (IF e = hd /\ m = hp THEN 1 ELSE 0)
          /\ Hgt(h1, m) = IF m = k THEN Hgt(h, m) + 1 ELSE Hgt(h, m)
          /\ Hgt(h1, Kid(x, e, m)) = IF Kid(x, e, m) = k THEN Hgt(h, Kid(x, e, m)) + 1 ELSE Hgt(h, Kid(x, e, m))
          /\ Kid(x, e, m) # m
      BY <1>1, <1>2
    <3>2. CASE Kid(x, e, m) = k
      <4>1. e = hd /\ m = hp /\ m # k /\ (m \in Reds(y) <=> m \in Reds(x))
        BY <1>3, <3>1, <3>2
      <4> QED BY <3>1, <3>2, <4>1
    <3>3. CASE Kid(x, e, m) # k
      <4>1. ~(e = hd /\ m = hp)
        BY <1>4, <3>3
      <4>2. CASE m = k
        BY <3>1, <3>3, <4>1, <4>2
      <4>3. CASE m # k
        <5>1. m \in Reds(y) <=> m \in Reds(x)
          BY <4>3
        <5> QED BY <3>1, <3>3, <4>1, <4>3, <5>1
      <4> QED BY <4>2, <4>3
    <3> QED BY <3>2, <3>3
  <2>2. \A e, m : e \in Sides /\ m \in M => Hgt(h1, Kid(y, e, m)) \in Nat
    BY <1>1, <1>2, HeightsIs
  <2>3. Hgt(h1, Sentinel) = 0 /\ Sentinel \notin Reds(y)
    BY <1>1, <1>2
  <2> QED BY <1>1, <1>2, <2>1, <2>2, <2>3 DEF Balanced
<1>6. Painted(y, M, None, None)
  BY <1>1 DEF Painted
<1> QED BY <1>5, <1>6

\* A new red leaf n.
LEMMA LeafColours ==
    ASSUME NEW x, NEW w, Shape(x, w), NEW M, M = Members(w), NEW d \in Sides, NEW p \in M, NEW n \in Nodes \ M,
           NEW h, NEW hd, Balanced(x, M, h, hd, None), Painted(x, M, None, None), Kid(x, d, p) = Sentinel,
           NEW y, Root(y) = Root(x), Reds(y) = Reds(x) \cup {n},
           \A e, m : e \in Sides /\ m \in Places =>
               Kid(y, e, m) = IF m = n THEN Sentinel ELSE IF m = p /\ e = d THEN n ELSE Kid(x, e, m)
    PROVE  /\ \E h1 : /\ Balanced(y, M \cup {n}, h1, "left", None)
                     /\ Hgt(h1, Root(y)) = Hgt(h, Root(x)) /\ Hgt(h1, n) = 0
           /\ Painted(y, M \cup {n}, n, None)
<1> DEFINE h1 == Raise(h, n, 0, n, 0)
<1>1. /\ \A e, m : e \in Sides /\ m \in M =>
             /\ Kid(x, e, m) \in M \cup {Sentinel} /\ Kid(x, e, m) \in Places /\ Kid(x, e, m) # m
             /\ Hgt(h, Kid(x, e, m)) \in Nat
             /\ Hgt(h, m) = Hgt(h, Kid(x, e, m)) + (IF m \in Reds(x) THEN 0 ELSE 1)
      /\ Sentinel \notin M /\ None \notin M /\ Sentinel \in Places /\ Root(x) \in M \cup {Sentinel}
      /\ Hgt(h, Sentinel) = 0 /\ Sentinel \notin Reds(x) /\ h \in Heights
      /\ \A m : m \in M => m \in Places
      /\ \A m : m \in Places => Hgt(h, m) \in Nat
  BY HeightFacts
<1>2. n \in Places /\ n # Sentinel /\ n # None /\ n \notin M
  BY Apart
<1>3. /\ h1 \in Heights
      /\ \A m : m \in Places => Hgt(h1, m) = IF m = n THEN 0 ELSE Hgt(h, m)
  BY <1>1, RaiseIs
<1> HIDE DEF h1
<1>4. Balanced(y, M \cup {n}, h1, "left", None)
  <2>1. ASSUME NEW e \in Sides, NEW m \in M \cup {n}
        PROVE  /\ Hgt(h1, m) = Hgt(h1, Kid(y, e, m)) + (IF m \in Reds(y) THEN 0 ELSE 1)
               /\ Hgt(h1, Kid(y, e, m)) \in Nat /\ m # None
    <3>1. CASE m = n
      <4>1. Kid(y, e, m) = Sentinel /\ m \in Reds(y)
        BY <1>2, <3>1
      <4> QED BY <1>1, <1>2, <1>3, <3>1, <4>1
    <3>2. CASE m = p /\ e = d
      <4>1. Kid(y, e, m) = n /\ m # n /\ m \in Places /\ (m \in Reds(y) <=> m \in Reds(x))
        BY <1>1, <1>2, <3>2
      <4>2. Hgt(h, m) = (IF m \in Reds(x) THEN 0 ELSE 1)
        BY <1>1, <3>2
      <4> QED BY <1>1, <1>2, <1>3, <3>2, <4>1, <4>2
    <3>3. CASE m # n /\ ~(m = p /\ e = d)
      <4>1. /\ Kid(y, e, m) = Kid(x, e, m) /\ m \in M /\ m \in Places /\ (m \in Reds(y) <=> m \in Reds(x))
            /\ Kid(x, e, m) # n /\ Kid(x, e, m) \in Places
        BY <1>1, <1>2, <3>3
      <4>2. Hgt(h1, Kid(y, e, m)) = Hgt(h, Kid(x, e, m)) /\ Hgt(h1, m) = Hgt(h, m)
        BY <1>3, <3>3, <4>1
      <4> QED BY <1>1, <4>1, <4>2
    <3> QED BY <3>1, <3>2, <3>3
  <2>2. Hgt(h1, Sentinel) = 0 /\ Sentinel \notin Reds(y)
    BY <1>1, <1>2, <1>3
  <2> QED BY <1>3, <2>1, <2>2 DEF Balanced
<1>5. Painted(y, M \cup {n}, n, None)
  <2>1. ASSUME NEW e \in Sides, NEW m \in M \cup {n}, m \in Reds(y), Kid(y, e, m) \in Reds(y), Kid(y, e, m) # n PROVE FALSE
    <3>1. m # n
      BY <1>1, <1>2, <2>1
    <3>2. Kid(y, e, m) = Kid(x, e, m)
      BY <1>1, <1>2, <2>1, <3>1
    <3> QED BY <1>1, <2>1, <3>1, <3>2 DEF Painted
  <2>2. Root(y) \notin Reds(y)
    BY <1>1, <1>2 DEF Painted
  <2> QED BY <2>1, <2>2 DEF Painted
<1>6. Hgt(h1, Root(y)) = Hgt(h, Root(x)) /\ Hgt(h1, n) = 0
  BY <1>1, <1>2, <1>3
<1> QED BY <1>4, <1>5, <1>6

\* A tree that is not empty has a root.
LEMMA RootIs ==
    ASSUME NEW x, NEW w, Shape(x, w)
    PROVE  /\ Root(x) = Sentinel <=> Members(w) = {}
           /\ Root(x) # Sentinel => Root(x) \in Members(w) /\ Bnd(w, "left", Root(x)) = 0 /\ Bnd(w, "right", Root(x)) = Size(w) + 1
           /\ Root(x) = Sentinel => Size(w) = 0
<1>1. Spans(w, Root(x), "left", 0, Size(w) + 1) /\ Size(w) \in Nat
  BY ShapeTypes DEF Shape, Spanned
<1>2. Root(x) = Sentinel => Size(w) = 0
  BY <1>1, ShapeTypes DEF Spans
<1>3. Root(x) # Sentinel => Root(x) \in Members(w) /\ Bnd(w, "left", Root(x)) = 0 /\ Bnd(w, "right", Root(x)) = Size(w) + 1
  BY <1>1, LeftRight DEF Spans
<1>4. Size(w) = 0 => Members(w) = {}
  BY <1>1, ShapeTypes
<1> QED BY <1>1, <1>2, <1>3, <1>4

\* The colours of y, where n was deleted from the nodes M of x: s took the
\* place of n, c that of s, and u is the parent of c now.
Recoloured(x, y, M, n, s, c, u) ==
    /\ s = Root(x) \/ s \in Reds(x) =>
          /\ \E h1 : Balanced(y, M \ {n}, h1, "left", None)
          /\ Painted(y, M \ {n}, None, None)
    /\ s # Root(x) /\ s \notin Reds(x) =>
          /\ \E h1 : Balanced(y, M \ {n}, h1, SideOf(x, s), u)
          /\ Painted(y, M \ {n}, c, c)
          /\ SideOf(x, s) \in Sides /\ u \in M \ {n} /\ Kid(y, SideOf(x, s), u) = c
          /\ c # Root(y)

\* rbtree_delete: the colours after s has taken the place of n, and c of s.
LEMMA DeleteColours ==
    ASSUME NEW x, NEW w, Shape(x, w), NEW M, M = Members(w), NEW n \in M, NEW s \in M,
           NEW d \in Sides, Kid(x, d, s) = Sentinel, NEW c, c = Kid(x, Other(d), s),
           NEW h, NEW hd, Balanced(x, M, h, hd, None), Painted(x, M, None, None),
           s = Root(x) => s = n,
           NEW y, Root(y) = Now(n, s, c, Root(x)),
           Reds(y) = IF s = Root(x) THEN Reds(x) \ {c}
                     ELSE IF s = n THEN Reds(x)
                     ELSE IF n \in Reds(x) THEN Reds(x) \cup {s} ELSE Reds(x) \ {s},
           \A e, m : e \in Sides /\ m \in M \ {n} => Kid(y, e, m) = Now(n, s, c, Kid(x, e, Before(n, s, m))),
           NEW u, u = IF s # n /\ Par(x, s) = n THEN s ELSE Par(x, s)
    PROVE  Recoloured(x, y, M, n, s, c, u)
<1>1. /\ \A e, m : e \in Sides /\ m \in M =>
             /\ Kid(x, e, m) \in M \cup {Sentinel} /\ Kid(x, e, m) \in Places /\ Kid(x, e, m) # m
             /\ Hgt(h, Kid(x, e, m)) \in Nat
             /\ Hgt(h, m) = Hgt(h, Kid(x, e, m)) + (IF m \in Reds(x) THEN 0 ELSE 1)
      /\ \A e, m, k : e \in Sides /\ m \in M /\ k = Kid(x, e, m) /\ k \in M => k # Root(x) /\ Par(x, k) = m /\ SideOf(x, k) = e
      /\ Sentinel \notin M /\ None \notin M /\ Sentinel \in Places /\ Root(x) \in M \cup {Sentinel}
      /\ Hgt(h, Sentinel) = 0 /\ Sentinel \notin Reds(x) /\ h \in Heights
      /\ \A m : m \in M => m \in Places
      /\ \A m : m \in Places => Hgt(h, m) \in Nat
  BY HeightFacts
<1>2. /\ c \in M \cup {Sentinel} /\ c \in Places /\ c # s /\ Hgt(h, s) = Hgt(h, c) + (IF s \in Reds(x) THEN 0 ELSE 1)
      /\ \A e : e \in Sides => Kid(x, e, s) = c \/ Kid(x, e, s) = Sentinel
      /\ s # n => s # Root(x)
  BY <1>1, Mirror
<1>3. /\ Root(x) \notin Reds(x)
      /\ \A e, m : e \in Sides /\ m \in M /\ m \in Reds(x) => Kid(x, e, m) \notin Reds(x)
  BY <1>1, Apart DEF Painted
<1>4. \A e, m : e \in Sides /\ m \in M /\ m # s /\ Kid(x, e, m) = c => c = Sentinel
  BY <1>1, <1>2, Mirror
<1>5. Root(x) # Sentinel
  BY RootIs
<1>6. CASE s = Root(x)
  <2> DEFINE h1 == IF c \in Reds(x) THEN Raise(h, c, Hgt(h, c) + 1, c, Hgt(h, c) + 1) ELSE h
  <2>1. /\ h1 \in Heights
        /\ \A m : m \in Places /\ m # c => Hgt(h1, m) = Hgt(h, m)
        /\ Hgt(h1, Sentinel) = 0
    <3>1. CASE c \in Reds(x)
      <4>1. Hgt(h, c) + 1 \in Nat /\ c # Sentinel
        BY <1>1, <1>2, <3>1
      <4>2. h1 = Raise(h, c, Hgt(h, c) + 1, c, Hgt(h, c) + 1)
        BY <3>1
      <4> HIDE DEF h1
      <4> QED BY <1>1, <4>1, <4>2, RaiseIs
    <3>2. CASE c \notin Reds(x)
      BY <1>1, <3>2
    <3> QED BY <3>1, <3>2
  <2>2. c \in M => c \in Places /\ Hgt(h1, c) = Hgt(h, c) + (IF c \in Reds(x) THEN 1 ELSE 0)
    <3> SUFFICES ASSUME c \in M PROVE Hgt(h1, c) = Hgt(h, c) + (IF c \in Reds(x) THEN 1 ELSE 0)
      BY <1>2
    <3>1. CASE c \in Reds(x)
      <4>1. Hgt(h, c) + 1 \in Nat
        BY <1>1, <1>2, <3>1
      <4>2. h1 = Raise(h, c, Hgt(h, c) + 1, c, Hgt(h, c) + 1)
        BY <3>1
      <4> HIDE DEF h1
      <4> QED BY <1>1, <1>2, <3>1, <4>1, <4>2, RaiseIs
    <3>2. CASE c \notin Reds(x)
      BY <1>1, <1>2, <3>2
    <3> QED BY <3>1, <3>2
  <2> HIDE DEF h1
  <2>3. s = n /\ Root(y) = c /\ Reds(y) = Reds(x) \ {c}
    BY <1>6 DEF Now
  <2>4. \A e, m : e \in Sides /\ m \in M \ {n} => Kid(y, e, m) = Kid(x, e, m) /\ (Kid(x, e, m) = c => c = Sentinel)
    BY <1>1, <1>4, <1>6, <2>3 DEF Now, Before
  <2>5. ASSUME NEW e \in Sides, NEW m \in M \ {n}
        PROVE  Hgt(h1, m) = Hgt(h1, Kid(y, e, m)) + (IF m \in Reds(y) THEN 0 ELSE 1) /\ Hgt(h1, Kid(y, e, m)) \in Nat
    <3>0. /\ Kid(y, e, m) = Kid(x, e, m) /\ Kid(x, e, m) \in Places /\ Hgt(h, Kid(x, e, m)) \in Nat /\ Hgt(h, m) \in Nat
          /\ Hgt(h, m) = Hgt(h, Kid(x, e, m)) + (IF m \in Reds(x) THEN 0 ELSE 1) /\ m \in Places
      BY <1>1, <2>4
    <3>1. Hgt(h1, Kid(x, e, m)) = Hgt(h, Kid(x, e, m))
      BY <1>1, <2>1, <2>4, <3>0
    <3>2. CASE m = c
      <4>1. m \notin Reds(y)
        BY <2>3, <3>2
      <4>2. Hgt(h1, m) = Hgt(h, m) + (IF m \in Reds(x) THEN 1 ELSE 0)
        BY <2>2, <3>2
      <4> QED BY <3>0, <3>1, <4>1, <4>2
    <3>3. CASE m # c
      <4>1. (m \in Reds(y) <=> m \in Reds(x)) /\ Hgt(h1, m) = Hgt(h, m)
        BY <2>1, <2>3, <3>0, <3>3
      <4> QED BY <3>0, <3>1, <4>1
    <3> QED BY <3>2, <3>3
  <2>6. Balanced(y, M \ {n}, h1, "left", None)
    BY <1>1, <2>1, <2>3, <2>5 DEF Balanced
  <2>7. Painted(y, M \ {n}, None, None)
    <3>1. \A e, m : e \in Sides /\ m \in M \ {n} /\ m \in Reds(y) => Kid(y, e, m) \notin Reds(y)
      BY <1>3, <2>3, <2>4
    <3> QED BY <2>3, <3>1 DEF Painted
  <2> QED BY <1>6, <2>6, <2>7 DEF Recoloured
<1>7. CASE s # Root(x)
  <2> DEFINE h1 == Raise(h, s, Hgt(h, n), s, Hgt(h, n))
             D == SideOf(x, s)
             b(m) == Before(n, s, m)
  <2>1. /\ h1 \in Heights
        /\ \A m : m \in Places => Hgt(h1, m) = IF m = s THEN Hgt(h, n) ELSE Hgt(h, m)
    BY <1>1, RaiseIs
  <2>2. /\ D \in Sides /\ Par(x, s) \in M /\ Kid(x, D, Par(x, s)) = s /\ Par(x, s) # s
        /\ \A e, m : e \in Sides /\ m \in M /\ Kid(x, e, m) = s => e = D /\ m = Par(x, s)
    BY <1>7, ParentIs
  <2> HIDE DEF h1, D
  <2>3. u \in M \ {n} /\ b(u) = Par(x, s) /\ \A m : m \in M \ {n} /\ b(m) = Par(x, s) => m = u
    BY <2>2 DEF Before
  <2>4. ASSUME NEW m \in M \ {n}
        PROVE  /\ b(m) \in M /\ Hgt(h1, m) = Hgt(h, b(m)) /\ (m \in Reds(y) <=> b(m) \in Reds(x))
               /\ s # n => b(m) # s
    <3>1. CASE m = s
      <4>1. s # n /\ b(m) = n /\ Reds(y) = IF n \in Reds(x) THEN Reds(x) \cup {s} ELSE Reds(x) \ {s}
        BY <1>7, <3>1 DEF Before
      <4> QED BY <1>1, <2>1, <3>1, <4>1
    <3>2. CASE m # s
      <4>1. b(m) = m /\ (m \in Reds(y) <=> m \in Reds(x))
        BY <1>7, <3>2 DEF Before
      <4> QED BY <1>1, <2>1, <3>2, <4>1
    <3> QED BY <3>1, <3>2
  <2>5. ASSUME NEW e \in Sides, NEW m \in M \ {n}
        PROVE  LET k == Kid(x, e, b(m)) IN
               /\ k = s => e = D /\ m = u /\ Kid(y, e, m) = c
               /\ k # s => /\ ~(e = D /\ m = u) /\ Hgt(h1, Kid(y, e, m)) = Hgt(h, k) /\ (Kid(y, e, m) \in Reds(y) <=> k \in Reds(x))
    <3> DEFINE k == Kid(x, e, b(m))
    <3>1. k \in M \cup {Sentinel} /\ k \in Places /\ Kid(y, e, m) = Now(n, s, c, k) /\ b(m) \in M
      BY <1>1, <2>4
    <3>2. CASE k = s
      BY <2>2, <2>3, <2>4, <3>1, <3>2 DEF Now
    <3>3. CASE k # s
      <4>1. ~(e = D /\ m = u)
        BY <2>2, <2>3, <3>3
      <4>2. Hgt(h1, Kid(y, e, m)) = Hgt(h, k) /\ (Kid(y, e, m) \in Reds(y) <=> k \in Reds(x))
        <5>1. CASE k = n
          <6>1. Kid(y, e, m) = s /\ s # n
            BY <3>1, <3>3, <5>1 DEF Now
          <6> QED BY <1>1, <1>7, <2>1, <5>1, <6>1
        <5>2. CASE k # n
          <6>1. Kid(y, e, m) = k
            BY <3>1, <3>3, <5>2 DEF Now
          <6> QED BY <1>7, <2>1, <3>1, <3>3, <6>1
        <5> QED BY <5>1, <5>2
      <4> QED BY <3>3, <4>1, <4>2
    <3> QED BY <3>2, <3>3
  <2>6. /\ Root(y) \notin Reds(y) /\ c # Root(y)
        /\ Hgt(h1, Sentinel) = 0 /\ Sentinel \notin Reds(y) /\ Hgt(h1, c) = Hgt(h, c)
    <3>1. Root(y) = IF Root(x) = n THEN s ELSE Root(x)
      BY <1>7 DEF Now
    <3>2. c # Root(x)
      BY <1>1, <1>2, <1>5, Mirror
    <3>3. Root(y) \notin Reds(y)
      BY <1>3, <1>7, <3>1
    <3> QED BY <1>1, <1>2, <1>7, <2>1, <3>1, <3>2, <3>3
  <2>7. ASSUME NEW e \in Sides, NEW m \in M \ {n}
        PROVE  /\ Hgt(h1, Kid(y, e, m)) \in Nat
               /\ Hgt(h1, m) = Hgt(h1, Kid(y, e, m)) + (IF m \in Reds(y) THEN 0 ELSE 1)
                                    + (IF e = D /\ m = u /\ s \notin Reds(x) THEN 1 ELSE 0)
    <3>1. /\ Hgt(h1, m) = Hgt(h, b(m)) /\ (m \in Reds(y) <=> b(m) \in Reds(x)) /\ b(m) \in M
          /\ Hgt(h, b(m)) = Hgt(h, Kid(x, e, b(m))) + (IF b(m) \in Reds(x) THEN 0 ELSE 1)
          /\ Hgt(h, Kid(x, e, b(m))) \in Nat /\ Hgt(h, c) \in Nat
      BY <1>1, <1>2, <2>4
    <3>2. CASE Kid(x, e, b(m)) = s
      <4>1. e = D /\ m = u /\ Kid(y, e, m) = c
        BY <2>5, <3>2
      <4> QED BY <1>2, <2>6, <3>1, <3>2, <4>1
    <3>3. CASE Kid(x, e, b(m)) # s
      <4>1. ~(e = D /\ m = u) /\ Hgt(h1, Kid(y, e, m)) = Hgt(h, Kid(x, e, b(m)))
        BY <2>5, <3>3
      <4> QED BY <3>1, <4>1
    <3> QED BY <3>2, <3>3
  <2>8. ASSUME NEW e \in Sides, NEW m \in M \ {n}, m \in Reds(y), Kid(y, e, m) \in Reds(y)
        PROVE  s \notin Reds(x) /\ Kid(y, e, m) = c
    <3>1. b(m) \in M /\ b(m) \in Reds(x)
      BY <2>4, <2>8
    <3>2. Kid(x, e, b(m)) = s
      BY <1>3, <2>5, <2>8, <3>1
    <3> QED BY <1>3, <2>5, <3>1, <3>2
  <2>9. CASE s \in Reds(x)
    <3>1. Balanced(y, M \ {n}, h1, "left", None)
      BY <1>1, <2>1, <2>6, <2>7, <2>9 DEF Balanced
    <3>2. Painted(y, M \ {n}, None, None)
      BY <2>6, <2>8, <2>9 DEF Painted
    <3> QED BY <1>7, <2>9, <3>1, <3>2 DEF Recoloured
  <2>10. CASE s \notin Reds(x)
    <3>1. Balanced(y, M \ {n}, h1, D, u)
      BY <1>1, <2>1, <2>6, <2>7, <2>10 DEF Balanced
    <3>2. Painted(y, M \ {n}, c, c)
      BY <2>6, <2>8, <2>10 DEF Painted
    <3>3. Kid(y, D, u) = c
      BY <2>2, <2>3, <2>5
    <3> QED BY <1>7, <2>2, <2>3, <2>6, <2>10, <3>1, <3>2, <3>3 DEF D, Recoloured
  <2> QED BY <2>9, <2>10
<1> QED BY <1>6, <1>7

-----------------------------------------------------------------------------
(* The first trees. *)

\* The empty tree of rbtree_init.
LEMMA EmptyShape ==
    ASSUME NEW x, x = [root   |-> Sentinel,
                       kid    |-> [d \in Sides |-> [n \in Places |-> None]],
                       parent |-> [n \in Places |-> None],
                       red    |-> [n \in Places |-> FALSE]]
    PROVE  \E w, h : /\ Shape(x, w) /\ Members(w) = {}
                     /\ Balanced(x, {}, h, "left", None) /\ Painted(x, {}, None, None)
                     /\ Reds(x) = {}
<1> DEFINE w == Layout({}, 0, [n \in Nodes |-> 0], [d \in Sides |-> [n \in Nodes |-> 0]])
           h == [n \in Places |-> 0]
<1>1. w \in Layouts /\ Members(w) = {} /\ Size(w) = 0
  <2>1. {} \in SUBSET Nodes /\ 0 \in Nat /\ [n \in Nodes |-> 0] \in [Nodes -> Int]
        /\ [d \in Sides |-> [n \in Nodes |-> 0]] \in [Sides -> [Nodes -> Int]]
    OBVIOUS
  <2> QED BY <2>1, LayoutIs
<1>2. /\ x \in Trees /\ Root(x) = Sentinel /\ Reds(x) = {}
      /\ \A d, n : d \in Sides /\ n \in Places => Kid(x, d, n) = None
  BY Apart DEF Trees, Root, Kid, Reds
<1> HIDE DEF w
<1>3. Numbered(w) /\ Nested(w)
  BY <1>1 DEF Numbered, Nested
<1>4. Spanned(x, w) /\ Detached(x, w) /\ Parented(x, w)
  BY <1>1, <1>2 DEF Spanned, Spans, Detached, Parented
<1>5. h \in Heights /\ Hgt(h, Sentinel) = 0
  BY Apart DEF Heights, Hgt
<1> HIDE DEF h
<1>6. Balanced(x, {}, h, "left", None)
  BY <1>2, <1>5 DEF Balanced
<1>7. Painted(x, {}, None, None)
  BY <1>2 DEF Painted
<1> QED BY <1>1, <1>2, <1>3, <1>4, <1>6, <1>7 DEF Shape

\* rbtree_insert into an empty tree.
LEMMA FirstShape ==
    ASSUME NEW x, NEW w, Shape(x, w), Root(x) = Sentinel, Sentinel \notin Reds(x), NEW n \in Nodes,
           NEW y, y = SetRoot(Black(Leaf(x, n, None), n), n)
    PROVE  \E v, h : /\ Shape(y, v) /\ Members(v) = {n}
                     /\ Balanced(y, {n}, h, "left", None) /\ Painted(y, {n}, None, None)
<1> DEFINE v == Layout({n}, 1, [m \in Nodes |-> 1], [d \in Sides |-> [m \in Nodes |-> IF d = "left" THEN 0 ELSE 2]])
           h == [m \in Places |-> IF m = n THEN 1 ELSE 0]
           x1 == SetKids(x, n, Sentinel, Sentinel)
           x2 == SetParent(x1, n, None)
           x3 == Black(x2, n)
<1>1. /\ v \in Layouts /\ Members(v) = {n} /\ Size(v) = 1 /\ Pos(v, n) = 1
      /\ Bnd(v, "left", n) = 0 /\ Bnd(v, "right", n) = 2
  <2>1. {n} \in SUBSET Nodes /\ 1 \in Nat /\ [m \in Nodes |-> 1] \in [Nodes -> Int]
        /\ [d \in Sides |-> [m \in Nodes |-> IF d = "left" THEN 0 ELSE 2]] \in [Sides -> [Nodes -> Int]]
    OBVIOUS
  <2>2. /\ Bnd(v, "left", n) = [d \in Sides |-> [m \in Nodes |-> IF d = "left" THEN 0 ELSE 2]]["left"][n]
        /\ Bnd(v, "right", n) = [d \in Sides |-> [m \in Nodes |-> IF d = "left" THEN 0 ELSE 2]]["right"][n]
    BY LayoutIs
  <2>3. Bnd(v, "left", n) = 0 /\ Bnd(v, "right", n) = 2
    BY <2>2, LeftRight
  <2>4. v \in Layouts /\ Members(v) = {n} /\ Size(v) = 1 /\ Pos(v, n) = 1
    BY <2>1, LayoutIs
  <2> QED BY <2>3, <2>4
<1>2. /\ x \in Trees /\ n \in Places /\ n # Sentinel /\ n # None /\ Sentinel \in Places /\ Members(w) = {}
      /\ \A d, m : d \in Sides /\ m \in Places => Kid(x, d, m) = None
  BY ShapeTypes, RootIs, Apart DEF Shape, Detached
<1>3. /\ x1 \in Trees /\ Reds(x1) = Reds(x)
      /\ \A e, m : e \in Sides /\ m \in Places => Kid(x1, e, m) = IF m = n THEN Sentinel ELSE None
  BY <1>2, SetKidsEffect
<1> HIDE DEF x1
<1>4. /\ x2 \in Trees /\ Reds(x2) = Reds(x)
      /\ \A e, m : e \in Sides /\ m \in Places => Kid(x2, e, m) = IF m = n THEN Sentinel ELSE None
  BY <1>2, <1>3, SetParentEffect
<1> HIDE DEF x2
<1>5. /\ x3 \in Trees /\ Reds(x3) = Reds(x) \ {n}
      /\ \A e, m : e \in Sides /\ m \in Places => Kid(x3, e, m) = IF m = n THEN Sentinel ELSE None
  BY <1>2, <1>4, ColourEffect
<1>6. y = SetRoot(x3, n)
  BY DEF Leaf, x3, x2, x1
<1> HIDE DEF x3
<1>7. /\ y \in Trees /\ Root(y) = n /\ Reds(y) = Reds(x) \ {n}
      /\ \A e, m : e \in Sides /\ m \in Places => Kid(y, e, m) = IF m = n THEN Sentinel ELSE None
  BY <1>2, <1>5, <1>6, SetRootEffect
<1> HIDE DEF v
<1>8. Numbered(v) /\ Nested(v)
  BY <1>1 DEF Numbered, Nested
<1>9. Spanned(y, v)
  BY <1>1, <1>2, <1>7, LeftRight DEF Spanned, Spans
<1>10. Detached(y, v) /\ Parented(y, v)
  BY <1>1, <1>2, <1>7 DEF Detached, Parented
<1>11. h \in Heights /\ Hgt(h, Sentinel) = 0 /\ Hgt(h, n) = 1
  BY <1>2 DEF Heights, Hgt
<1> HIDE DEF h
<1>12. Balanced(y, {n}, h, "left", None)
  BY <1>2, <1>7, <1>11 DEF Balanced
<1>13. Painted(y, {n}, None, None)
  BY <1>2, <1>7 DEF Painted
<1> QED BY <1>1, <1>7, <1>8, <1>9, <1>10, <1>12, <1>13 DEF Shape

-----------------------------------------------------------------------------
(* The walk through the nodes in their order. *)

\* The nodes between the positions a and b.
Part(w, a, b) == [i \in 1 .. b - a - 1 |-> At(w, a + i)]

\* s is a list of the n nodes after position a.
Lists(s, w, a, n) == s \in Seq(Nodes) /\ Len(s) = n /\ \A i : i \in 1 .. n => s[i] = At(w, a + i)

\* The list of a part of the positions has its length and its nodes.
LEMMA PartIs ==
    ASSUME NEW x, NEW w, Shape(x, w), NEW a \in Nat, NEW b \in Nat, a < b, b <= Size(w) + 1
    PROVE  Lists(Part(w, a, b), w, a, b - a - 1)
<1>1. Size(w) \in Nat /\ \A i : i \in 1 .. Size(w) => At(w, i) \in Nodes
  BY ShapeTypes, AtIs DEF Shape
<1>2. b - a - 1 \in Nat /\ \A i : i \in 1 .. b - a - 1 => At(w, a + i) \in Nodes
  BY <1>1
<1>3. Part(w, a, b) \in [1 .. b - a - 1 -> Nodes]
  BY <1>2 DEF Part
<1>4. Part(w, a, b) \in Seq(Nodes)
  BY <1>2, <1>3
<1>5. Len(Part(w, a, b)) = b - a - 1
  BY <1>2 DEF Part
<1> QED BY <1>4, <1>5 DEF Part, Lists

\* Two lists of neighbouring parts make one.
LEMMA ListsJoin ==
    ASSUME NEW w, NEW a \in Nat, NEW m \in Nat, NEW n \in Nat,
           NEW s, Lists(s, w, a, m), NEW r, Lists(r, w, a + m, n)
    PROVE  Lists(s \o r, w, a, m + n)
<1>1. s \in Seq(Nodes) /\ Len(s) = m /\ r \in Seq(Nodes) /\ Len(r) = n
  BY DEF Lists
<1>2. /\ s \o r \in Seq(Nodes) /\ Len(s \o r) = m + n
      /\ \A i \in 1 .. m + n : (s \o r)[i] = IF i <= m THEN s[i] ELSE r[i - m]
  BY <1>1, ConcatProperties
<1>3. ASSUME NEW i \in 1 .. m + n PROVE (s \o r)[i] = At(w, a + i)
  <2>1. CASE i <= m
    <3>1. i \in 1 .. m /\ (s \o r)[i] = s[i]
      BY <1>2, <2>1
    <3> QED BY <3>1 DEF Lists
  <2>2. CASE i > m
    <3>1. i - m \in 1 .. n /\ (s \o r)[i] = r[i - m] /\ a + m + (i - m) = a + i
      BY <1>2, <2>2
    <3> QED BY <3>1 DEF Lists
  <2>3. i <= m \/ i > m
    OBVIOUS
  <2> QED BY <2>1, <2>2, <2>3
<1> QED BY <1>2, <1>3 DEF Lists

\* A part is what is left of a position, the node there, and what is right of it.
LEMMA PartJoins ==
    ASSUME NEW x, NEW w, Shape(x, w), NEW a \in Nat, NEW p \in Nat, NEW b \in Nat, a < p, p < b, b <= Size(w) + 1
    PROVE  Part(w, a, b) = Part(w, a, p) \o <<At(w, p)>> \o Part(w, p, b)
<1>1. Size(w) \in Nat
  BY ShapeTypes
<1>2. Lists(Part(w, a, p), w, a, p - a - 1) /\ Lists(Part(w, p, b), w, p, b - p - 1) /\ Lists(Part(w, a, b), w, a, b - a - 1)
  <2>1. a < b /\ p <= Size(w) + 1
    BY <1>1
  <2> QED BY <2>1, PartIs
<1>3. Lists(<<At(w, p)>>, w, p - 1, 1)
  <2>1. At(w, p) \in Nodes
    BY <1>1, ShapeTypes, AtIs DEF Shape
  <2>2. <<At(w, p)>> \in Seq(Nodes) /\ Len(<<At(w, p)>>) = 1 /\ <<At(w, p)>>[1] = At(w, p)
    BY <2>1
  <2>3. \A i : i \in 1 .. 1 => i = 1 /\ p - 1 + i = p
    OBVIOUS
  <2> QED BY <2>2, <2>3 DEF Lists
<1>4. Lists(Part(w, a, p) \o <<At(w, p)>>, w, a, p - a)
  <2>1. p - a - 1 \in Nat /\ a + (p - a - 1) = p - 1 /\ (p - a - 1) + 1 = p - a
    OBVIOUS
  <2>2. Lists(<<At(w, p)>>, w, a + (p - a - 1), 1)
    BY <1>3, <2>1
  <2>3. Lists(Part(w, a, p) \o <<At(w, p)>>, w, a, (p - a - 1) + 1)
    BY <1>2, <2>1, <2>2, ListsJoin
  <2> QED BY <2>1, <2>3
<1>5. Lists(Part(w, a, p) \o <<At(w, p)>> \o Part(w, p, b), w, a, b - a - 1)
  <2>1. p - a \in Nat /\ b - p - 1 \in Nat /\ a + (p - a) = p /\ (p - a) + (b - p - 1) = b - a - 1
    OBVIOUS
  <2>2. Lists(Part(w, p, b), w, a + (p - a), b - p - 1)
    BY <1>2, <2>1
  <2>3. Lists((Part(w, a, p) \o <<At(w, p)>>) \o Part(w, p, b), w, a, (p - a) + (b - p - 1))
    BY <1>4, <2>1, <2>2, ListsJoin
  <2> QED BY <2>1, <2>3
<1> DEFINE s == Part(w, a, b)
           r == Part(w, a, p) \o <<At(w, p)>> \o Part(w, p, b)
<1>6. Lists(s, w, a, b - a - 1) /\ Lists(r, w, a, b - a - 1)
  BY <1>2, <1>5
<1> HIDE DEF s, r
<1>7. s \in Seq(Nodes) /\ r \in Seq(Nodes) /\ Len(s) = Len(r) /\ \A i \in 1 .. Len(s) : s[i] = r[i]
  BY <1>6 DEF Lists
<1>8. s = r
  BY <1>7, SeqEqual
<1> QED BY <1>8 DEF s, r

\* f is a walk through the subtrees of x, as InOrder defines it.
WalkEqn(x, f) ==
    f = [n \in Places \cup {None} |->
            IF n \notin Nodes THEN <<>> ELSE f[Kid(x, "left", n)] \o <<n>> \o f[Kid(x, "right", n)]]

\* The bounds of a member, as numbers, and its kids.
LEMMA Bounds ==
    ASSUME NEW x, NEW w, Shape(x, w), NEW m \in Members(w)
    PROVE  /\ Bnd(w, "left", m) \in Nat /\ Bnd(w, "right", m) \in Nat /\ Pos(w, m) \in Nat
           /\ Bnd(w, "left", m) < Pos(w, m) /\ Pos(w, m) < Bnd(w, "right", m) /\ Bnd(w, "right", m) <= Size(w) + 1
           /\ \/ Kid(x, "left", m) = Sentinel /\ Pos(w, m) = Bnd(w, "left", m) + 1
              \/ /\ Kid(x, "left", m) \in Members(w)
                 /\ Bnd(w, "left", Kid(x, "left", m)) = Bnd(w, "left", m) /\ Bnd(w, "right", Kid(x, "left", m)) = Pos(w, m)
           /\ \/ Kid(x, "right", m) = Sentinel /\ Bnd(w, "right", m) = Pos(w, m) + 1
              \/ /\ Kid(x, "right", m) \in Members(w)
                 /\ Bnd(w, "left", Kid(x, "right", m)) = Pos(w, m) /\ Bnd(w, "right", Kid(x, "right", m)) = Bnd(w, "right", m)
<1>1. m \in Members(w)
  OBVIOUS
<1>2. Bnd(w, "left", m) \in Nat /\ Bnd(w, "right", m) \in Nat /\ Pos(w, m) \in Nat
      /\ Bnd(w, "left", m) < Pos(w, m) /\ Pos(w, m) < Bnd(w, "right", m) /\ Bnd(w, "right", m) <= Size(w) + 1
  BY <1>1, ShapeTypes
<1> QED BY <1>2, KidOrNot, LeftRight

\* The nodes that are linked, in their order, are the members by position.
LEMMA InOrderIs ==
    ASSUME NEW x, NEW w, Shape(x, w)
    PROVE  InOrder(x) = Part(w, 0, Size(w) + 1)
<1> DEFINE M == Members(w)
           P == Places \cup {None}
           part(n) == Part(w, Bnd(w, "left", n), Bnd(w, "right", n))
           g == [n \in P |-> IF n \in M THEN part(n) ELSE IF n \in Nodes THEN <<>> \o <<n>> \o <<>> ELSE <<>>]
           f == CHOOSE f : WalkEqn(x, f)
<1>1. InOrder(x) = f[Root(x)]
  BY DEF InOrder, WalkEqn, Kid, Root
<1>2. /\ M \subseteq Nodes /\ Nodes \subseteq P /\ Sentinel \in P /\ None \in P
      /\ Sentinel \notin Nodes /\ None \notin Nodes
      /\ \A e, n : e \in Sides /\ n \in Nodes \ M => Kid(x, e, n) = None
  BY ShapeTypes, Apart DEF Shape, Detached
<1>3. \A n : n \in M => At(w, Pos(w, n)) = n
  BY AtIs DEF Shape
<1>4. Part(w, 0, 1) = <<>> /\ \A a : a \in Nat => Part(w, a, a + 1) = <<>>
  <2>1. ASSUME NEW a \in Nat PROVE Part(w, a, a + 1) = <<>>
    <3>1. a + 1 - a - 1 = 0
      OBVIOUS
    <3> QED BY <3>1 DEF Part
  <2> QED BY <2>1
<1> HIDE DEF M, P, part
<1>5. WalkEqn(x, g)
  <2>1. ASSUME NEW n \in P
        PROVE  g[n] = IF n \notin Nodes THEN <<>> ELSE g[Kid(x, "left", n)] \o <<n>> \o g[Kid(x, "right", n)]
    <3>1. CASE n \notin Nodes
      BY <1>2, <3>1
    <3>2. CASE n \in Nodes \ M
      <4>1. Kid(x, "left", n) = None /\ Kid(x, "right", n) = None
        BY <1>2, <3>2, LeftRight
      <4>2. g[None] = <<>>
        BY <1>2
      <4> QED BY <1>2, <3>2, <4>1, <4>2
    <3>3. CASE n \in M
      <4>1. g[n] = part(n) /\ n \in Nodes
        BY <1>2, <3>3
      <4>2. part(n) = Part(w, Bnd(w, "left", n), Pos(w, n)) \o <<n>> \o Part(w, Pos(w, n), Bnd(w, "right", n))
        <5>1. n \in Members(w)
          BY <3>3 DEF M
        <5>2. Part(w, Bnd(w, "left", n), Bnd(w, "right", n)) =
                 Part(w, Bnd(w, "left", n), Pos(w, n)) \o <<At(w, Pos(w, n))>> \o Part(w, Pos(w, n), Bnd(w, "right", n))
          <6>1. /\ Bnd(w, "left", n) \in Nat /\ Bnd(w, "right", n) \in Nat /\ Pos(w, n) \in Nat
                /\ Bnd(w, "left", n) < Pos(w, n) /\ Pos(w, n) < Bnd(w, "right", n) /\ Bnd(w, "right", n) <= Size(w) + 1
            BY <5>1, Bounds
          <6> QED BY <6>1, PartJoins
        <5> QED BY <1>3, <3>3, <5>2 DEF part
      <4>3. g[Kid(x, "left", n)] = Part(w, Bnd(w, "left", n), Pos(w, n))
        BY <1>2, <1>4, <3>3, Bounds DEF M, part
      <4>4. g[Kid(x, "right", n)] = Part(w, Pos(w, n), Bnd(w, "right", n))
        BY <1>2, <1>4, <3>3, Bounds DEF M, part
      <4> HIDE DEF g
      <4> QED BY <4>1, <4>2, <4>3, <4>4
    <3> QED BY <3>1, <3>2, <3>3
  <2> HIDE DEF g
  <2>2. g = [n \in P |-> g[n]]
    BY DEF g
  <2> QED BY <2>1, <2>2 DEF WalkEqn, P
<1>6. WalkEqn(x, f)
  BY <1>5
<1> HIDE DEF f, g
<1>7. \A n : n \in P => f[n] = IF n \notin Nodes THEN <<>> ELSE f[Kid(x, "left", n)] \o <<n>> \o f[Kid(x, "right", n)]
  BY <1>6 DEF WalkEqn, P
<1>8. \A n : n \in M => f[n] = part(n)
  <2> SUFFICES ASSUME NEW b \in M, f[b] # part(b) PROVE FALSE
    OBVIOUS
  <2> DEFINE Bad == {m \in M : f[m] # part(m)}
             width(m) == Bnd(w, "right", m) - Bnd(w, "left", m)
             T == {width(m) : m \in Bad}
  <2>1. T \in SUBSET Nat /\ T # {}
    <3>1. \A m : m \in M => width(m) \in Nat
      BY Bounds DEF M
    <3> QED BY <3>1
  <2>2. PICK i \in T : \A j \in T : i <= j
    BY <2>1, LeastNumber
  <2>3. PICK m \in Bad : width(m) = i
    OBVIOUS
  <2>4. m \in M /\ m \in Members(w) /\ f[m] # part(m)
    BY <2>3 DEF M
  <2>5. ASSUME NEW k \in M, width(k) < width(m) PROVE f[k] = part(k)
    <3>1. ASSUME NEW l \in Bad PROVE width(m) <= width(l)
      BY <2>2, <2>3
    <3>2. width(m) \in Int /\ width(k) \in Int
      BY <2>4, Bounds DEF M
    <3>3. k \notin Bad
      BY <2>5, <3>1, <3>2
    <3> QED BY <3>3
  <2> HIDE DEF Bad, T
  <2>6. f[Kid(x, "left", m)] = Part(w, Bnd(w, "left", m), Pos(w, m))
    <3>1. CASE Kid(x, "left", m) = Sentinel /\ Pos(w, m) = Bnd(w, "left", m) + 1
      <4>1. Bnd(w, "left", m) \in Nat
        BY <2>4, Bounds
      <4>2. Part(w, Bnd(w, "left", m), Pos(w, m)) = <<>>
        BY <1>4, <3>1, <4>1
      <4>3. f[Sentinel] = <<>>
        BY <1>2, <1>7
      <4> QED BY <3>1, <4>2, <4>3
    <3>2. CASE /\ Kid(x, "left", m) \in Members(w)
               /\ Bnd(w, "left", Kid(x, "left", m)) = Bnd(w, "left", m) /\ Bnd(w, "right", Kid(x, "left", m)) = Pos(w, m)
      <4>1. width(Kid(x, "left", m)) < width(m)
        BY <2>4, <3>2, Bounds
      <4>2. Kid(x, "left", m) \in M
        BY <3>2 DEF M
      <4> QED BY <2>5, <3>2, <4>1, <4>2 DEF part
    <3> QED BY <2>4, <3>1, <3>2, Bounds
  <2>7. f[Kid(x, "right", m)] = Part(w, Pos(w, m), Bnd(w, "right", m))
    <3>1. CASE Kid(x, "right", m) = Sentinel /\ Bnd(w, "right", m) = Pos(w, m) + 1
      <4>1. Pos(w, m) \in Nat
        BY <2>4, Bounds
      <4> QED BY <1>2, <1>4, <1>7, <3>1, <4>1
    <3>2. CASE /\ Kid(x, "right", m) \in Members(w)
               /\ Bnd(w, "left", Kid(x, "right", m)) = Pos(w, m) /\ Bnd(w, "right", Kid(x, "right", m)) = Bnd(w, "right", m)
      <4>1. width(Kid(x, "right", m)) < width(m)
        BY <2>4, <3>2, Bounds
      <4>2. Kid(x, "right", m) \in M
        BY <3>2 DEF M
      <4> QED BY <2>5, <3>2, <4>1, <4>2 DEF part
    <3> QED BY <2>4, <3>1, <3>2, Bounds
  <2>8. part(m) = Part(w, Bnd(w, "left", m), Pos(w, m)) \o <<m>> \o Part(w, Pos(w, m), Bnd(w, "right", m))
    <3>1. Part(w, Bnd(w, "left", m), Bnd(w, "right", m)) =
             Part(w, Bnd(w, "left", m), Pos(w, m)) \o <<At(w, Pos(w, m))>> \o Part(w, Pos(w, m), Bnd(w, "right", m))
      <4>1. /\ Bnd(w, "left", m) \in Nat /\ Bnd(w, "right", m) \in Nat /\ Pos(w, m) \in Nat
            /\ Bnd(w, "left", m) < Pos(w, m) /\ Pos(w, m) < Bnd(w, "right", m) /\ Bnd(w, "right", m) <= Size(w) + 1
        BY <2>4, Bounds
      <4> QED BY <4>1, PartJoins
    <3> QED BY <1>3, <2>4, <3>1 DEF part
  <2>9. f[m] = f[Kid(x, "left", m)] \o <<m>> \o f[Kid(x, "right", m)]
    BY <1>2, <1>7, <2>4
  <2> QED BY <2>4, <2>6, <2>7, <2>8, <2>9
<1>9. CASE Root(x) = Sentinel
  <2>1. Size(w) = 0 /\ f[Sentinel] = <<>>
    BY <1>2, <1>7, <1>9, RootIs
  <2> QED BY <1>1, <1>4, <1>9, <2>1
<1>10. CASE Root(x) # Sentinel
  BY <1>1, <1>8, <1>10, RootIs DEF M, part
<1> QED BY <1>9, <1>10
==============================================================================
