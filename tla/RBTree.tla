-------------------------------- MODULE RBTree --------------------------------
(***************************************************************************)
(* The red-black tree of the timers (rbtree.h, rbtree.c), with either of   *)
(* its two insert functions: rbtree_insert_timer_value, which              *)
(* event_timer_init chooses, and rbtree_insert_value.                      *)
(*                                                                         *)
(* The memory of the tree is one record t, so that the C statements become *)
(* functions from t to t; left and right are the two values of an index,   *)
(* so that the mirrored halves of the code are one definition.  Every      *)
(* iteration of a loop is a step: the properties are checked of the        *)
(* half-balanced trees too.                                                *)
(***************************************************************************)
EXTENDS Msec, Null, Sequences, FiniteSets

CONSTANTS
    Nodes,      \* the timer nodes of the events
    Sentinel,   \* ctx->sentinel
    KeysOf,     \* KeysOf[n]: the keys n is inserted with
    Workloads   \* the insert function, and bounds: which nodes are inserted,
                \* each after which others, and which are deleted

InsertFunctions == {"rbtree_insert_timer_value", "rbtree_insert_value"}

ASSUME TreeAssumption ==
    /\ Sentinel \notin Nodes /\ None \notin Nodes \cup {Sentinel}
    /\ KeysOf \in [Nodes -> SUBSET (0 .. KeyMod - 1)]
    /\ Workloads \subseteq [insert : InsertFunctions, inserted : SUBSET Nodes,
                            after : [Nodes -> SUBSET Nodes], deleted : SUBSET Nodes]

Places == Nodes \cup {Sentinel}
Sides  == {"left", "right"}
Other(d) == IF d = "left" THEN "right" ELSE "left"

VARIABLES
    t,      \* the tree: root, kid["left"], kid["right"], parent, red
    key,    \* node->key
    pc,     \* the loop that runs: "idle", "descend", "insert_fix", "delete_fix"
    node,   \* the variable `node' of rbtree_insert
    temp,   \* the variable `temp' of the loop that runs
    rounds, \* history: iterations in the call that runs, 0 between calls
    work    \* the workload of this behaviour

vars == <<t, key, pc, node, temp, rounds, work>>

TypeOK ==
    /\ t.root \in Places
    /\ t.kid \in [Sides -> [Places -> Places \cup {None}]]
    /\ t.parent \in [Places -> Places \cup {None}]
    /\ t.red \in [Places -> BOOLEAN]
    /\ key \in [Nodes -> 0 .. KeyMod - 1]
    /\ pc \in {"idle", "descend", "insert_fix", "delete_fix"}
    /\ node \in Nodes \cup {None}
    /\ temp \in Places \cup {None}
    /\ rounds \in Nat
    /\ work \in Workloads

\* rbtree_init; nodes not linked yet have no links.
Init ==
    /\ t = [root   |-> Sentinel,
            kid    |-> [d \in Sides |-> [n \in Places |-> None]],
            parent |-> [n \in Places |-> None],
            red    |-> [n \in Places |-> FALSE]]
    /\ key = [n \in Nodes |-> 0]
    /\ pc = "idle"
    /\ node = None
    /\ temp = None
    /\ rounds = 0
    /\ work \in Workloads

-----------------------------------------------------------------------------
(* Statements. *)

SetRoot(x, n)      == [x EXCEPT !.root = n]
SetKid(x, d, n, c) == [x EXCEPT !.kid[d][n] = c]
SetParent(x, n, p) == [x EXCEPT !.parent[n] = p]
SetRed(x, n, r)    == [x EXCEPT !.red[n] = r]
Black(x, n)        == SetRed(x, n, FALSE)
Red(x, n)          == SetRed(x, n, TRUE)
SetKids(x, n, l, r) == SetKid(SetKid(x, "left", n, l), "right", n, r)

\* Make p the parent of n, unless n is the sentinel.
Adopt(x, n, p) == IF n # Sentinel THEN SetParent(x, n, p) ELSE x

\* The side of its parent on which n hangs: n == n->parent->left ?
SideOf(x, n) == IF x.kid["left"][x.parent[n]] = n THEN "left" ELSE "right"

\* Put m where n hangs: into *root or into a link of n's parent.
Replace(x, n, m) ==
    IF n = x.root THEN SetRoot(x, m) ELSE SetKid(x, SideOf(x, n), x.parent[n], m)

\* rbtree_left_rotate for d = "left", rbtree_right_rotate for "right".
Rotate(x, n, d) ==
    LET up    == x.kid[Other(d)][n]
        inner == x.kid[d][up]
        x1 == Adopt(SetKid(x, Other(d), n, inner), inner, n)
        x2 == Replace(SetParent(x1, up, x.parent[n]), n, up)
    IN  SetParent(SetKid(x2, d, up, n), n, up)

rbtree_min(x, n) ==
    LET leftmost[m \in Nodes] ==
          IF x.kid["left"][m] \in Nodes THEN leftmost[x.kid["left"][m]] ELSE m
    IN  leftmost[n]

\* The order of tree->insert: by the signed difference, or of unsigned numbers.
Less(a, b) ==
    IF work.insert = "rbtree_insert_timer_value" THEN msec_int(a, b) < 0 ELSE a < b

\* Mutant of rbtree_find: equal keys are looked for on the left.
rbtree_find_Left(x, k) ==
    LET find[n \in Places \cup {None}] ==
          LET at == IF n = Sentinel THEN 0 ELSE key[n]
          IN  IF n = None THEN None
              ELSE IF k <= at THEN find[x.kid["left"][n]]
              ELSE find[x.kid["right"][n]]
    IN  find[x.root]

\* The loop ends at NULL, not at the sentinel: the sentinel's key, 0 in the
\* static memory of a core, is compared too, and its links are NULL.
rbtree_find(x, k) ==
    LET find[n \in Places \cup {None}] ==
          LET at == IF n = Sentinel THEN 0 ELSE key[n]
          IN  IF n = None THEN None
              ELSE IF k < at THEN find[x.kid["left"][n]]
              ELSE IF k > at THEN find[x.kid["right"][n]]
              ELSE n
    IN  find[x.root]

-----------------------------------------------------------------------------
(* The nodes that are linked, in their order. *)

InOrder(x) ==
    LET walk[n \in Places \cup {None}] ==
          IF n \notin Nodes THEN <<>>
          ELSE walk[x.kid["left"][n]] \o <<n>> \o walk[x.kid["right"][n]]
    IN  walk[x.root]

Linked == LET s == InOrder(t) IN {s[i] : i \in 1 .. Len(s)}

-----------------------------------------------------------------------------
(* rbtree_insert: a binary tree insert, then the loop that rebalances. *)

Leaf(x, n, p) == SetParent(SetKids(x, n, Sentinel, Sentinel), n, p)

\* The callers set node->key and insert only nodes that are not linked.
InsertFirst(n, k) ==
    /\ pc = "idle" /\ t.root = Sentinel
    /\ key' = [key EXCEPT ![n] = k]
    /\ t' = SetRoot(Black(Leaf(t, n, None), n), n)
    /\ UNCHANGED <<pc, node, temp>>

Insert(n, k) ==
    /\ pc = "idle" /\ t.root # Sentinel /\ n \notin Linked
    /\ key' = [key EXCEPT ![n] = k]
    /\ pc' = "descend"
    /\ node' = n
    /\ temp' = t.root
    /\ UNCHANGED t

\* Mutants of Descend: unsigned comparison; the loop does not advance.
DescendUnsigned ==
    LET d == IF key[node] < key[temp] THEN "left" ELSE "right"
        p == t.kid[d][temp]
    IN
    /\ pc = "descend"
    /\ IF p # Sentinel
       THEN temp' = p /\ UNCHANGED <<t, pc>>
       ELSE /\ t' = Red(Leaf(SetKid(t, d, temp, node), node, temp), node)
            /\ pc' = "insert_fix"
            /\ temp' = None
    /\ UNCHANGED <<key, node>>

DescendStays ==
    LET d == IF Less(key[node], key[temp]) THEN "left" ELSE "right"
        p == t.kid[d][temp]
    IN
    /\ pc = "descend"
    /\ IF p # Sentinel
       THEN UNCHANGED <<t, pc, temp>>
       ELSE /\ t' = Red(Leaf(SetKid(t, d, temp, node), node, temp), node)
            /\ pc' = "insert_fix"
            /\ temp' = None
    /\ UNCHANGED <<key, node>>

\* One iteration of tree->insert; equal keys go to the right.
Descend ==
    LET d == IF Less(key[node], key[temp]) THEN "left" ELSE "right"
        p == t.kid[d][temp]
    IN
    /\ pc = "descend"
    /\ IF p # Sentinel
       THEN temp' = p /\ UNCHANGED <<t, pc>>
       ELSE /\ t' = Red(Leaf(SetKid(t, d, temp, node), node, temp), node)
            /\ pc' = "insert_fix"
            /\ temp' = None
    /\ UNCHANGED <<key, node>>

InsertUnbalanced == node # t.root /\ t.red[t.parent[node]]

InsertFix ==
    LET p == t.parent[node]
        g == t.parent[p]
        d == SideOf(t, p)
        uncle == t.kid[Other(d)][g]
        inner == node = t.kid[Other(d)][p]
        x  == IF inner THEN Rotate(t, p, d) ELSE t
        n1 == IF inner THEN p ELSE node
        p1 == x.parent[n1]
        g1 == x.parent[p1]
    IN
    /\ pc = "insert_fix" /\ InsertUnbalanced
    /\ IF t.red[uncle]
       THEN t' = Red(Black(Black(t, p), uncle), g) /\ node' = g
       ELSE t' = Rotate(Red(Black(x, p1), g1), g1, Other(d)) /\ node' = n1
    /\ UNCHANGED <<key, pc, temp>>

\* Mutant of InsertDone: the root is not made black.
InsertDoneRedRoot ==
    /\ pc = "insert_fix" /\ ~InsertUnbalanced
    /\ pc' = "idle"
    /\ node' = None
    /\ UNCHANGED <<t, key, temp>>

InsertDone ==
    /\ pc = "insert_fix" /\ ~InsertUnbalanced
    /\ t' = Black(t, t.root)
    /\ pc' = "idle"
    /\ node' = None
    /\ UNCHANGED <<key, temp>>

-----------------------------------------------------------------------------
(* rbtree_delete: unlink the node, then the loop that rebalances. *)

Substitute(x, n) ==
    IF x.kid["left"][n] = Sentinel \/ x.kid["right"][n] = Sentinel THEN n
    ELSE rbtree_min(x, x.kid["right"][n])

\* The child that takes the place of the substitute.
Orphan(x, n, subst) ==
    IF subst = n
    THEN IF x.kid["left"][n] = Sentinel THEN x.kid["right"][n] ELSE x.kid["left"][n]
    ELSE IF x.kid["left"][subst] # Sentinel THEN x.kid["left"][subst] ELSE x.kid["right"][subst]

Clear(x, n) == SetParent(SetKids(x, n, None, None), n, None)

\* subst takes the links of n to its parent and its children, and its colour.
Inherit(x, n, subst) ==
    SetRed(SetParent(SetKids(x, subst, x.kid["left"][n], x.kid["right"][n]),
                     subst, x.parent[n]), subst, x.red[n])

\* Mutant of TakeOver: the children keep the deleted node as their parent.
TakeOverKeepsParents(x, n, subst) == Replace(Inherit(x, n, subst), n, subst)

TakeOver(x, n, subst) ==
    LET x1 == Replace(Inherit(x, n, subst), n, subst)
    IN  Adopt(Adopt(x1, x.kid["left"][n], subst), x.kid["right"][n], subst)

\* Mutant of Unlink: the child of the substitute is dropped.
UnlinkDropsOrphan(x, n, subst, orphan) ==
    LET up == IF subst # n /\ x.parent[subst] = n THEN subst ELSE x.parent[subst]
        x1 == SetParent(Replace(x, subst, Sentinel), orphan, up)
    IN  IF subst = n THEN x1 ELSE TakeOver(x1, n, subst)

Unlink(x, n, subst, orphan) ==
    LET up == IF subst # n /\ x.parent[subst] = n THEN subst ELSE x.parent[subst]
        x1 == SetParent(Replace(x, subst, orphan), orphan, up)
    IN  IF subst = n THEN x1 ELSE TakeOver(x1, n, subst)

Delete(n) ==
    LET subst  == Substitute(t, n)
        orphan == Orphan(t, n, subst)
        last   == subst = t.root
    IN
    /\ pc = "idle" /\ n \in Linked
    /\ key' = [key EXCEPT ![n] = 0]
    /\ t' = IF last THEN Clear(Black(SetRoot(t, orphan), orphan), n)
            ELSE Clear(Unlink(t, n, subst, orphan), n)
    /\ IF last \/ t.red[subst]
       THEN UNCHANGED <<pc, temp>>
       ELSE pc' = "delete_fix" /\ temp' = orphan
    /\ UNCHANGED node

DeleteUnbalanced == temp # t.root /\ ~t.red[temp]

DeleteFix ==
    LET d == SideOf(t, temp)
        o == Other(d)
        p == t.parent[temp]
        \* a red sibling is rotated away first
        w0 == t.kid[o][p]
        x  == IF t.red[w0] THEN Rotate(Red(Black(t, w0), p), p, d) ELSE t
        w  == x.kid[o][p]
        \* then the outer nephew is made red
        y  == IF x.red[x.kid[o][w]] THEN x ELSE Rotate(Red(Black(x, x.kid[d][w]), w), w, o)
        w1 == y.kid[o][p]
        z  == Black(Black(SetRed(y, w1, y.red[p]), p), y.kid[o][w1])
    IN
    /\ pc = "delete_fix" /\ DeleteUnbalanced
    /\ IF ~x.red[x.kid["left"][w]] /\ ~x.red[x.kid["right"][w]]
       THEN t' = Red(x, w) /\ temp' = p
       ELSE t' = Rotate(z, p, d) /\ temp' = t'.root
    /\ UNCHANGED <<key, pc, node>>

\* Mutant of DeleteDone: temp is not made black.
DeleteDoneKeepsRed ==
    /\ pc = "delete_fix" /\ ~DeleteUnbalanced
    /\ pc' = "idle"
    /\ temp' = None
    /\ UNCHANGED <<t, key, node>>

DeleteDone ==
    /\ pc = "delete_fix" /\ ~DeleteUnbalanced
    /\ t' = Black(t, temp)
    /\ pc' = "idle"
    /\ temp' = None
    /\ UNCHANGED <<key, node>>

-----------------------------------------------------------------------------
Call ==
    \/ \E n \in work.inserted : /\ work.after[n] \subseteq Linked
                               /\ \E k \in KeysOf[n] : InsertFirst(n, k) \/ Insert(n, k)
    \/ \E n \in work.deleted : Delete(n)

Round == Descend \/ InsertFix \/ DeleteFix

Next ==
    /\ \/ Call /\ rounds' = 0
       \/ Round /\ rounds' = rounds + 1
       \/ (InsertDone \/ DeleteDone) /\ rounds' = 0
    /\ UNCHANGED work

Spec == Init /\ [][Next]_vars

-----------------------------------------------------------------------------
(***************************************************************************)
(* The nodes stay in the order of their keys, for timers by the signed     *)
(* difference that also works when keys wrap around, in every intermediate *)
(* tree; rbtree_min, which event_expire_timers relies on, gives the first. *)
(***************************************************************************)
SearchOrder ==
    LET s == InOrder(t)
    IN  /\ \A i \in 1 .. Len(s) - 1 : ~Less(key[s[i + 1]], key[s[i]])
        /\ t.root # Sentinel => rbtree_min(t, t.root) = s[1]

(***************************************************************************)
(* Between operations the tree is a red-black tree: the root is black, no  *)
(* red node has a red child, and all paths have the same number of black   *)
(* nodes.  This is what keeps the loops short.                             *)
(***************************************************************************)
BlackHeight(x) ==
    LET h[n \in Places \cup {None}] ==
          IF n \notin Nodes THEN 0
          ELSE LET l == h[x.kid["left"][n]]  r == h[x.kid["right"][n]]
               IN  IF l = -1 \/ l # r THEN -1 ELSE l + IF x.red[n] THEN 0 ELSE 1
    IN  h[x.root]

RedBlack ==
    pc = "idle" =>
        /\ ~t.red[t.root]
        /\ \A n \in Linked, d \in Sides : t.red[n] => ~t.red[t.kid[d][n]]
        /\ BlackHeight(t) # -1

(***************************************************************************)
(* Parent links, which the rotations and the deletion follow, agree with   *)
(* the child links in every intermediate tree.  The root's may be stale.   *)
(***************************************************************************)
ParentLinks ==
    \A n \in Linked \ {t.root} :
        t.parent[n] \in Linked /\ n \in {t.kid["left"][t.parent[n]], t.kid["right"][t.parent[n]]}

(***************************************************************************)
(* The rebalancing of rbtree_delete never looks at a child of the          *)
(* sentinel, which has none: the sibling of temp is a node.                *)
(***************************************************************************)
SiblingIsNode ==
    pc = "delete_fix" /\ DeleteUnbalanced =>
        LET p == t.parent[temp]  w == t.kid[Other(SideOf(t, temp))][p]
        IN  /\ p \in Linked /\ temp = t.kid[SideOf(t, temp)][p]
            /\ w \in Nodes
            /\ t.red[w] => t.kid[SideOf(t, temp)][w] \in Nodes

(***************************************************************************)
(* Between operations on a tree of rbtree_insert_value, rbtree_find finds  *)
(* a node with the key exactly if there is one, but for key 0, which it    *)
(* may find in the sentinel.                                               *)
(***************************************************************************)
FindExact ==
    pc = "idle" /\ work.insert = "rbtree_insert_value" =>
        \A k \in 0 .. KeyMod - 1 :
            LET f == rbtree_find(t, k) IN
            IF \E n \in Linked : key[n] = k THEN f \in Linked /\ key[f] = k
            ELSE f = None \/ (k = 0 /\ f = Sentinel)

(***************************************************************************)
(* The tree implements the timer queue: whatever is rotated, no node is    *)
(* lost, added or given another key but by an insert or a delete.          *)
(***************************************************************************)
Queue == INSTANCE TimerQueue WITH q <- [n \in Linked |-> key[n]], Keys <- 0 .. KeyMod - 1

ImplementsQueue == Queue!Spec

(***************************************************************************)
(* Every insert and every delete ends, and soon: a call makes at most      *)
(* 3 log2(n + 1) + 1 iterations in a tree of n nodes, two for every black  *)
(* node on the way down and one on the way up.                             *)
(***************************************************************************)
LoopsAreShort ==
    LET n == Cardinality(Linked) IN 2^rounds <= 2 * (n + 1) * (n + 1) * (n + 1)
=============================================================================
