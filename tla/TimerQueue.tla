------------------------------ MODULE TimerQueue ------------------------------
(***************************************************************************)
(* What the timer tree promises: a collection of armed nodes with their    *)
(* keys, into which nodes are inserted and from which they are deleted,    *)
(* and nothing else ever happens to it.                                    *)
(***************************************************************************)
EXTENDS Integers

CONSTANTS
    Nodes,      \* rbtree_node_t's
    Keys        \* the values of a key

VARIABLE q      \* the keys of the armed nodes

Armed == DOMAIN q

Insert(n) ==
    /\ n \notin Armed
    /\ Armed' = Armed \cup {n}
    /\ q'[n] \in Keys
    /\ \A m \in Armed : q'[m] = q[m]

Delete(n) ==
    /\ n \in Armed
    /\ Armed' = Armed \ {n}
    /\ \A m \in Armed \ {n} : q'[m] = q[m]

Init == q = [n \in {} |-> 0]

Next == \E n \in Nodes : Insert(n) \/ Delete(n)

Spec == Init /\ [][Next]_q
=============================================================================
